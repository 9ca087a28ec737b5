---------------------------- MODULE BadgeProofs ----------------------------
(***************************************************************************)
(* Safety of Badge.tla, for every value of its constants.                  *)
(*                                                                         *)
(* A pass of the loop is a composition of a dozen steps over one record,   *)
(* so the proof goes the same way.  Every step has a lemma: it keeps the   *)
(* badge Sound (what is seen of the settings is what is saved, a flow is   *)
(* inside its list, the panel as bright as the loop remembers, the         *)
(* animator's edges behind it), touches only the fields the lemma names,   *)
(* and asks for a redraw unless the panel has the same to show (Carries).  *)
(* PassKeeps puts them together; BadgeInv, inductive over the steps, adds  *)
(* what a pass ends with: the backlight the cable calls for (Dimmed), and  *)
(* what the repaint leaves: the picture, the footer noted, the light and   *)
(* the word over B (Chromed, Informed) and the bubble.                     *)
(*                                                                         *)
(* Two histories, of the time worked and of what was read since an id was  *)
(* celebrated, have invariants of their own, DoneInv and StageInv, on top  *)
(* of BadgeInv.  They need of a pass only what asking the animator once    *)
(* does (Asked, Heeds).                                                    *)
(*                                                                         *)
(* The type invariant needs one more, TypedInv: every list of screens that *)
(* any settings leave has a screen, the options are always among them and  *)
(* their display screen is the first of its category (Menu), and every     *)
(* step puts the indices where the list it leaves has them (Placed).       *)
(***************************************************************************)
EXTENDS Badge, FiniteSetTheorems, WellFoundedInduction, TLAPS

\* The records of the model, so that a proof can say which fields a step leaves.
Fields == {"saved", "categories", "category", "screen", "page", "flow", "theme", "scale", "panel",
           "dimmed", "cycled", "avatar", "gauge", "onBattery", "liveOn", "payload", "dirty",
           "framed", "blinked", "ticked", "dropped", "beat", "swept", "shown", "chrome", "footer",
           "noted"}
SavedFields  == {"palette", "font", "sprite", "brightness", "dim", "boot", "hidden", "saverOff",
                 "wifi", "cycle"}
AvatarFields == {"battery", "wasBattery", "online", "wasOnline", "sprite", "visual", "previous",
                 "worked", "done", "redraw", "celebration", "celebrated", "jump", "bubble",
                 "director"}
DirectorFields == {"quip", "entered", "rotate", "waiting", "limit", "streak", "due", "pending",
                   "quote"}
\* The kinds of rows in the display menu.
RowKinds == {"boot", "font", "speed", "brightness", "dim", "saver", "wifi", "demo", "reset",
             "about", "other"}

\* The selection of a flow is inside its list.
InRange(f) ==
  /\ f.kind = "display"  => f.at \in 0 .. Len(Rows) - 1
  /\ f.kind = "screens"  => f.at \in 0 .. Len(DataList) - 1
  /\ f.kind = "palettes" => f.at \in 0 .. Palettes - 1
  /\ f.kind = "font"     => f.at \in 0 .. Fonts - 1
  /\ f.kind = "avatar"   => f.at \in 0 .. Sprites /\ f.alt \in 1 .. Len(Intervals)
  /\ f.kind = "explain"  => f.at \in 0 .. Trophies - 1
  /\ f.kind = "demo"     => f.at \in 0 .. DemoSteps - 1

\* The shape of the animator, of the badge, and of the badge with its open flow.
Animator(a) == DOMAIN a = AvatarFields /\ DOMAIN a.director = DirectorFields
InFlow(c)   == c.flow \in Flows /\ InRange(c.flow)
Shaped(c) ==
  /\ DOMAIN c = Fields /\ DOMAIN c.saved = SavedFields /\ Animator(c.avatar)

\* What is seen of the settings is what is saved, and there is such a choice.
Live(c) ==
  /\ c.theme = c.saved.palette /\ c.scale = c.saved.font /\ c.avatar.sprite = c.saved.sprite
  /\ c.saved.palette \in 0 .. Palettes - 1 /\ c.saved.font \in 0 .. Fonts - 1
  /\ c.saved.sprite \in 0 .. Sprites - 1
  /\ c.saved.cycle = 0 \/ \E i \in 1 .. Len(Intervals) : Intervals[i] = c.saved.cycle
  /\ ((c.flow = None \/ c.flow.kind # "screens") /\ "screens" \notin c.dropped)
       => c.categories = Categories(c.saved.hidden)

\* The panel is as bright as it was chosen, unless an editor previews it.
Lit(c) ==
  (c.flow = None \/ c.flow.kind \notin FromDisplay) /\ c.dropped \cap FromDisplay = {}
     /\ c.dimmed # None
    => c.panel = Panel(c, c.dimmed)

\* A step from c to d leaves the fields F alone.
Keeps(c, d, F) == \A f \in F : d[f] = c[f]

\* What an open flow leaves alone.
Around == {"category", "screen", "page", "dimmed", "cycled", "gauge", "onBattery",
           "liveOn", "payload", "dirty", "framed", "blinked", "ticked", "dropped", "beat", "swept",
           "shown", "chrome", "footer", "noted"}

\* A flow that stands where it stood, and the settings it shows.
SameFlow(c, d) ==
  /\ d.flow.kind = c.flow.kind /\ d.flow.at = c.flow.at /\ d.flow.alt = c.flow.alt
  /\ Keeps(c, d, {"saved", "theme", "scale"})

\* A selection moved by any number of places stays in its list, and where it is
\* when it is not moved.
LEMMA OffIn ==
  ASSUME NEW n \in Nat \ {0}, NEW x \in Int, NEW by \in Int
  PROVE  /\ Off(x, by, n) \in 0 .. n - 1
         /\ x \in 0 .. n - 1 /\ by = 0 => Off(x, by, n) = x
BY DEF Off

\* Every list and every range of the badge has an entry.
LEMMA Sizes ==
  /\ Len(Rows) \in Nat \ {0} /\ Palettes \in Nat \ {0} /\ Fonts \in Nat \ {0}
  /\ Sprites \in Nat \ {0} /\ Len(Intervals) \in Nat \ {0} /\ DemoSteps \in Nat \ {0}
  /\ Trophies \in Nat \ {0} /\ ProjectPages \in Nat \ {0}
BY ScreensAssumption

\* What the arrows move a selection by is an integer, nothing when none is pressed.
LEMMA Steps ==
  ASSUME NEW P
  PROVE  /\ Across(P) \in Int /\ Along(P) \in Int /\ Cycled(P) \in Int
         /\ P = {} => Across(P) = 0 /\ Along(P) = 0 /\ Cycled(P) = 0
BY DEF Across, Along, Cycled

\* An open flow has a kind and a place, and is a flow still when a press moves it,
\* changes the other value it edits or ends it.
LEMMA FlowsAre ==
  ASSUME NEW f \in Flows
  PROVE  /\ f # None /\ f.at \in Int /\ f.kind \in FlowKinds
         /\ \A x \in Int : [f EXCEPT !.at = x] \in Flows /\ [f EXCEPT !.alt = x] \in Flows
         /\ \A x \in BOOLEAN : [f EXCEPT !.finished = x] \in Flows
BY ScreensAssumption DEF Flows

\* A flow may be replaced by another of its kind, or one of the display menu by
\* another of them: the settings and what is seen of them stay alike.
LEMMA FlowChanges ==
  ASSUME NEW c, NEW f \in Flows, NEW d, d = [c EXCEPT !.flow = f],
         Shaped(c), InFlow(c), Live(c), InRange(f),
         f.kind = c.flow.kind \/ {f.kind, c.flow.kind} \subseteq FromDisplay
  PROVE  /\ Shaped(d) /\ InFlow(d) /\ Live(d) /\ (Lit(c) => Lit(d))
         /\ Keeps(c, d, Fields \ {"flow"}) /\ Keeps(c, d, Around)
         /\ Keeps(c.avatar, d.avatar, AvatarFields) /\ d.flow = f
<1>1. c.flow # None /\ f # None
  BY FlowsAre DEF InFlow
<1>2. /\ Shaped(d) /\ d.flow = f /\ Keeps(c, d, Fields \ {"flow"}) /\ Keeps(c, d, Around)
      /\ Keeps(c.avatar, d.avatar, AvatarFields)
      /\ d.saved = c.saved /\ d.categories = c.categories /\ d.theme = c.theme /\ d.scale = c.scale
      /\ d.avatar = c.avatar /\ d.panel = c.panel /\ d.dimmed = c.dimmed /\ d.dropped = c.dropped
  BY DEF Shaped, Animator, Keeps, Around, Fields, SavedFields, AvatarFields, DirectorFields
<1>3. Live(d)
  BY <1>1, <1>2 DEF Live, FromDisplay
<1>4. Lit(c) => Lit(d)
  BY <1>1, <1>2 DEF Lit, Panel
<1>. QED
  BY <1>2, <1>3, <1>4 DEF InFlow

\* A set of numbers that is not empty has a least one.
LEMMA LeastNumber ==
  ASSUME NEW S \in SUBSET Nat, S # {}
  PROVE  \E m \in S : \A k \in S : m <= k
<1>1. PICK m \in S : \A k \in S : <<k, m>> \notin OpToRel(<, Nat)
  BY WFMin, NatLessThanWellFounded
<1>2. \A k \in S : ~(k < m)
  BY <1>1, Zenon DEF OpToRel
<1>. QED
  BY <1>2

\* How many of the places S come up to the place i.
Rank(S, i) == Cardinality({j \in S : j <= i})

\* The rank of a place is a number, at most that of all, and grows by its own.
LEMMA Ranks ==
  ASSUME NEW n \in Nat, NEW S \in SUBSET (1 .. n)
  PROVE  /\ IsFiniteSet(S) /\ Cardinality(S) \in Nat
         /\ Rank(S, 0) = 0 /\ Rank(S, n) = Cardinality(S)
         /\ \A i \in Int : Rank(S, i) \in Nat /\ Rank(S, i) <= Cardinality(S)
         /\ \A i \in Nat \ {0} : IF i \in S THEN Rank(S, i) = Rank(S, i - 1) + 1
                                 ELSE Rank(S, i) = Rank(S, i - 1)
         /\ \A i \in S, j \in Int : j < i => Rank(S, j) < Rank(S, i)
<1>. DEFINE Upto(i) == {j \in S : j <= i}
<1>0. \A j \in S : j \in Nat \ {0} /\ j <= n
  OBVIOUS
<1>u. /\ \A i, j : j \in Upto(i) <=> j \in S /\ j <= i
      /\ \A i : Rank(S, i) = Cardinality(Upto(i))
  BY DEF Rank
<1>1. IsFiniteSet(1 .. n)
  BY FS_Interval
<1>. HIDE DEF Upto
<1>2. IsFiniteSet(S) /\ Cardinality(S) \in Nat
  BY <1>1, FS_Subset, FS_CardinalityType
<1>3. \A i : /\ IsFiniteSet(Upto(i)) /\ Cardinality(Upto(i)) \in Nat
             /\ Cardinality(Upto(i)) <= Cardinality(S)
  <2>1. \A i : Upto(i) \subseteq S
    BY <1>u
  <2>. QED
    BY <2>1, <1>2, FS_Subset, FS_CardinalityType
<1>4. Upto(0) = {} /\ Upto(n) = S
  BY <1>0, <1>u
<1>5. ASSUME NEW i \in Nat \ {0}
      PROVE  IF i \in S THEN Rank(S, i) = Rank(S, i - 1) + 1
             ELSE Rank(S, i) = Rank(S, i - 1)
  <2>1. CASE i \in S
    <3>0. \A j \in Int : j <= i <=> j <= i - 1 \/ j = i
      OBVIOUS
    <3>1. Upto(i) = Upto(i - 1) \cup {i} /\ i \notin Upto(i - 1)
      <4>1. \A j \in S : j \in Upto(i) <=> j \in Upto(i - 1) \/ j = i
        BY <3>0, <1>0, <1>u
      <4>2. Upto(i) \subseteq S /\ Upto(i - 1) \subseteq S /\ ~(i <= i - 1)
        BY <1>u
      <4>. QED
        BY <4>1, <4>2, <2>1, <1>u
    <3>2. Cardinality(Upto(i - 1) \cup {i}) = Cardinality(Upto(i - 1)) + 1
      <4>1. PICK T : T = Upto(i - 1)
        OBVIOUS
      <4>. QED
        BY <4>1, <3>1, <1>3, FS_AddElement
    <3>. QED
      BY <2>1, <3>1, <3>2, <1>u
  <2>2. CASE i \notin S
    <3>0. \A j \in Int : j <= i <=> j <= i - 1 \/ j = i
      OBVIOUS
    <3>1. Upto(i) = Upto(i - 1)
      <4>1. \A j \in S : j \in Upto(i) <=> j \in Upto(i - 1)
        BY <2>2, <3>0, <1>0, <1>u
      <4>2. Upto(i) \subseteq S /\ Upto(i - 1) \subseteq S
        BY <1>u
      <4>. QED
        BY <4>1, <4>2
    <3>. QED
      BY <2>2, <3>1, <1>u
  <2>. QED
    BY <2>1, <2>2
<1>6. ASSUME NEW i \in S, NEW j \in Int, j < i
      PROVE  Rank(S, j) < Rank(S, i)
  <2>0. i \in Int /\ \A k \in Int : k <= j => k <= i /\ k # i
    BY <1>6, <1>0
  <2>1. Upto(j) \subseteq Upto(i) \ {i} /\ i \in Upto(i)
    <3>1. \A k \in S : k \in Upto(j) => k \in Upto(i) /\ k # i
      BY <2>0, <1>0, <1>u
    <3>2. Upto(j) \subseteq S /\ i <= i
      BY <2>0, <1>u
    <3>. QED
      BY <3>1, <3>2, <1>u
  <2>2. /\ Cardinality(Upto(i) \ {i}) = Cardinality(Upto(i)) - 1
        /\ IsFiniteSet(Upto(i) \ {i})
    BY <2>1, <1>3, FS_RemoveElement
  <2>3. Cardinality(Upto(j)) <= Cardinality(Upto(i) \ {i})
    BY <2>1, <2>2, FS_Subset
  <2>. QED
    BY <2>2, <2>3, <1>3, <1>u
<1>. QED
  BY <1>2, <1>3, <1>4, <1>5, <1>6, FS_EmptySet, <1>u

\* The k-th place is one of the places and of rank k, whatever k up to their
\* number, and every place has its turn.
LEMMA NthIs ==
  ASSUME NEW n \in Nat, NEW S \in SUBSET (1 .. n)
  PROVE  /\ Cardinality(S) \in Nat
         /\ \A k \in 1 .. Cardinality(S) : Nth(S, k) \in S /\ Rank(S, Nth(S, k)) = k
         /\ \A i \in S : Rank(S, i) \in 1 .. Cardinality(S) /\ Nth(S, Rank(S, i)) = i
<1>0. Cardinality(S) \in Nat
  BY Ranks
<1>1. ASSUME NEW k \in 1 .. Cardinality(S)
      PROVE  \E i \in S : Rank(S, i) = k
  <2>. DEFINE Far == {i \in Nat : Rank(S, i) >= k}
  <2>1. n \in Far
    BY Ranks, <1>0
  <2>2. PICK m \in Far : \A i \in Far : m <= i
    BY <2>1, LeastNumber
  <2>3. m # 0
    <3>1. m >= 0 /\ Rank(S, m) >= k /\ ~(0 >= k)
      BY <2>2, <1>0
    <3>. QED
      BY <3>1, Ranks
  <2>4. m - 1 \in Nat /\ m - 1 \notin Far
    BY <2>2, <2>3
  <2>5. Rank(S, m - 1) < k /\ Rank(S, m) >= k
    <3>1. Rank(S, m - 1) \in Nat /\ ~(Rank(S, m - 1) >= k) /\ Rank(S, m) >= k
      BY <2>2, <2>4, Ranks
    <3>. QED
      BY <3>1, <1>0
  <2>6. Rank(S, m) \in Nat /\ Rank(S, m - 1) \in Nat
    BY <2>2, <2>4, Ranks
  <2>7. IF m \in S THEN Rank(S, m) = Rank(S, m - 1) + 1 ELSE Rank(S, m) = Rank(S, m - 1)
    BY <2>2, <2>3, Ranks
  <2>. QED
    BY <1>0, <2>5, <2>6, <2>7
<1>2. ASSUME NEW k \in 1 .. Cardinality(S)
      PROVE  Nth(S, k) \in S /\ Rank(S, Nth(S, k)) = k
  BY <1>1 DEF Nth, Rank
<1>3. ASSUME NEW i \in S
      PROVE  Rank(S, i) \in 1 .. Cardinality(S) /\ Nth(S, Rank(S, i)) = i
  <2>1. i \in Nat \ {0} /\ i \in Int /\ i - 1 \in Int
    OBVIOUS
  <2>2. /\ Rank(S, i) \in Nat /\ Rank(S, i) <= Cardinality(S) /\ Rank(S, i - 1) \in Nat
        /\ Rank(S, i - 1) < Rank(S, i)
    BY <2>1, Ranks
  <2>3. Rank(S, i) \in 1 .. Cardinality(S)
    BY <2>2, <1>0
  <2>4. PICK j : j = Nth(S, Rank(S, i))
    OBVIOUS
  <2>5. j \in S /\ Rank(S, j) = Rank(S, i)
    BY <2>3, <2>4, <1>2
  <2>6. ~(j < i) /\ ~(i < j)
    <3>1. j \in Int /\ Rank(S, j) \in Nat
      BY <2>5, Ranks
    <3>2. j < i => Rank(S, j) < Rank(S, i)
      BY <2>5, <3>1, Ranks
    <3>3. i < j => Rank(S, i) < Rank(S, j)
      BY <2>5, <2>1, Ranks
    <3>. QED
      BY <3>1, <3>2, <3>3, <2>1, <2>2, <2>5
  <2>7. j = i
    BY <2>5, <2>6
  <2>. QED
    BY <2>3, <2>4, <2>7
<1>. QED
  BY <1>0, <1>2, <1>3

\* r has what list has at the places S, in their order, and nothing else.
Picks(r, list, S) ==
  /\ Len(r) = Cardinality(S) /\ Len(r) \in Nat /\ (r = <<>> <=> S = {})
  /\ S # {} => Len(r) \in Nat \ {0}
  /\ \A k \in 1 .. Len(r) : \E i \in S : r[k] = list[i] /\ Rank(S, i) = k
  /\ \A i \in S : \E k \in 1 .. Len(r) : r[k] = list[i]

\* What is picked from a list is that.
LEMMA PickedIs ==
  ASSUME NEW n \in Nat, NEW S \in SUBSET (1 .. n), NEW list, NEW r, r = Picked(list, S)
  PROVE  Picks(r, list, S)
<1>0. Cardinality(S) \in Nat /\ IsFiniteSet(S)
  BY Ranks
<1>1. r = [k \in 1 .. Cardinality(S) |-> list[Nth(S, k)]]
  BY DEF Picked
<1>2. Len(r) = Cardinality(S)
  BY <1>0, <1>1
<1>3. Cardinality(S) = 0 <=> S = {}
  BY <1>0, FS_EmptySet
<1>4. r = <<>> <=> S = {}
  <2>1. CASE S = {}
    <3>1. Cardinality(S) = 0
      BY <1>3, <2>1
    <3>2. r = [k \in {} |-> list[Nth(S, k)]]
      BY <3>1, <1>1
    <3>3. r = <<>>
      BY <3>2
    <3>. QED
      BY <2>1, <3>3
  <2>2. CASE S # {}
    BY <2>2, <1>2, <1>3
  <2>. QED
    BY <2>1, <2>2
<1>5. \A k \in 1 .. Len(r) : \E i \in S : r[k] = list[i] /\ Rank(S, i) = k
  BY <1>0, <1>1, <1>2, NthIs
<1>6. ASSUME NEW i \in S PROVE \E k \in 1 .. Len(r) : r[k] = list[i]
  <2>1. PICK k : k = Rank(S, i)
    OBVIOUS
  <2>2. k \in 1 .. Cardinality(S) /\ Nth(S, k) = i
    BY <2>1, NthIs
  <2>. QED
    BY <2>2, <1>1, <1>2
<1>. QED
  BY <1>0, <1>2, <1>3, <1>4, <1>5, <1>6 DEF Picks

\* The screens of the registry: each at one place, and which of them are options.
LEMMA RegistryIs ==
  /\ Len(Registry) \in Nat
  /\ \A i \in Places : Registry[i].id \in Ids
  /\ \A i \in Places : Registry[i].id \in Options <=> Registry[i].category = "OPTIONS"
  /\ \A id \in Options : \E i \in Places : Registry[i].id = id /\ Registry[i].category = "OPTIONS"
  /\ Options \subseteq Ids
<1>1. Len(Registry) \in Nat /\ DOMAIN Registry = Places
  BY ScreensAssumption DEF Places
<1>2. ToSet(Registry) = {Registry[i] : i \in Places}
  BY <1>1 DEF ToSet
<1>3. ASSUME NEW id \in Options
      PROVE  \E i \in Places : Registry[i].id = id /\ Registry[i].category = "OPTIONS"
  BY <1>2 DEF Options
<1>4. \A i \in Places : Registry[i].id \in Ids
  BY <1>2 DEF Ids
<1>5. ASSUME NEW i \in Places
      PROVE  Registry[i].id \in Options <=> Registry[i].category = "OPTIONS"
  <2>1. Registry[i].category = "OPTIONS" => Registry[i].id \in Options
    BY <1>2 DEF Options
  <2>2. ASSUME Registry[i].id \in Options PROVE Registry[i].category = "OPTIONS"
    <3>1. PICK j \in Places : Registry[j].id = Registry[i].id /\ Registry[j].category = "OPTIONS"
      BY <2>2, <1>3
    <3>2. j = i
      BY <3>1, ScreensAssumption DEF Places
    <3>. QED
      BY <3>1, <3>2
  <2>. QED
    BY <2>1, <2>2
<1>6. Options \subseteq Ids
  BY DEF Options, Ids
<1>. QED
  BY <1>1, <1>3, <1>4, <1>5, <1>6

\* The ids at some of the places.
LEMMA IdsAtAre ==
  ASSUME NEW S \in SUBSET Places, NEW r, r = IdsAt(S)
  PROVE  Picks(r, [i \in Places |-> Registry[i].id], S)
<1>1. PICK n : n = Len(Registry)
  OBVIOUS
<1>2. n \in Nat /\ S \in SUBSET (1 .. n)
  BY <1>1, RegistryIs DEF Places
<1>. QED
  BY <1>2, PickedIs DEF IdsAt

\* The screens that can be hidden, or booted into from the menu, are no options.
LEMMA DataListIs ==
  /\ Len(DataList) \in Nat \ {0}
  /\ \A k \in 1 .. Len(DataList) : DataList[k] \in Ids \ Options
<1>1. PICK S : S = {i \in Places : Registry[i].category # "OPTIONS"}
  OBVIOUS
<1>2. S \in SUBSET Places /\ DataList = IdsAt(S)
  BY <1>1 DEF DataList
<1>3. PICK r : r = DataList
  OBVIOUS
<1>4. /\ Len(r) \in Nat /\ (r = <<>> <=> S = {}) /\ (S # {} => Len(r) \in Nat \ {0})
      /\ \A k \in 1 .. Len(r) : \E i \in S : r[k] = Registry[i].id
  <2>1. Picks(r, [i \in Places |-> Registry[i].id], S)
    BY <1>2, <1>3, IdsAtAre
  <2>. QED
    BY <2>1, <1>2 DEF Picks
<1>5. S # {}
  BY <1>3, <1>4, ScreensAssumption
<1>6. \A i \in S : Registry[i].id \in Ids \ Options
  BY <1>1, RegistryIs
<1>. QED
  BY <1>3, <1>4, <1>5, <1>6

\* The screens shown of a category: the options' display screen can only be the
\* first of its list.
LEMMA ShownIs ==
  ASSUME NEW category, NEW h, NEW r, r = Shown(category, h)
  PROVE  /\ Len(r) \in Nat /\ (r = <<>> <=> ShownAt(category, h) = {})
         /\ r # <<>> => Len(r) \in Nat \ {0}
         /\ \A j \in 1 .. Len(r) : r[j] = "options_display" => j = 1
         /\ \A i \in ShownAt(category, h) : Contains(r, Registry[i].id)
<1>1. PICK S : S = ShownAt(category, h)
  OBVIOUS
<1>2. S \in SUBSET Places /\ r = IdsAt(S)
  BY <1>1 DEF Shown, ShownAt
<1>3. /\ Len(r) \in Nat /\ (r = <<>> <=> S = {}) /\ (S # {} => Len(r) \in Nat \ {0})
      /\ \A k \in 1 .. Len(r) : \E i \in S : r[k] = Registry[i].id /\ Rank(S, i) = k
      /\ \A i \in S : \E k \in 1 .. Len(r) : r[k] = Registry[i].id
  <2>1. Picks(r, [i \in Places |-> Registry[i].id], S)
    BY <1>2, IdsAtAre
  <2>. QED
    BY <2>1, <1>2 DEF Picks
<1>4. ASSUME NEW j \in 1 .. Len(r), r[j] = "options_display"
      PROVE  j = 1
  <2>1. PICK i \in S : Registry[i].id = "options_display" /\ Rank(S, i) = j
    BY <1>3, <1>4
  <2>2. i \in Places /\ i \in Nat \ {0} /\ Len(Registry) \in Nat
    BY <1>2, RegistryIs DEF Places
  <2>3. Registry[i].category = "OPTIONS" /\ category = "OPTIONS"
    <3>1. Registry[i].id \in Options
      BY <2>1, ScreensAssumption
    <3>. QED
      BY <3>1, <2>2, <1>1, RegistryIs DEF ShownAt
  <2>4. \A x \in S : x >= i
    <3>1. \A x \in 1 .. i - 1 : Registry[x].category # "OPTIONS"
      BY <2>1, <2>2, ScreensAssumption
    <3>2. \A x \in S : x \in Nat \ {0} /\ Registry[x].category = "OPTIONS"
      BY <1>1, <2>3, RegistryIs DEF ShownAt, Places
    <3>. QED
      BY <3>1, <3>2, <2>2
  <2>5. {x \in S : x <= i} = {i}
    <3>1. \A x \in S : x <= i <=> x = i
      <4>1. \A x \in S : x \in Nat /\ x >= i
        BY <2>4, <1>2, RegistryIs DEF Places
      <4>. QED
        BY <4>1, <2>2
    <3>. QED
      BY <3>1
  <2>6. Rank(S, i) = 1
    BY <2>5, FS_Singleton DEF Rank
  <2>. QED
    BY <2>1, <2>6
<1>5. \A i \in S : Contains(r, Registry[i].id)
  BY <1>3 DEF Contains
<1>. QED
  BY <1>1, <1>3, <1>4, <1>5

\* What can be navigated: no more lists than when nothing is hidden, no list
\* empty, the screens' editor in one of them, and the options' display screen at
\* the head of its list.
Menu(M) ==
  /\ Len(M) \in 1 .. Len(Categories({}))
  /\ \A k \in 1 .. Len(M) :
       /\ Len(M[k]) \in Nat \ {0}
       /\ \A j \in 1 .. Len(M[k]) : M[k][j] = "options_display" => j = 1
  /\ \E k \in 1 .. Len(M) : Contains(M[k], "options_screens")

\* The options are one of the categories.
LEMMA OptionsOrdered ==
  /\ Len(CategoryOrder) \in Nat
  /\ \E k \in 1 .. Len(CategoryOrder) : CategoryOrder[k] = "OPTIONS"
BY ScreensAssumption DEF Contains

\* The categories that have a screen to show make a menu, whatever is hidden.
LEMMA MenuIs ==
  ASSUME NEW h \in SUBSET (Ids \ Options)
  PROVE  Menu(Categories(h))
<1>. DEFINE n == Len(CategoryOrder)
            Lists(g) == [i \in 1 .. n |-> Shown(CategoryOrder[i], g)]
            Filled(g) == {i \in 1 .. n : Lists(g)[i] # <<>>}
<1>0. n \in Nat
  BY OptionsOrdered
<1>1. ASSUME NEW g \in SUBSET (Ids \ Options)
      PROVE  Categories(g) = Picked(Lists(g), Filled(g))
  <2>1. ~(Ids \subseteq g)
    BY ScreensAssumption, RegistryIs
  <2>. QED
    BY <2>1 DEF Categories
<1>2. ASSUME NEW g, NEW i
      PROVE  i \in Filled(g) <=> i \in 1 .. n /\ ShownAt(CategoryOrder[i], g) # {}
  <2>1. PICK c, r : c = CategoryOrder[i] /\ r = Shown(c, g)
    OBVIOUS
  <2>2. r = <<>> <=> ShownAt(c, g) = {}
    BY <2>1, ShownIs
  <2>. QED
    BY <2>1, <2>2
<1>3. \A g, i : i \in 1 .. n => Lists(g)[i] = Shown(CategoryOrder[i], g)
  OBVIOUS
<1>4. \A g : Filled(g) \in SUBSET (1 .. n)
  OBVIOUS
<1>. HIDE DEF Lists, Filled, n
<1>5. Filled(h) \subseteq Filled({})
  <2>1. \A c : ShownAt(c, h) \subseteq ShownAt(c, {})
    BY DEF ShownAt
  <2>. QED
    BY <2>1, <1>2
<1>6. PICK M, F, E, L : M = Categories(h) /\ F = Filled(h) /\ E = Filled({}) /\ L = Lists(h)
  OBVIOUS
<1>7. /\ Len(M) = Cardinality(F) /\ Len(M) \in Nat
      /\ \A k \in 1 .. Len(M) : \E i \in F : M[k] = L[i]
      /\ \A i \in F : \E k \in 1 .. Len(M) : M[k] = L[i]
  <2>1. M = Picked(L, F) /\ F \in SUBSET (1 .. n)
    BY <1>1, <1>4, <1>6
  <2>2. Picks(M, L, F)
    BY <2>1, <1>0, PickedIs
  <2>. QED
    BY <2>2 DEF Picks
<1>8. Len(Categories({})) = Cardinality(E)
  <2>1. PICK g : g = {}
    OBVIOUS
  <2>2. PICK R, K : R = Categories(g) /\ K = Lists(g)
    OBVIOUS
  <2>3. R = Picked(K, E) /\ E \in SUBSET (1 .. n)
    BY <2>1, <2>2, <1>1, <1>4, <1>6
  <2>4. Len(R) = Cardinality(E)
    BY <2>3, <1>0, PickedIs DEF Picks
  <2>. QED
    BY <2>1, <2>2, <2>4
<1>9. Cardinality(F) <= Cardinality(E) /\ Cardinality(E) \in Nat
  <2>1. IsFiniteSet(E) /\ Cardinality(E) \in Nat
    BY <1>0, <1>4, <1>6, Ranks
  <2>. QED
    BY <2>1, <1>5, <1>6, FS_Subset
<1>10. PICK p \in Places : Registry[p].id = "options_screens" /\ Registry[p].category = "OPTIONS"
  BY RegistryIs, ScreensAssumption
<1>11. PICK o \in 1 .. n : CategoryOrder[o] = "OPTIONS"
  BY OptionsOrdered DEF n
<1>12. p \in ShownAt("OPTIONS", h)
  BY <1>10, ScreensAssumption DEF ShownAt
<1>13. o \in F /\ Contains(L[o], "options_screens")
  <2>1. o \in F
    BY <1>2, <1>6, <1>11, <1>12
  <2>2. L[o] = Shown("OPTIONS", h)
    BY <1>3, <1>6, <1>11
  <2>. QED
    BY <2>1, <2>2, <1>10, <1>12, ShownIs
<1>14. \E k \in 1 .. Len(M) : Contains(M[k], "options_screens")
  BY <1>7, <1>13
<1>15. ASSUME NEW k \in 1 .. Len(M)
       PROVE  /\ Len(M[k]) \in Nat \ {0}
              /\ \A j \in 1 .. Len(M[k]) : M[k][j] = "options_display" => j = 1
  <2>1. PICK i \in F : M[k] = L[i]
    BY <1>7
  <2>2. i \in 1 .. n /\ ShownAt(CategoryOrder[i], h) # {}
    BY <1>2, <1>6
  <2>3. PICK r, c : r = M[k] /\ c = CategoryOrder[i]
    OBVIOUS
  <2>4. r = Shown(c, h) /\ ShownAt(c, h) # {}
    BY <2>1, <2>2, <2>3, <1>3, <1>6
  <2>5. Len(r) \in Nat \ {0} /\ \A j \in 1 .. Len(r) : r[j] = "options_display" => j = 1
    BY <2>4, ShownIs
  <2>. QED
    BY <2>3, <2>5
<1>16. Len(M) \in 1 .. Len(Categories({}))
  BY <1>7, <1>8, <1>9, <1>14
<1>. QED
  BY <1>6, <1>14, <1>15, <1>16 DEF Menu

-----------------------------------------------------------------------------

\* Left and right on a row of the display menu: the sprite and the brightness
\* change with the setting they show.
LEMMA StepRowKeeps ==
  ASSUME NEW c, NEW row \in RowKinds, NEW by \in Int, NEW d, d = StepRow(c, row, by),
         Shaped(c), InFlow(c), Live(c), c.flow.kind \in FromDisplay
  PROVE  /\ Shaped(d) /\ InFlow(d) /\ Live(d) /\ d.flow.kind \in FromDisplay
         /\ Keeps(c, d, Around) /\ Keeps(c.avatar, d.avatar, AvatarFields \ {"sprite"})
<1>a. 0 \in 0 .. Palettes - 1 /\ 0 \in 0 .. Fonts - 1 /\ 0 \in 0 .. Sprites - 1
     /\ 0 \in 0 .. DemoSteps - 1
  BY Sizes
<1>b. c.saved.font \in 0 .. Fonts - 1 /\ c.saved.font \in Int
  BY Sizes DEF Live
<1>0. c.flow # None /\ \A k \in FromDisplay, at \in Int, alt \in Int : Flow(k, at, alt) \in Flows
  BY FlowsAre DEF InFlow, Flow, Flows, FlowKinds, FromDisplay
<1>1. CASE row = "boot"
  BY <1>1, <1>0 DEF StepRow, InFlow,
     Shaped, Animator, Live, Keeps, Around, Fields, SavedFields, AvatarFields
<1>2. CASE row = "font"
  <2>. DEFINE f == Flow("font", c.saved.font, 0)
  <2>1. d = [c EXCEPT !.flow = f]
    BY <1>2 DEF StepRow
  <2>2. f \in Flows /\ InRange(f) /\ f.kind \in FromDisplay
    BY <1>a, <1>b, <1>0 DEF InRange, Flow, FromDisplay
  <2>. HIDE DEF f
  <2>3. /\ Shaped(d) /\ InFlow(d) /\ Live(d) /\ Keeps(c, d, Around)
        /\ Keeps(c.avatar, d.avatar, AvatarFields) /\ d.flow = f
    BY <2>1, <2>2, FlowChanges
  <2>. QED
    BY <2>2, <2>3 DEF Keeps
<1>3. CASE row = "speed"
  <2>. DEFINE f == Flow("speed", 0, 0)
  <2>1. d = [c EXCEPT !.flow = f]
    BY <1>3 DEF StepRow
  <2>2. f \in Flows /\ InRange(f) /\ f.kind \in FromDisplay
    BY <1>a, <1>b, <1>0 DEF InRange, Flow, FromDisplay
  <2>. HIDE DEF f
  <2>3. /\ Shaped(d) /\ InFlow(d) /\ Live(d) /\ Keeps(c, d, Around)
        /\ Keeps(c.avatar, d.avatar, AvatarFields) /\ d.flow = f
    BY <2>1, <2>2, FlowChanges
  <2>. QED
    BY <2>2, <2>3 DEF Keeps
<1>4. CASE row = "brightness"
  BY <1>4, <1>0 DEF StepRow, InFlow,
     Shaped, Animator, Live, Keeps, Around, Fields, SavedFields, AvatarFields
<1>5. CASE row = "dim"
  BY <1>5, <1>0 DEF StepRow, InFlow,
     Shaped, Animator, Live, Keeps, Around, Fields, SavedFields, AvatarFields
<1>6. CASE row = "saver"
  BY <1>6, <1>0 DEF StepRow, InFlow,
     Shaped, Animator, Live, Keeps, Around, Fields, SavedFields, AvatarFields
<1>7. CASE row = "wifi"
  BY <1>7, <1>0 DEF StepRow, InFlow,
     Shaped, Animator, Live, Keeps, Around, Fields, SavedFields, AvatarFields
<1>8. CASE row = "demo"
  <2>. DEFINE f == Flow("demo", 0, 1)
  <2>1. d = [c EXCEPT !.flow = f]
    BY <1>8 DEF StepRow
  <2>2. f \in Flows /\ InRange(f) /\ f.kind \in FromDisplay
    BY <1>a, <1>b, <1>0 DEF InRange, Flow, FromDisplay
  <2>. HIDE DEF f
  <2>3. /\ Shaped(d) /\ InFlow(d) /\ Live(d) /\ Keeps(c, d, Around)
        /\ Keeps(c.avatar, d.avatar, AvatarFields) /\ d.flow = f
    BY <2>1, <2>2, FlowChanges
  <2>. QED
    BY <2>2, <2>3 DEF Keeps
<1>9. CASE row = "reset"
  <2>1. d = ResetDefaults(c)
    BY <1>9 DEF StepRow
  <2>. QED
    <3>1. Shaped(d) /\ d.flow = c.flow /\ d.saved = Defaults /\ d.theme = Defaults.palette
          /\ d.scale = Defaults.font /\ d.avatar.sprite = Defaults.sprite
          /\ d.categories = Categories(Defaults.hidden)
          /\ Keeps(c, d, Around) /\ Keeps(c.avatar, d.avatar, AvatarFields \ {"sprite"})
      BY <2>1 DEF ResetDefaults, Defaults, Shaped, Animator, Keeps, Around, Fields, SavedFields,
                  AvatarFields
    <3>2. Live(d)
      BY <1>a, <3>1 DEF Defaults, Live
    <3>. QED
      BY <3>1, <3>2 DEF InFlow
<1>10. CASE row = "about"
  <2>. DEFINE f == Flow("about", 0, 0)
  <2>1. d = [c EXCEPT !.flow = f]
    BY <1>10 DEF StepRow
  <2>2. f \in Flows /\ InRange(f) /\ f.kind \in FromDisplay
    BY <1>a, <1>b, <1>0 DEF InRange, Flow, FromDisplay
  <2>. HIDE DEF f
  <2>3. /\ Shaped(d) /\ InFlow(d) /\ Live(d) /\ Keeps(c, d, Around)
        /\ Keeps(c.avatar, d.avatar, AvatarFields) /\ d.flow = f
    BY <2>1, <2>2, FlowChanges
  <2>. QED
    BY <2>2, <2>3 DEF Keeps
<1>11. CASE row = "other"
  BY <1>11, <1>0 DEF StepRow, InFlow,
     Shaped, Animator, Live, Keeps, Around, Fields, SavedFields, AvatarFields
<1>. QED
  BY <1>1, <1>2, <1>3, <1>4, <1>5, <1>6, <1>7, <1>8, <1>9, <1>10, <1>11 DEF RowKinds

\* The open flow is one of n entries.
Listed(c, n) == \A at \in 0 .. n - 1 : InRange([c.flow EXCEPT !.at = at])

\* What a press does to an open flow.
Pressed(c, d, P) ==
  /\ Shaped(d) /\ InFlow(d) /\ Live(d) /\ (Lit(c) => Lit(d))
  /\ Keeps(c, d, Around) /\ Keeps(c.avatar, d.avatar, AvatarFields \ {"sprite"})
  /\ ~Heard(c, P) => SameFlow(c, d)
  /\ c.flow.kind \notin FromDisplay => d.saved.dim = c.saved.dim

\* A selection that moves stays in its list, one that nobody moves where it is.
LEMMA MovedKeeps ==
  ASSUME NEW c, NEW by \in Int, NEW n \in Nat \ {0}, NEW d, d = Moved(c, by, n),
         Shaped(c), InFlow(c), Live(c),
         Listed(c, n)
  PROVE  /\ Shaped(d) /\ InFlow(d) /\ Live(d) /\ (Lit(c) => Lit(d)) /\ Keeps(c, d, Around)
         /\ Keeps(c.avatar, d.avatar, AvatarFields)
         /\ d.flow.kind = c.flow.kind /\ d.flow.at \in 0 .. n - 1
         /\ d.flow.alt = c.flow.alt /\ Keeps(c, d, {"saved", "theme", "scale"})
         /\ c.flow.at \in 0 .. n - 1 /\ by = 0 => d.flow.at = c.flow.at
<1>. DEFINE f == [c.flow EXCEPT !.at = Off(c.flow.at, by, n)]
<1>1. c.flow \in Flows /\ c.flow.at \in Int
  BY FlowsAre DEF InFlow
<1>2. /\ Off(c.flow.at, by, n) \in 0 .. n - 1
      /\ c.flow.at \in 0 .. n - 1 /\ by = 0 => Off(c.flow.at, by, n) = c.flow.at
  BY <1>1, OffIn
<1>3. f \in Flows /\ f.kind = c.flow.kind /\ f.at = Off(c.flow.at, by, n) /\ InRange(f)
      /\ f.alt = c.flow.alt
  <2>1. Off(c.flow.at, by, n) \in Int
    BY <1>2
  <2>. QED
    BY <1>1, <1>2, <2>1 DEF Flows, Listed
<1>4. d = [c EXCEPT !.flow = f]
  BY <1>1 DEF Moved
<1>. HIDE DEF f
<1>5. /\ Shaped(d) /\ InFlow(d) /\ Live(d) /\ (Lit(c) => Lit(d)) /\ Keeps(c, d, Around)
      /\ Keeps(c.avatar, d.avatar, AvatarFields) /\ d.flow = f /\ Keeps(c, d, Fields \ {"flow"})
  BY <1>3, <1>4, FlowChanges
<1>6. Keeps(c, d, {"saved", "theme", "scale"})
  BY <1>5 DEF Keeps, Fields
<1>. QED
  BY <1>2, <1>3, <1>5, <1>6

\* The B ends a flow and leaves its selection.
LEMMA ConfirmedKeeps ==
  ASSUME NEW c, NEW P, NEW d, d = Confirmed(c, P), Shaped(c), InFlow(c), Live(c)
  PROVE  /\ Shaped(d) /\ InFlow(d) /\ Live(d) /\ (Lit(c) => Lit(d)) /\ Keeps(c, d, Around)
         /\ Keeps(c.avatar, d.avatar, AvatarFields) /\ SameFlow(c, d)
<1>. DEFINE f == [c.flow EXCEPT !.finished = "B" \in P]
<1>1. f \in Flows /\ f.kind = c.flow.kind /\ f.at = c.flow.at /\ InRange(f)
      /\ f.alt = c.flow.alt
  <2>0. c.flow \in Flows /\ ("B" \in P) \in BOOLEAN
    BY DEF InFlow
  <2>1. f.kind = c.flow.kind /\ f.at = c.flow.at /\ f.alt = c.flow.alt
    BY <2>0 DEF Flows
  <2>2. f \in Flows
    BY <2>0, FlowsAre, Zenon
  <2>. QED
    BY <2>1, <2>2 DEF InFlow, InRange
<1>2. d = [c EXCEPT !.flow = f]
  BY DEF Confirmed
<1>. HIDE DEF f
<1>3. /\ Shaped(d) /\ InFlow(d) /\ Live(d) /\ (Lit(c) => Lit(d)) /\ Keeps(c, d, Around)
      /\ Keeps(c.avatar, d.avatar, AvatarFields) /\ d.flow = f /\ Keeps(c, d, Fields \ {"flow"})
  BY <1>1, <1>2, FlowChanges
<1>4. SameFlow(c, d)
  BY <1>1, <1>3 DEF SameFlow, Keeps, Fields
<1>. QED
  BY <1>3, <1>4

\* Which flows hear nothing when nothing, or nothing they know, is pressed.
LEMMA NotHeard ==
  ASSUME NEW c, NEW P, ~Heard(c, P)
  PROVE  /\ c.flow.kind # "speed" => P = {}
         /\ P = {} => Across(P) + 5 * Along(P) = 0
BY DEF Heard, Across, Along

\* A press in the display menu, which may open one of its editors.
LEMMA DisplayKeeps ==
  ASSUME NEW c, NEW P, NEW d, d = DisplayButtons(c, P), Shaped(c), InFlow(c), Live(c),
         c.flow.kind = "display"
  PROVE  Pressed(c, d, P) /\ d.flow.kind \in FromDisplay
<1>. DEFINE n == Len(Rows)
            m == Moved(c, Along(P), n)
            row == Rows[m.flow.at + 1]
            l == IF "A" \in P THEN StepRow(m, row, -1) ELSE m
            r == IF "C" \in P THEN StepRow(l, row, 1) ELSE l
<1>0. n \in Nat \ {0} /\ Along(P) \in Int
  BY Sizes, Steps
<1>1. /\ Shaped(m) /\ InFlow(m) /\ Live(m) /\ Keeps(c, m, Around)
      /\ Keeps(c.avatar, m.avatar, AvatarFields)
      /\ m.flow.kind = c.flow.kind /\ m.flow.at \in 0 .. n - 1
      /\ m.flow.alt = c.flow.alt /\ Keeps(c, m, {"saved", "theme", "scale"})
      /\ c.flow.at \in 0 .. n - 1 /\ Along(P) = 0 => m.flow.at = c.flow.at
  <2>1. Listed(c, n)
    BY DEF Listed, InRange, InFlow, Flows
  <2>. HIDE DEF n
  <2>. QED
    BY <1>0, <2>1, MovedKeeps
<1>2. row \in RowKinds
  BY <1>0, <1>1, ScreensAssumption DEF RowKinds
<1>3. m.flow.kind \in FromDisplay
  BY <1>1 DEF FromDisplay
<1>. HIDE DEF m, row, n
<1>4. /\ Shaped(l) /\ InFlow(l) /\ Live(l) /\ l.flow.kind \in FromDisplay
      /\ Keeps(m, l, Around) /\ Keeps(m.avatar, l.avatar, AvatarFields \ {"sprite"})
      /\ P = {} => l = m
  <2>1. CASE "A" \in P
    <3>0. PICK by \in Int : by = -1
      OBVIOUS
    <3>1. l = StepRow(m, row, by) /\ P # {}
      BY <2>1, <3>0
    <3>. HIDE DEF l
    <3>2. /\ Shaped(l) /\ InFlow(l) /\ Live(l) /\ l.flow.kind \in FromDisplay
          /\ Keeps(m, l, Around) /\ Keeps(m.avatar, l.avatar, AvatarFields \ {"sprite"})
      BY <3>1, <1>1, <1>2, <1>3, StepRowKeeps
    <3>. QED
      BY <3>1, <3>2
  <2>2. CASE "A" \notin P
    BY <2>2, <1>1, <1>3 DEF Keeps
  <2>. QED
    BY <2>1, <2>2
<1>. HIDE DEF l
<1>5. /\ Shaped(r) /\ InFlow(r) /\ Live(r) /\ r.flow.kind \in FromDisplay
      /\ Keeps(l, r, Around) /\ Keeps(l.avatar, r.avatar, AvatarFields \ {"sprite"})
      /\ P = {} => r = m
  <2>1. CASE "C" \in P
    <3>0. PICK by \in Int : by = 1
      OBVIOUS
    <3>1. r = StepRow(l, row, by) /\ P # {}
      BY <2>1, <3>0
    <3>. HIDE DEF r
    <3>2. /\ Shaped(r) /\ InFlow(r) /\ Live(r) /\ r.flow.kind \in FromDisplay
          /\ Keeps(l, r, Around) /\ Keeps(l.avatar, r.avatar, AvatarFields \ {"sprite"})
      BY <3>1, <1>4, <1>2, StepRowKeeps
    <3>. QED
      BY <3>1, <3>2
  <2>2. CASE "C" \notin P
    BY <2>2, <1>4 DEF Keeps
  <2>. QED
    BY <2>1, <2>2
<1>6. d = IF r.flow.kind = "display" THEN Confirmed(r, P) ELSE r
  BY DEF DisplayButtons, r, l, row, m, n
<1>. HIDE DEF r
<1>7. /\ Shaped(d) /\ InFlow(d) /\ Live(d) /\ SameFlow(r, d)
      /\ Keeps(r, d, Around) /\ Keeps(r.avatar, d.avatar, AvatarFields \ {"sprite"})
  <2>1. CASE r.flow.kind = "display"
    <3>1. d = Confirmed(r, P)
      BY <2>1, <1>6
    <3>2. /\ Shaped(d) /\ InFlow(d) /\ Live(d) /\ Keeps(r, d, Around)
          /\ Keeps(r.avatar, d.avatar, AvatarFields) /\ SameFlow(r, d)
      BY <3>1, <1>5, ConfirmedKeeps
    <3>. QED
      BY <3>2 DEF Keeps
  <2>2. CASE r.flow.kind # "display"
    BY <2>2, <1>6, <1>5 DEF Keeps, SameFlow
  <2>. QED
    BY <2>1, <2>2
<1>8. Keeps(c, d, Around) /\ Keeps(c.avatar, d.avatar, AvatarFields \ {"sprite"})
  BY <1>1, <1>4, <1>5, <1>7 DEF Keeps
<1>9. Lit(d)
  BY <1>5, <1>7, FlowsAre DEF Lit, InFlow, SameFlow
<1>10. ~Heard(c, P) => SameFlow(c, d)
  <2>1. c.flow.at \in 0 .. n - 1
    BY DEF InFlow, InRange, n
  <2>. QED
    BY <2>1, <1>1, <1>5, <1>7, NotHeard, Steps DEF SameFlow, Keeps
<1>11. c.flow.kind \in FromDisplay /\ d.flow.kind \in FromDisplay
  BY <1>5, <1>7 DEF SameFlow, FromDisplay
<1>. QED
  BY <1>7, <1>8, <1>9, <1>10, <1>11 DEF Pressed

\* Hiding or showing a screen leaves the flow that did it open.
LEMMA ToggleKeeps ==
  ASSUME NEW c, NEW id, NEW d, d = Toggle(c, id), Shaped(c), InFlow(c), Live(c),
         c.flow.kind = "screens"
  PROVE  /\ Shaped(d) /\ Live(d) /\ (Lit(c) => Lit(d)) /\ Keeps(c, d, Around)
         /\ d.avatar = c.avatar /\ d.flow = c.flow /\ d.saved.dim = c.saved.dim
<1>1. /\ Shaped(d) /\ Keeps(c, d, Around) /\ Keeps(c, d, Fields \ {"saved"})
      /\ Keeps(c.saved, d.saved, SavedFields \ {"hidden"})
  BY DEF Toggle, Shaped, Animator, Keeps, Around, Fields, SavedFields, AvatarFields
<1>2. c.flow # None
  BY FlowsAre DEF InFlow
<1>3. /\ d.flow = c.flow /\ d.theme = c.theme /\ d.scale = c.scale /\ d.avatar = c.avatar
      /\ d.panel = c.panel /\ d.dimmed = c.dimmed /\ d.dropped = c.dropped
      /\ d.saved.palette = c.saved.palette /\ d.saved.font = c.saved.font
      /\ d.saved.sprite = c.saved.sprite /\ d.saved.brightness = c.saved.brightness
      /\ d.saved.cycle = c.saved.cycle /\ d.saved.dim = c.saved.dim
  BY <1>1 DEF Keeps, Fields, SavedFields
<1>. QED
  BY <1>1, <1>2, <1>3 DEF Live, Lit, Panel

\* A press in the list of screens.
LEMMA ScreensKeeps ==
  ASSUME NEW c, NEW P, NEW d, d = ScreensButtons(c, P), Shaped(c), InFlow(c), Live(c),
         c.flow.kind = "screens"
  PROVE  Pressed(c, d, P) /\ d.flow.kind = c.flow.kind
<1>. DEFINE n == Len(DataList)
            m == Moved(c, Along(P), n)
            t == IF {"A", "C"} \cap P = {} THEN m ELSE Toggle(m, DataList[m.flow.at + 1])
<1>0. n \in Nat \ {0} /\ Along(P) \in Int
  BY DataListIs, Steps
<1>1. /\ Shaped(m) /\ InFlow(m) /\ Live(m) /\ (Lit(c) => Lit(m)) /\ Keeps(c, m, Around)
      /\ Keeps(c.avatar, m.avatar, AvatarFields)
      /\ m.flow.kind = c.flow.kind /\ m.flow.at \in 0 .. n - 1
      /\ m.flow.alt = c.flow.alt /\ Keeps(c, m, {"saved", "theme", "scale"})
      /\ c.flow.at \in 0 .. n - 1 /\ Along(P) = 0 => m.flow.at = c.flow.at
  <2>1. Listed(c, n)
    BY DEF Listed, InRange, InFlow, Flows
  <2>. HIDE DEF n
  <2>. QED
    BY <1>0, <2>1, MovedKeeps
<1>2. d = Confirmed(t, P)
  BY DEF ScreensButtons
<1>. HIDE DEF m, n
<1>3. /\ Shaped(t) /\ Live(t) /\ (Lit(m) => Lit(t)) /\ Keeps(m, t, Around)
      /\ t.avatar = m.avatar /\ t.flow = m.flow /\ t.saved.dim = m.saved.dim
      /\ P = {} => t = m
  <2>1. CASE {"A", "C"} \cap P = {}
    BY <2>1, <1>1 DEF Keeps
  <2>2. CASE {"A", "C"} \cap P # {}
    <3>1. t = Toggle(m, DataList[m.flow.at + 1]) /\ P # {}
      BY <2>2
    <3>. HIDE DEF t
    <3>. QED
      BY <3>1, <1>1, ToggleKeeps
  <2>. QED
    BY <2>1, <2>2
<1>. HIDE DEF t
<1>4. /\ Shaped(d) /\ InFlow(d) /\ Live(d) /\ (Lit(t) => Lit(d)) /\ Keeps(t, d, Around)
      /\ Keeps(t.avatar, d.avatar, AvatarFields) /\ SameFlow(t, d)
  <2>1. InFlow(t)
    BY <1>1, <1>3 DEF InFlow
  <2>. QED
    BY <2>1, <1>2, <1>3, ConfirmedKeeps
<1>5. Keeps(c, d, Around) /\ Keeps(c.avatar, d.avatar, AvatarFields \ {"sprite"})
  BY <1>1, <1>3, <1>4 DEF Keeps
<1>6. ~Heard(c, P) => SameFlow(c, d)
  <2>1. c.flow.at \in 0 .. n - 1
    BY DEF InFlow, InRange, n
  <2>. QED
    BY <2>1, <1>1, <1>3, <1>4, NotHeard, Steps DEF SameFlow, Keeps
<1>7. d.flow.kind = c.flow.kind /\ d.saved.dim = c.saved.dim
  BY <1>1, <1>3, <1>4 DEF SameFlow, Keeps
<1>. QED
  BY <1>1, <1>3, <1>4, <1>5, <1>6, <1>7 DEF Pressed

\* A flow whose selection moves by by in n entries and then hears the B.
LEMMA PreviewKeeps ==
  ASSUME NEW c, NEW P, NEW n \in Nat \ {0}, NEW by \in Int, NEW d,
         d = Confirmed(Moved(c, by, n), P), Shaped(c), InFlow(c), Live(c),
         Listed(c, n),
         ~Heard(c, P) => by = 0 /\ c.flow.at \in 0 .. n - 1
  PROVE  Pressed(c, d, P) /\ d.flow.kind = c.flow.kind
<1>. DEFINE m == Moved(c, by, n)
<1>1. /\ Shaped(m) /\ InFlow(m) /\ Live(m) /\ (Lit(c) => Lit(m)) /\ Keeps(c, m, Around)
      /\ Keeps(c.avatar, m.avatar, AvatarFields)
      /\ m.flow.kind = c.flow.kind /\ m.flow.at \in 0 .. n - 1
      /\ m.flow.alt = c.flow.alt /\ Keeps(c, m, {"saved", "theme", "scale"})
      /\ c.flow.at \in 0 .. n - 1 /\ by = 0 => m.flow.at = c.flow.at
  BY MovedKeeps
<1>. HIDE DEF m
<1>2. /\ Shaped(d) /\ InFlow(d) /\ Live(d) /\ (Lit(m) => Lit(d)) /\ Keeps(m, d, Around)
      /\ Keeps(m.avatar, d.avatar, AvatarFields) /\ SameFlow(m, d)
  <2>1. d = Confirmed(m, P)
    BY DEF m
  <2>. QED
    BY <2>1, <1>1, ConfirmedKeeps
<1>3. Keeps(c, d, Around) /\ Keeps(c.avatar, d.avatar, AvatarFields \ {"sprite"})
  BY <1>1, <1>2 DEF Keeps
<1>4. d.flow.kind = c.flow.kind /\ d.saved.dim = c.saved.dim
  BY <1>1, <1>2 DEF SameFlow, Keeps
<1>5. ~Heard(c, P) => SameFlow(c, d)
  BY <1>1, <1>2 DEF SameFlow, Keeps
<1>. QED
  BY <1>1, <1>2, <1>3, <1>4, <1>5 DEF Pressed

\* A press among the palettes: the theme on the panel is the one that is saved.
LEMMA PaletteKeeps ==
  ASSUME NEW c, NEW P, NEW d, d = PaletteButtons(c, P), Shaped(c), InFlow(c), Live(c),
         c.flow.kind = "palettes"
  PROVE  Pressed(c, d, P) /\ d.flow.kind = c.flow.kind
<1>1. PICK n \in Nat \ {0}, by \in Int : n = Palettes /\ by = Cycled(P)
  BY Sizes, Steps
<1>2. Listed(c, n)
  BY <1>1 DEF Listed, InRange, InFlow, Flows
<1>3. ~Heard(c, P) => by = 0 /\ c.flow.at \in 0 .. n - 1
  BY <1>1, NotHeard, Steps DEF InFlow, InRange
<1>4. d = Confirmed(Moved(c, by, n), P)
  BY <1>1 DEF PaletteButtons
<1>. QED
  BY <1>2, <1>3, <1>4, PreviewKeeps

\* A press among the fonts: the scale on the panel is the one that is saved.
LEMMA FontKeeps ==
  ASSUME NEW c, NEW P, NEW d, d = FontButtons(c, P), Shaped(c), InFlow(c), Live(c),
         c.flow.kind = "font"
  PROVE  Pressed(c, d, P) /\ d.flow.kind = c.flow.kind
<1>1. PICK n \in Nat \ {0}, by \in Int : n = Fonts /\ by = Cycled(P)
  BY Sizes, Steps
<1>2. Listed(c, n)
  BY <1>1 DEF Listed, InRange, InFlow, Flows
<1>3. ~Heard(c, P) => by = 0 /\ c.flow.at \in 0 .. n - 1
  BY <1>1, NotHeard, Steps DEF InFlow, InRange
<1>4. d = Confirmed(Moved(c, by, n), P)
  BY <1>1 DEF FontButtons
<1>. QED
  BY <1>2, <1>3, <1>4, PreviewKeeps

\* A press among the avatars, with the interval of the change as its last entry.
LEMMA AvatarKeeps ==
  ASSUME NEW c, NEW P, NEW d, d = AvatarButtons(c, P), Shaped(c), InFlow(c), Live(c),
         c.flow.kind = "avatar"
  PROVE  Pressed(c, d, P) /\ d.flow.kind = c.flow.kind
<1>. DEFINE n == Sprites + 1
            m == Moved(c, Across(P), n)
            alt == Off(m.flow.alt - 1, Along(P), Len(Intervals)) + 1
            f == [m.flow EXCEPT !.alt = alt]
            t == IF m.flow.at # Sprites THEN m ELSE [m EXCEPT !.flow = f]
<1>0. n \in Nat \ {0} /\ Across(P) \in Int /\ Along(P) \in Int /\ Len(Intervals) \in Nat \ {0}
  BY Sizes, Steps
<1>1. /\ Shaped(m) /\ InFlow(m) /\ Live(m) /\ (Lit(c) => Lit(m)) /\ Keeps(c, m, Around)
      /\ Keeps(c.avatar, m.avatar, AvatarFields)
      /\ m.flow.kind = c.flow.kind /\ m.flow.at \in 0 .. n - 1
      /\ m.flow.alt = c.flow.alt /\ Keeps(c, m, {"saved", "theme", "scale"})
      /\ c.flow.at \in 0 .. n - 1 /\ Across(P) = 0 => m.flow.at = c.flow.at
  <2>1. Listed(c, n)
    BY Sizes DEF Listed, InRange, InFlow, Flows
  <2>. HIDE DEF n
  <2>. QED
    BY <1>0, <2>1, MovedKeeps
<1>2. d = Confirmed(t, P)
  BY DEF AvatarButtons
<1>3. /\ f \in Flows /\ f.kind = m.flow.kind /\ f.at = m.flow.at /\ InRange(f)
      /\ P = {} => f.alt = m.flow.alt
  <2>1. m.flow \in Flows /\ m.flow.alt \in Int
    BY <1>1 DEF InFlow, Flows
  <2>4. m.flow.alt \in 1 .. Len(Intervals)
    BY <1>1 DEF InFlow, InRange
  <2>2. alt \in Int /\ alt \in 1 .. Len(Intervals) /\ (P = {} => alt = m.flow.alt)
    <3>. HIDE DEF m
    <3>0. m.flow.alt - 1 \in Int
      BY <2>1
    <3>1. PICK x \in Int, by \in Int, k \in Nat \ {0} :
            x = m.flow.alt - 1 /\ by = Along(P) /\ k = Len(Intervals)
      BY <3>0, <1>0, Zenon
    <3>2. Off(x, by, k) \in 0 .. k - 1 /\ (x \in 0 .. k - 1 /\ by = 0 => Off(x, by, k) = x)
      BY OffIn
    <3>. QED
      BY <2>4, <3>1, <3>2, Steps
  <2>. HIDE DEF alt, m
  <2>3. f \in Flows /\ f.kind = m.flow.kind /\ f.at = m.flow.at /\ f.alt = alt
    BY <2>1, <2>2 DEF Flows
  <2>. QED
    BY <1>1, <2>2, <2>3 DEF InFlow, InRange
<1>. HIDE DEF m, n, f
<1>4. /\ Shaped(t) /\ InFlow(t) /\ Live(t) /\ (Lit(m) => Lit(t)) /\ Keeps(m, t, Around)
      /\ Keeps(m.avatar, t.avatar, AvatarFields)
      /\ t.flow.kind = m.flow.kind /\ t.flow.at = m.flow.at
      /\ (P = {} => t.flow.alt = m.flow.alt) /\ Keeps(m, t, {"saved", "theme", "scale"})
  <2>1. CASE m.flow.at # Sprites
    BY <2>1, <1>1 DEF Keeps
  <2>2. CASE m.flow.at = Sprites
    <3>1. t = [m EXCEPT !.flow = f]
      BY <2>2
    <3>. HIDE DEF t
    <3>2. /\ Shaped(t) /\ InFlow(t) /\ Live(t) /\ (Lit(m) => Lit(t)) /\ Keeps(m, t, Around)
          /\ Keeps(m.avatar, t.avatar, AvatarFields) /\ t.flow = f
          /\ Keeps(m, t, Fields \ {"flow"})
      BY <3>1, <1>1, <1>3, FlowChanges
    <3>3. Keeps(m, t, {"saved", "theme", "scale"})
      BY <3>2 DEF Keeps, Fields
    <3>. QED
      BY <3>2, <3>3, <1>3
  <2>. QED
    BY <2>1, <2>2
<1>. HIDE DEF t
<1>5. /\ Shaped(d) /\ InFlow(d) /\ Live(d) /\ (Lit(t) => Lit(d)) /\ Keeps(t, d, Around)
      /\ Keeps(t.avatar, d.avatar, AvatarFields) /\ SameFlow(t, d)
  BY <1>2, <1>4, ConfirmedKeeps
<1>6. Keeps(c, d, Around) /\ Keeps(c.avatar, d.avatar, AvatarFields \ {"sprite"})
  BY <1>1, <1>4, <1>5 DEF Keeps
<1>7. ~Heard(c, P) => SameFlow(c, d)
  <2>1. c.flow.at \in 0 .. n - 1
    BY Sizes DEF InFlow, InRange, n
  <2>. QED
    BY <2>1, <1>1, <1>4, <1>5, NotHeard, Steps DEF SameFlow, Keeps
<1>8. d.flow.kind = c.flow.kind /\ d.saved.dim = c.saved.dim
  BY <1>1, <1>4, <1>5 DEF SameFlow, Keeps
<1>. QED
  BY <1>1, <1>4, <1>5, <1>6, <1>7, <1>8 DEF Pressed

\* A press leaves every flow in its list, the settings and what is seen of
\* them alike, and all else as it was.
LEMMA FlowButtonsKeep ==
  ASSUME NEW c, NEW P, NEW d, d = FlowButtons(c, P), Shaped(c), InFlow(c), Live(c)
  PROVE  /\ Pressed(c, d, P)
         /\ d.flow.kind = c.flow.kind \/ {c.flow.kind, d.flow.kind} \subseteq FromDisplay
<1>1. CASE c.flow.kind = "display"
  <2>1. d = DisplayButtons(c, P)
    BY <1>1 DEF FlowButtons
  <2>. QED
    BY <2>1, <1>1, DisplayKeeps DEF FromDisplay
<1>2. CASE c.flow.kind = "screens"
  <2>1. d = ScreensButtons(c, P)
    BY <1>2 DEF FlowButtons
  <2>. QED
    BY <2>1, <1>2, ScreensKeeps
<1>3. CASE c.flow.kind = "palettes"
  <2>1. d = PaletteButtons(c, P)
    BY <1>3 DEF FlowButtons
  <2>. QED
    BY <2>1, <1>3, PaletteKeeps
<1>4. CASE c.flow.kind = "font"
  <2>1. d = FontButtons(c, P)
    BY <1>4 DEF FlowButtons
  <2>. QED
    BY <2>1, <1>4, FontKeeps
<1>5. CASE c.flow.kind = "avatar"
  <2>1. d = AvatarButtons(c, P)
    BY <1>5 DEF FlowButtons
  <2>. QED
    BY <2>1, <1>5, AvatarKeeps
<1>6. CASE c.flow.kind = "speed"
  <2>1. d = Confirmed(c, P)
    BY <1>6 DEF FlowButtons
  <2>2. /\ Shaped(d) /\ InFlow(d) /\ Live(d) /\ (Lit(c) => Lit(d)) /\ Keeps(c, d, Around)
        /\ Keeps(c.avatar, d.avatar, AvatarFields) /\ SameFlow(c, d)
    BY <2>1, ConfirmedKeeps
  <2>. QED
    BY <2>2 DEF Pressed, Keeps, SameFlow
<1>7. CASE c.flow.kind = "explain"
  <2>1. d = Confirmed(Moved(c, Across(P) + 5 * Along(P), Trophies), P)
    BY <1>7 DEF FlowButtons
  <2>2. Trophies \in Nat \ {0} /\ Across(P) + 5 * Along(P) \in Int
    BY Sizes, Steps
  <2>3. Listed(c, Trophies)
    BY <1>7 DEF Listed, InRange, InFlow, Flows
  <2>4. ~Heard(c, P) => Across(P) + 5 * Along(P) = 0 /\ c.flow.at \in 0 .. Trophies - 1
    BY <1>7, NotHeard DEF InFlow, InRange
  <2>. QED
    BY <2>1, <2>2, <2>3, <2>4, PreviewKeeps
<1>8. CASE c.flow.kind \in {"demo", "about"}
  <2>. DEFINE f == [c.flow EXCEPT !.finished = P # {}]
  <2>1. d = [c EXCEPT !.flow = f]
    BY <1>8 DEF FlowButtons
  <2>2. f \in Flows /\ f.kind = c.flow.kind /\ f.at = c.flow.at /\ InRange(f)
        /\ f.alt = c.flow.alt
    <3>0. c.flow \in Flows /\ (P # {}) \in BOOLEAN
      BY DEF InFlow
    <3>1. f.kind = c.flow.kind /\ f.at = c.flow.at /\ f.alt = c.flow.alt
      BY <3>0 DEF Flows
    <3>2. f \in Flows
      BY <3>0, FlowsAre, Zenon
    <3>. QED
      BY <3>1, <3>2 DEF InFlow, InRange
  <2>. HIDE DEF f
  <2>3. /\ Shaped(d) /\ InFlow(d) /\ Live(d) /\ (Lit(c) => Lit(d)) /\ Keeps(c, d, Around)
        /\ Keeps(c.avatar, d.avatar, AvatarFields) /\ d.flow = f /\ Keeps(c, d, Fields \ {"flow"})
    BY <2>1, <2>2, FlowChanges
  <2>4. SameFlow(c, d)
    BY <2>2, <2>3 DEF SameFlow, Keeps, Fields
  <2>. QED
    BY <2>2, <2>3, <2>4 DEF Pressed, Keeps, SameFlow
<1>. QED
  BY <1>1, <1>2, <1>3, <1>4, <1>5, <1>6, <1>7, <1>8 DEF InFlow, Flows, FlowKinds

\* What the buttons leave alone.
Kept == {"gauge", "onBattery", "payload", "framed", "blinked", "ticked", "dropped", "beat", "swept",
         "shown", "chrome", "footer", "noted"}

\* Where the badge is, as far as its panel tells.
SamePlace(c, d) ==
  Keeps(c, d, {"flow", "categories", "category", "screen", "page", "liveOn", "theme", "scale"})

\* A backlight that is not set anew is as it was, and so is the setting behind
\* it, but for an editor that may change it.
DimKept(c, d) ==
  (d.flow = None \/ d.flow.kind \notin FromDisplay) /\ d.dimmed # None =>
    d.dimmed = c.dimmed /\ d.saved.dim = c.saved.dim

\* What the buttons do to the badge.
Handled(c, d) ==
  /\ Shaped(d) /\ (d.flow = None \/ InFlow(d)) /\ Live(d) /\ (Lit(c) => Lit(d))
  /\ Keeps(c, d, Kept) /\ Keeps(c.avatar, d.avatar, AvatarFields \ {"sprite"})
  /\ c.flow # None /\ d.flow = None => d.dirty

\* show_screen closes the open flow and moves the badge, nothing else.
LEMMA ShowScreenKeeps ==
  ASSUME NEW c, NEW id, NEW d, d = ShowScreen(c, id), Shaped(c)
  PROVE  /\ Shaped(d) /\ Keeps(c, d, Fields \ {"flow", "page", "category", "screen"})
         /\ d.flow = None
BY DEF ShowScreen, Shaped, Animator, Keeps, Fields

\* The loop takes over from a flow that has done its work.
Ended(c) == [c EXCEPT !.flow = None, !.dimmed = None, !.dirty = TRUE]

\* A flow that ends has the backlight set anew and the panel redrawn, on the
\* settings it left.
LEMMA OnFinishKeeps ==
  ASSUME NEW c, NEW d, d = Ended(OnFinish(c)), Shaped(c), InFlow(c), Live(c)
  PROVE  /\ Shaped(d) /\ Live(d) /\ Lit(d) /\ d.flow = None /\ d.dirty /\ d.dimmed = None
         /\ Keeps(c, d, Kept) /\ Keeps(c.avatar, d.avatar, AvatarFields \ {"sprite"})
<1>e. PICK e : e = OnFinish(c)
  OBVIOUS
<1>0. c.flow # None /\ c.flow.kind \in FlowKinds /\ c.flow.at \in Int
  BY FlowsAre DEF InFlow
<1>. DEFINE Good == /\ Shaped(e) /\ Keeps(c, e, Kept)
                    /\ Keeps(c.avatar, e.avatar, AvatarFields \ {"sprite"})
                    /\ e.theme = e.saved.palette /\ e.scale = e.saved.font
                    /\ e.avatar.sprite = e.saved.sprite
                    /\ e.saved.palette \in 0 .. Palettes - 1 /\ e.saved.font \in 0 .. Fonts - 1
                    /\ e.saved.sprite \in 0 .. Sprites - 1
                    /\ \/ e.saved.cycle = 0
                       \/ \E i \in 1 .. Len(Intervals) : Intervals[i] = e.saved.cycle
                    /\ "screens" \notin e.dropped => e.categories = Categories(e.saved.hidden)
<1>. USE DEF Shaped, Animator, Live, Keeps, Kept, Fields, SavedFields, AvatarFields
<1>1. ASSUME c.flow.kind = "screens" PROVE Good
  <2>. DEFINE f == [c EXCEPT !.categories = Categories(c.saved.hidden)]
  <2>1. e = ShowScreen(f, "options_screens")
    BY <1>e, <1>1 DEF OnFinish
  <2>2. /\ Shaped(f) /\ Keeps(c, f, Fields \ {"categories"})
        /\ f.categories = Categories(c.saved.hidden)
    OBVIOUS
  <2>. HIDE DEF f
  <2>3. /\ Shaped(e) /\ Keeps(f, e, Fields \ {"flow", "page", "category", "screen"})
    BY <2>1, <2>2, ShowScreenKeeps
  <2>4. Good
    BY <2>2, <2>3, <1>0
  <2>. QED
    BY <2>4
<1>2. ASSUME c.flow.kind = "palettes" PROVE Good
  BY <1>e, <1>2, <1>0 DEF OnFinish, InFlow, InRange
<1>3. ASSUME c.flow.kind = "font" PROVE Good
  BY <1>e, <1>3, <1>0 DEF OnFinish, InFlow, InRange
<1>4. ASSUME c.flow.kind = "avatar" /\ c.flow.at = Sprites PROVE Good
  BY <1>e, <1>4, <1>0 DEF OnFinish, InFlow, InRange
<1>5. ASSUME c.flow.kind = "avatar" /\ c.flow.at # Sprites PROVE Good
  <2>1. c.flow.at \in 0 .. Sprites - 1
    BY <1>5, <1>0, Sizes DEF InFlow, InRange
  <2>. QED
    BY <1>e, <1>5, <2>1, <1>0 DEF OnFinish
<1>6. ASSUME c.flow.kind \in {"display", "speed", "demo", "about", "explain"} PROVE Good
  BY <1>e, <1>6, <1>0 DEF OnFinish
<1>7. Good
  BY <1>1, <1>2, <1>3, <1>4, <1>5, <1>6, <1>0 DEF FlowKinds
<1>8. d = [e EXCEPT !.flow = None, !.dimmed = None, !.dirty = TRUE]
  BY <1>e DEF Ended
<1>. QED
  BY <1>7, <1>8 DEF Lit

\* Turning and stepping moves the badge and nothing else.
Moves(c, d) ==
  Shaped(d) /\ Keeps(c, d, Fields \ {"category", "screen", "page"})

\* Turning to another category and stepping to another screen do that.
LEMMA TurnMoves ==
  ASSUME NEW c, NEW by, Shaped(c)
  PROVE  Moves(c, Turn(c, by)) /\ Moves(c, Step(c, by))
BY DEF Turn, Step, Moves, Shaped, Animator, Keeps, Fields

\* A screen opens its flow on an entry the flow has.
LEMMA OpensRight ==
  ASSUME NEW c, Shaped(c), Live(c), Opened(c) # None
  PROVE  /\ Opened(c) \in Flows /\ InRange(Opened(c))
<1>0. /\ 0 \in 0 .. Len(Rows) - 1 /\ 0 \in 0 .. Len(DataList) - 1 /\ 0 \in 0 .. Trophies - 1
      /\ Len(Intervals) \in Nat \ {0} /\ Sprites \in Nat \ {0} /\ Palettes \in Nat
  BY Sizes, DataListIs
<1>1. \A k \in FlowKinds, at \in Int, alt \in Int :
        Flow(k, at, alt) \in Flows /\ Flow(k, at, alt).kind = k /\ Flow(k, at, alt).at = at
        /\ Flow(k, at, alt).alt = alt
  BY DEF Flow, Flows
<1>b. \A k \in FlowKinds : Flow(k, 0, 0) \in Flows /\ Flow(k, 0, 0).kind = k /\ Flow(k, 0, 0).at = 0
  BY DEF Flow, Flows
<1>2. c.saved.palette \in Int /\ c.saved.sprite \in Int /\ c.avatar.sprite \in 0 .. Sprites
      /\ Sprites \in 0 .. Sprites /\ c.avatar.sprite \in Int
  BY <1>0 DEF Live
<1>3. AvatarFlow(c) \in Flows /\ InRange(AvatarFlow(c))
  <2>. DEFINE at == IF c.saved.cycle # 0 THEN Sprites ELSE c.avatar.sprite
              alt == IF c.saved.cycle # 0 THEN At(Intervals, c.saved.cycle)
                     ELSE MinOf(2, Len(Intervals))
  <2>1. at \in 0 .. Sprites /\ at \in Int
    BY <1>0, <1>2
  <2>2. alt \in 1 .. Len(Intervals) /\ alt \in Int
    <3>1. CASE c.saved.cycle # 0
      <4>1. At(Intervals, c.saved.cycle) \in 1 .. Len(Intervals)
        BY <3>1 DEF Live, At
      <4>. QED
        BY <3>1, <4>1, <1>0
    <3>2. CASE c.saved.cycle = 0
      BY <3>2, <1>0 DEF MinOf
    <3>. QED
      BY <3>1, <3>2
  <2>3. AvatarFlow(c) = Flow("avatar", at, alt)
    BY DEF AvatarFlow
  <2>. HIDE DEF at, alt
  <2>. QED
    BY <2>1, <2>2, <2>3, <1>1 DEF InRange, FlowKinds
<1>4. CASE CurrentScreen(c) = "options_display"
  BY <1>4, <1>0, <1>b DEF Opened, InRange, FlowKinds
<1>5. CASE CurrentScreen(c) = "options_screens"
  BY <1>5, <1>0, <1>b DEF Opened, InRange, FlowKinds
<1>6. CASE CurrentScreen(c) = "options_palettes"
  BY <1>6, <1>0, <1>1, <1>2 DEF Opened, InRange, FlowKinds, Live
<1>7. CASE CurrentScreen(c) = "options_avatar"
  BY <1>7, <1>3 DEF Opened
<1>8. CASE CurrentScreen(c) = "trophies"
  BY <1>8, <1>0, <1>b DEF Opened, InRange, FlowKinds
<1>. QED
  BY <1>4, <1>5, <1>6, <1>7, <1>8 DEF Opened

\* The B outside every flow: what it changes it has redrawn.
LEMMA PressBKeeps ==
  ASSUME NEW c, NEW d, d = PressB(c), Shaped(c), Live(c), c.flow = None
  PROVE  /\ Shaped(d) /\ (d.flow = None \/ InFlow(d))
         /\ Keeps(c, d, Fields \ {"liveOn", "page", "dirty", "flow"})
         /\ c.dirty => d.dirty
         /\ d.dirty \/ d = c
<1>1. CASE CurrentScreen(c) = "avatar" /\ c.onBattery
  BY <1>1 DEF PressB, Shaped, Animator, Keeps, Fields
<1>2. CASE /\ ~(CurrentScreen(c) = "avatar" /\ c.onBattery)
           /\ CurrentScreen(c) = "projects" /\ ProjectPages > 1
  BY <1>2 DEF PressB, Shaped, Animator, Keeps, Fields
<1>3. CASE /\ ~(CurrentScreen(c) = "avatar" /\ c.onBattery)
           /\ ~(CurrentScreen(c) = "projects" /\ ProjectPages > 1)
  <2>1. CASE Opened(c) = None
    BY <1>3, <2>1 DEF PressB, Keeps
  <2>2. CASE Opened(c) # None
    <3>1. d = [c EXCEPT !.flow = Opened(c), !.dirty = TRUE]
      BY <1>3, <2>2 DEF PressB
    <3>2. /\ Shaped(d) /\ Keeps(c, d, Fields \ {"dirty", "flow"}) /\ d.dirty
          /\ d.flow = Opened(c)
      BY <3>1 DEF Shaped, Animator, Keeps, Fields
    <3>. QED
      BY <3>2, <2>2, OpensRight DEF InFlow, Keeps
  <2>. QED
    BY <2>1, <2>2
<1>. QED
  BY <1>1, <1>2, <1>3

\* The buttons outside every flow: where the badge moves to is drawn.
LEMMA NavigationKeeps ==
  ASSUME NEW c, NEW P, NEW d, d = NavigationButtons(c, P), Shaped(c), Live(c), c.flow = None
  PROVE  /\ Handled(c, d)
         /\ d.dirty \/ SamePlace(c, d)
         /\ d.saved = c.saved /\ d.avatar = c.avatar /\ d.dimmed = c.dimmed
         /\ c.dirty => d.dirty
<1>. DEFINE u == IF "UP" \in P THEN Turn(c, -1) ELSE c
            w == IF "DOWN" \in P THEN Turn(u, 1) ELSE u
            l == IF "A" \in P THEN Step(w, -1) ELSE w
            r == IF "C" \in P THEN Step(l, 1) ELSE l
            m == [r EXCEPT !.dirty = @ \/ {"UP", "DOWN", "A", "C"} \cap P # {}]
<1>1. d = IF "B" \in P THEN PressB(m) ELSE m
  BY DEF NavigationButtons
<1>2. Moves(c, u)
  BY TurnMoves DEF Moves, Keeps
<1>. HIDE DEF u
<1>3. Moves(c, w)
  BY <1>2, TurnMoves DEF Moves, Keeps
<1>. HIDE DEF w
<1>4. Moves(c, l)
  BY <1>3, TurnMoves DEF Moves, Keeps
<1>. HIDE DEF l
<1>5. Moves(c, r)
  BY <1>4, TurnMoves DEF Moves, Keeps
<1>6. {"UP", "DOWN", "A", "C"} \cap P = {} => r = c
  BY DEF r, l, w, u
<1>. HIDE DEF r
<1>7. /\ Shaped(m) /\ Keeps(c, m, Fields \ {"category", "screen", "page", "dirty"})
      /\ (c.dirty => m.dirty) /\ (m.dirty \/ SamePlace(c, m))
  <2>1. /\ Shaped(m) /\ Keeps(r, m, Fields \ {"dirty"})
        /\ m.dirty = (r.dirty \/ {"UP", "DOWN", "A", "C"} \cap P # {})
    BY <1>5 DEF Moves, Shaped, Animator, Keeps, Fields
  <2>. HIDE DEF m
  <2>2. Keeps(c, m, Fields \ {"category", "screen", "page", "dirty"}) /\ r.dirty = c.dirty
    BY <2>1, <1>5 DEF Moves, Keeps, Fields
  <2>3. m.dirty \/ SamePlace(c, m)
    BY <2>1, <1>6 DEF SamePlace, Keeps, Fields
  <2>. QED
    BY <2>1, <2>2, <2>3
<1>. HIDE DEF m
<1>8. /\ m.flow = c.flow /\ m.saved = c.saved /\ m.categories = c.categories /\ m.theme = c.theme
      /\ m.scale = c.scale /\ m.avatar = c.avatar /\ m.panel = c.panel /\ m.dimmed = c.dimmed
      /\ m.dropped = c.dropped
  BY <1>7 DEF Keeps, Fields
<1>9. Live(m)
  BY <1>8 DEF Live
<1>10. /\ Shaped(d) /\ (d.flow = None \/ InFlow(d))
       /\ Keeps(m, d, Fields \ {"liveOn", "page", "dirty", "flow"})
       /\ (m.dirty => d.dirty) /\ (d.dirty \/ d = m)
  <2>1. CASE "B" \in P
    BY <2>1, <1>1, <1>7, <1>8, <1>9, PressBKeeps
  <2>2. CASE "B" \notin P
    BY <2>2, <1>1, <1>7, <1>8 DEF Keeps
  <2>. QED
    BY <2>1, <2>2
<1>11. /\ d.saved = c.saved /\ d.categories = c.categories /\ d.theme = c.theme
       /\ d.scale = c.scale /\ d.avatar = c.avatar /\ d.panel = c.panel /\ d.dimmed = c.dimmed
       /\ d.dropped = c.dropped
  BY <1>8, <1>10 DEF Keeps, Fields
<1>12. Live(d)
  BY <1>11 DEF Live
<1>13. Lit(c) => Lit(d)
  BY <1>11 DEF Lit, Panel
<1>14. Keeps(c, d, Kept) /\ Keeps(c.avatar, d.avatar, AvatarFields \ {"sprite"})
  BY <1>7, <1>10, <1>11 DEF Keeps, Fields, Kept
<1>15. d.dirty \/ SamePlace(c, d)
  BY <1>7, <1>10
<1>. QED
  BY <1>7, <1>10, <1>11, <1>12, <1>13, <1>14, <1>15 DEF Handled

\* The buttons of a pass: the settings and what is seen of them stay alike, and
\* a full redraw is asked for unless the panel stands for the same place.
LEMMA HandleKeeps ==
  ASSUME NEW c, NEW P, NEW d, d = HandleButtons(c, P), Shaped(c), Live(c),
         c.flow = None \/ InFlow(c)
  PROVE  /\ Handled(c, d)
         /\ \/ d.dirty
            \/ c.flow = None /\ SamePlace(c, d) /\ d.saved = c.saved /\ d.avatar = c.avatar
            \/ c.flow # None /\ d.flow # None /\ SameFlow(c, d)
         /\ DimKept(c, d)
         /\ c.dirty => d.dirty
<1>1. CASE c.flow = None
  <2>1. d = NavigationButtons(c, P)
    BY <1>1 DEF HandleButtons
  <2>. QED
    BY <1>1, <2>1, NavigationKeeps DEF DimKept
<1>2. CASE c.flow # None
  <2>. DEFINE f == FlowButtons(c, P)
  <2>1. /\ Pressed(c, f, P)
        /\ f.flow.kind = c.flow.kind \/ {c.flow.kind, f.flow.kind} \subseteq FromDisplay
    BY <1>2, FlowButtonsKeep
  <2>2. d = IF ~f.flow.finished THEN [f EXCEPT !.dirty = @ \/ Heard(c, P)]
            ELSE [OnFinish(f) EXCEPT !.flow = None, !.dimmed = None, !.dirty = TRUE]
    BY <1>2 DEF HandleButtons
  <2>. HIDE DEF f
  <2>3. CASE ~f.flow.finished
    <3>1. d = [f EXCEPT !.dirty = @ \/ Heard(c, P)]
      BY <2>2, <2>3
    <3>2. /\ Shaped(d) /\ Keeps(f, d, Fields \ {"dirty"}) /\ d.dirty = (f.dirty \/ Heard(c, P))
      BY <3>1, <2>1 DEF Pressed, Shaped, Animator, Keeps, Fields
    <3>3. /\ d.flow = f.flow /\ d.saved = f.saved /\ d.categories = f.categories
          /\ d.theme = f.theme /\ d.scale = f.scale /\ d.avatar = f.avatar /\ d.panel = f.panel
          /\ d.dimmed = f.dimmed /\ d.dropped = f.dropped
      BY <3>2 DEF Keeps, Fields
    <3>4. InFlow(d) /\ Live(d) /\ (Lit(f) => Lit(d)) /\ d.flow # None
      BY <3>3, <2>1, FlowsAre DEF Pressed, InFlow, Live, Lit, Panel
    <3>5. Keeps(c, d, Kept) /\ Keeps(c.avatar, d.avatar, AvatarFields \ {"sprite"})
      BY <3>2, <3>3, <2>1 DEF Pressed, Keeps, Fields, Kept, Around
    <3>6. f.dirty = c.dirty
      BY <2>1 DEF Pressed, Keeps, Around
    <3>7. ~Heard(c, P) => SameFlow(c, d)
      BY <2>1, <3>3 DEF Pressed, SameFlow, Keeps
    <3>8. DimKept(c, d)
      BY <2>1, <3>3, <3>4 DEF Pressed, Keeps, Around, DimKept
    <3>9. Lit(c) => Lit(d)
      BY <2>1, <3>4 DEF Pressed
    <3>10. /\ c.dirty => d.dirty
           /\ d.dirty \/ (c.flow # None /\ d.flow # None /\ SameFlow(c, d))
      BY <1>2, <3>2, <3>4, <3>6, <3>7, Zenon
    <3>11. Handled(c, d)
      BY <3>2, <3>4, <3>5, <3>9 DEF Handled
    <3>. QED
      BY <3>8, <3>10, <3>11
  <2>4. CASE f.flow.finished
    <3>1. d = Ended(OnFinish(f)) /\ Shaped(f) /\ InFlow(f) /\ Live(f)
      BY <2>1, <2>2, <2>4 DEF Ended, Pressed
    <3>2. /\ Shaped(d) /\ Live(d) /\ Lit(d) /\ d.flow = None /\ d.dirty /\ d.dimmed = None
          /\ Keeps(f, d, Kept) /\ Keeps(f.avatar, d.avatar, AvatarFields \ {"sprite"})
      BY <3>1, OnFinishKeeps
    <3>3. Keeps(c, d, Kept) /\ Keeps(c.avatar, d.avatar, AvatarFields \ {"sprite"})
      BY <3>2, <2>1 DEF Pressed, Keeps, Kept, Around
    <3>. QED
      BY <3>2, <3>3 DEF Handled, DimKept
  <2>. QED
    BY <2>3, <2>4
<1>. QED
  BY <1>1, <1>2

-----------------------------------------------------------------------------

\* update_celebration touches nothing but the celebration and its requests.
LEMMA CelebrationKeeps ==
  ASSUME NEW a, NEW p, NEW r, r = UpdateCelebration(a, p), Animator(a)
  PROVE  /\ Animator(r) /\ (a.redraw => r.redraw)
         /\ Keeps(a, r, AvatarFields \ {"celebration", "celebrated", "jump", "redraw"})
<1>. DEFINE a1 == IF a.celebration # None /\ a.celebration.left = 0
                  THEN [a EXCEPT !.celebration = None, !.redraw = TRUE] ELSE a
            kept == Append(a1.celebrated, p.celebrate.id)
            a2 == [a1 EXCEPT !.celebrated = IF Len(kept) > Remembered THEN Tail(kept) ELSE kept]
            a3 == [a2 EXCEPT !.celebration = [id |-> p.celebrate.id, left |-> Window(p.celebrate)],
                             !.jump = TRUE, !.redraw = TRUE]
            Right(x) == /\ Animator(x) /\ (a.redraw => x.redraw)
                        /\ Keeps(a, x, AvatarFields \ {"celebration", "celebrated", "jump",
                                                      "redraw"})
<1>. USE DEF Animator, Keeps, AvatarFields
<1>1. Right(a1)
  OBVIOUS
<1>. HIDE DEF a1
<1>2. Right(a2)
  BY <1>1
<1>. HIDE DEF a2
<1>3. Right(a3)
  BY <1>2
<1>4. r = a1 \/ r = a2 \/ r = a3
  BY DEF UpdateCelebration, a1, a2
<1>. QED
  BY <1>1, <1>2, <1>3, <1>4

\* The edge of the scheduler asks for a redraw and is behind it.
LEMMA OnlineEdgeKeeps ==
  ASSUME NEW a, NEW r, r = OnlineEdge(a), Animator(a)
  PROVE  /\ Animator(r) /\ (a.redraw => r.redraw)
         /\ Keeps(a, r, AvatarFields \ {"wasOnline", "redraw"})
         /\ r.wasOnline = a.online /\ (r.redraw \/ a.online = a.wasOnline)
BY DEF OnlineEdge, Animator, Keeps, AvatarFields

\* The edge of the power clears the stage, asks for a redraw and is behind it.
LEMMA BatteryEdgeKeeps ==
  ASSUME NEW a, NEW r, r = BatteryEdge(a), Animator(a)
  PROVE  /\ Animator(r) /\ (a.redraw => r.redraw)
         /\ Keeps(a, r, AvatarFields \ {"wasBattery", "redraw", "visual", "previous", "done",
                                        "celebration"})
         /\ r.wasBattery = a.battery
         /\ r.redraw \/ (a.battery = a.wasBattery /\ r.visual = a.visual)
         /\ r.visual \in {a.visual, "standby"} /\ r.previous \in {a.previous, None}
         /\ r.celebration \in {a.celebration, None}
BY DEF BatteryEdge, Animator, Keeps, AvatarFields

\* The flourish of DONE! ends in what the status calls for.
LEMMA DoneEndsKeeps ==
  ASSUME NEW a, NEW status, NEW r, r = DoneEnds(a, status), Animator(a)
  PROVE  /\ Animator(r) /\ (a.redraw => r.redraw)
         /\ Keeps(a, r, AvatarFields \ {"redraw", "visual", "done"})
         /\ r.redraw \/ r.visual = a.visual
         /\ r.visual \in {a.visual, Rest(status)}
BY DEF DoneEnds, SetVisual, Animator, Keeps, AvatarFields

\* Following the live status: DONE! comes after MinWork of work, and what is
\* watched next is the status.
LEMMA FollowKeeps ==
  ASSUME NEW a, NEW status, NEW r, r = Follow(a, status), Animator(a)
  PROVE  /\ Animator(r) /\ (a.redraw => r.redraw)
         /\ Keeps(a, r, AvatarFields \ {"redraw", "visual", "done", "previous", "worked"})
         /\ r.redraw \/ r.visual = a.visual
         /\ \/ r.visual \in {a.visual, Rest(status)}
            \/ a.previous = "working" /\ status = "idle" /\ a.worked >= MinWork
         /\ r.previous = status
         /\ status = "working" => (a.previous = "working" /\ r.worked = a.worked) \/ r.worked = 0
<1>. DEFINE f == [a EXCEPT !.previous = status, !.done = None, !.worked = Spell(a, status)]
<1>1. CASE status = a.previous
  BY <1>1 DEF Follow, Keeps
<1>2. CASE status # a.previous
  <2>1. /\ Animator(f) /\ Keeps(a, f, AvatarFields \ {"done", "previous", "worked"})
        /\ f.previous = status /\ f.worked = Spell(a, status)
    BY DEF Animator, Keeps, AvatarFields
  <2>2. /\ status # "working" => f.worked = a.worked
        /\ status = "working" => f.worked = 0
    BY <2>1 DEF Spell
  <2>3. r = IF a.previous = "working" /\ status = "idle" /\ f.worked >= MinWork
            THEN [SetVisual(f, "done") EXCEPT !.done = DoneTime]
            ELSE SetVisual(f, Rest(status))
    BY <1>2 DEF Follow
  <2>. HIDE DEF f
  <2>. DEFINE Right(x, state) == /\ Animator(x) /\ (f.redraw => x.redraw)
                                 /\ Keeps(f, x, AvatarFields \ {"redraw", "visual"})
                                 /\ x.visual = state /\ (x.redraw \/ x.visual = f.visual)
  <2>4. \A state : Right(SetVisual(f, state), state)
    BY <2>1 DEF SetVisual, Animator, Keeps, AvatarFields
  <2>5. CASE a.previous = "working" /\ status = "idle" /\ f.worked >= MinWork
    <3>1. PICK x : x = SetVisual(f, "done") /\ Right(x, "done")
      BY <2>4
    <3>2. r = [x EXCEPT !.done = DoneTime]
      BY <2>3, <2>5, <3>1
    <3>3. /\ Animator(r) /\ Keeps(x, r, AvatarFields \ {"done"})
      BY <3>1, <3>2 DEF Animator, Keeps, AvatarFields
    <3>. QED
      BY <2>1, <2>2, <2>5, <3>1, <3>3 DEF Keeps, AvatarFields
  <2>6. CASE ~(a.previous = "working" /\ status = "idle" /\ f.worked >= MinWork)
    <3>1. Right(r, Rest(status))
      BY <2>3, <2>4, <2>6
    <3>. QED
      BY <2>1, <2>2, <3>1 DEF Keeps, AvatarFields
  <2>. QED
    BY <2>5, <2>6
<1>. QED
  BY <1>1, <1>2

\* The online and battery edges are behind it.
Settled(a) == a.wasOnline = a.online /\ a.wasBattery = a.battery

\* One call of update_state, with the power and the scheduler as they are.
Heeds(a, x, y, p) == UpdateState([a EXCEPT !.battery = x, !.online = y], p)

\* After update_state both edges are behind it, and it asks for a redraw when
\* the face on the panel changed.
LEMMA HeedsKeeps ==
  ASSUME NEW a, NEW x, NEW y, NEW p, NEW r, r = Heeds(a, x, y, p), Animator(a), Settled(a)
  PROVE  /\ Animator(r) /\ Settled(r) /\ r.battery = x /\ r.online = y
         /\ r.sprite = a.sprite /\ r.bubble = a.bubble /\ r.director = a.director
         /\ r.redraw \/ (r.visual = a.visual /\ r.online = a.online /\ r.battery = a.battery)
<1>. DEFINE a0 == [a EXCEPT !.battery = x, !.online = y]
            u == UpdateCelebration(a0, p)
            o == OnlineEdge(u)
            t == BatteryEdge(o)
            status == Status(a0, p)
            z == DoneEnds(t, status)
<1>0. /\ Animator(a0) /\ Keeps(a, a0, AvatarFields \ {"battery", "online"})
      /\ a0.battery = x /\ a0.online = y
  BY DEF Animator, Keeps, AvatarFields
<1>a. r = UpdateState(a0, p)
  BY DEF Heeds
<1>. HIDE DEF a0
<1>b. r = Follow(z, status)
  BY <1>a DEF UpdateState
<1>1. /\ Animator(u) /\ (a0.redraw => u.redraw)
      /\ Keeps(a0, u, AvatarFields \ {"celebration", "celebrated", "jump", "redraw"})
  BY <1>0, CelebrationKeeps
<1>. HIDE DEF u
<1>2. /\ Animator(o) /\ (u.redraw => o.redraw)
      /\ Keeps(u, o, AvatarFields \ {"wasOnline", "redraw"})
      /\ o.wasOnline = u.online /\ (o.redraw \/ u.online = u.wasOnline)
  BY <1>1, OnlineEdgeKeeps
<1>. HIDE DEF o
<1>3. /\ Animator(t) /\ (o.redraw => t.redraw)
      /\ Keeps(o, t, AvatarFields \ {"wasBattery", "redraw", "visual", "previous", "done",
                                     "celebration"})
      /\ t.wasBattery = o.battery
      /\ t.redraw \/ (o.battery = o.wasBattery /\ t.visual = o.visual)
  BY <1>2, BatteryEdgeKeeps
<1>. HIDE DEF t
<1>4. /\ Animator(z) /\ (t.redraw => z.redraw)
      /\ Keeps(t, z, AvatarFields \ {"redraw", "visual", "done"})
      /\ z.redraw \/ z.visual = t.visual
  BY <1>3, DoneEndsKeeps
<1>. HIDE DEF z, status
<1>5. /\ Animator(r) /\ (z.redraw => r.redraw)
      /\ Keeps(z, r, AvatarFields \ {"redraw", "visual", "done", "previous", "worked"})
      /\ r.redraw \/ r.visual = z.visual
  BY <1>4, <1>b, FollowKeeps
<1>6. /\ r.battery = x /\ r.online = y /\ r.wasOnline = y /\ r.wasBattery = x
      /\ r.sprite = a.sprite /\ r.bubble = a.bubble /\ r.director = a.director
  BY <1>0, <1>1, <1>2, <1>3, <1>4, <1>5 DEF Keeps, AvatarFields
<1>7. /\ o.redraw \/ y = a.online
      /\ t.redraw \/ x = a.battery
      /\ t.visual = a.visual \/ t.redraw
  BY <1>0, <1>1, <1>2, <1>3 DEF Keeps, AvatarFields, Settled
<1>. QED
  BY <1>3, <1>4, <1>5, <1>6, <1>7 DEF Settled

-----------------------------------------------------------------------------

\* The badge between two steps of a pass.
Sound(c) == /\ Shaped(c) /\ (c.flow = None \/ InFlow(c)) /\ Live(c) /\ Lit(c)
            /\ Settled(c.avatar)

\* The avatar's own screen is up.
AvatarUp(c) == c.flow = None /\ CurrentScreen(c) = "avatar"

\* The panel has the same to show, the light and the word of the avatar's screen
\* with it.
SamePicture(c, d) ==
  /\ Picture(d) = Picture(c) /\ (d.flow = None <=> c.flow = None)
  /\ AvatarUp(d) => /\ AvatarUp(c) /\ d.avatar.online = c.avatar.online
                   /\ d.avatar.battery = c.avatar.battery /\ d.liveOn = c.liveOn

\* What a step of the pass leaves behind: a sound badge, and a full redraw
\* asked for unless the panel is to show what it showed.
Carries(c, d) ==
  Sound(d) /\ (c.dirty => d.dirty) /\ (d.dirty \/ SamePicture(c, d))

\* Two steps of a pass that each carry do so one after the other.
LEMMA CarriesOn ==
  ASSUME NEW c, NEW d, NEW e, Carries(c, d), Carries(d, e)
  PROVE  Carries(c, e)
BY DEF Carries, SamePicture

\* The panel of an open flow shows which it is, its selection and the settings.
LEMMA SameFlowPicture ==
  ASSUME NEW c, NEW d, c.flow # None, d.flow # None, SameFlow(c, d), d.payload = c.payload
  PROVE  SamePicture(c, d)
<1>1. /\ d.flow.kind = c.flow.kind /\ d.flow.at = c.flow.at /\ d.flow.alt = c.flow.alt
      /\ d.saved = c.saved /\ Look(d) = Look(c)
  BY DEF SameFlow, Keeps, Look
<1>2. Picture(d) = Picture(c)
  BY <1>1 DEF Picture
<1>. QED
  BY <1>2 DEF SamePicture, AvatarUp

\* What the panel shows of the stats and limits is as it was.
SameNews(c, d) == Keeps(c.payload, d.payload, {"limits", "danger", "late"})

\* The panel of a screen shows where the badge is, the theme, the news and, on the
\* avatar's screen, its face; on those of the options what is chosen.
LEMMA SamePlacePicture ==
  ASSUME NEW c, NEW d, SamePlace(c, d), Selected(d.saved) = Selected(c.saved), SameNews(c, d),
         c.flow # None \/ CurrentScreen(c) # "avatar"
           \/ (/\ d.avatar.visual = c.avatar.visual /\ d.avatar.online = c.avatar.online
               /\ d.avatar.sprite = c.avatar.sprite /\ d.avatar.battery = c.avatar.battery)
  PROVE  SamePicture(c, d)
<1>1. /\ d.flow = c.flow /\ d.page = c.page /\ d.liveOn = c.liveOn /\ CurrentScreen(d) = CurrentScreen(c)
      /\ d.payload.limits = c.payload.limits /\ Look(d) = Look(c)
  BY DEF SamePlace, SameNews, Keeps, CurrentScreen, CurrentScreens, Look
<1>2. CASE c.flow # None
  BY <1>1, <1>2 DEF SamePicture, Picture, AvatarUp
<1>3. CASE c.flow = None /\ CurrentScreen(c) = "avatar"
  BY <1>1, <1>3 DEF SamePicture, Picture, AvatarUp, ChromeLabel
<1>4. CASE c.flow = None /\ CurrentScreen(c) # "avatar"
  BY <1>1, <1>4 DEF SamePicture, Picture, AvatarUp
<1>. QED
  BY <1>2, <1>3, <1>4

\* What a sound badge and its picture hang on, the animator aside.
Core == {"saved", "categories", "category", "screen", "page", "flow", "theme", "scale", "panel",
         "dimmed", "dropped", "liveOn", "payload"}

\* A step that leaves the settings, the place and the face alone.
LEMMA CoreCarries ==
  ASSUME NEW c, NEW d, Sound(c), Shaped(d), Keeps(c, d, Core),
         Keeps(c.avatar, d.avatar, {"sprite", "visual", "online", "battery", "wasOnline",
                                    "wasBattery"})
  PROVE  Sound(d) /\ SamePicture(c, d)
<1>1. /\ d.saved = c.saved /\ d.categories = c.categories /\ d.category = c.category
      /\ d.screen = c.screen /\ d.flow = c.flow /\ d.theme = c.theme /\ d.scale = c.scale
      /\ d.panel = c.panel /\ d.dimmed = c.dimmed /\ d.dropped = c.dropped
  BY DEF Keeps, Core
<1>2. /\ d.avatar.sprite = c.avatar.sprite /\ d.avatar.visual = c.avatar.visual
      /\ d.avatar.online = c.avatar.online /\ d.avatar.battery = c.avatar.battery
      /\ d.avatar.wasOnline = c.avatar.wasOnline /\ d.avatar.wasBattery = c.avatar.wasBattery
  BY DEF Keeps
<1>3. SamePicture(c, d)
  <2>1. SamePlace(c, d) /\ SameNews(c, d)
    BY DEF Keeps, Core, SamePlace, SameNews
  <2>. QED
    BY <1>1, <1>2, <2>1, SamePlacePicture
<1>4. Live(d) /\ Lit(d) /\ Settled(d.avatar) /\ (d.flow = None \/ InFlow(d))
  BY <1>1, <1>2 DEF Sound, Live, Lit, Panel, Settled, InFlow
<1>. QED
  BY <1>3, <1>4 DEF Sound

-----------------------------------------------------------------------------

\* Time goes by: deadlines of the animator and of the sprite's change come nearer,
\* what the panel shows stays.
LEMMA ElapsedKeeps ==
  ASSUME NEW c, NEW dt, NEW d, d = Elapsed(c, dt), Sound(c)
  PROVE  /\ Sound(d) /\ SamePicture(c, d)
         /\ Keeps(c, d, Fields \ {"dirty", "framed", "blinked", "ticked", "avatar", "beat",
                                  "cycled"})
         /\ Keeps(c.avatar, d.avatar, AvatarFields \ {"worked", "done", "celebration", "director"})
         /\ ~d.framed /\ ~d.blinked /\ d.ticked = (dt = 1)
         /\ d.avatar = IF dt = 0 THEN c.avatar ELSE Elapse(c.avatar)
<1>. DEFINE fresh == [c EXCEPT !.dirty = FALSE, !.framed = FALSE, !.blinked = FALSE,
                               !.ticked = dt = 1]
            a == Elapse(c.avatar)
<1>0. Shaped(c)
  BY DEF Sound
<1>1. /\ Animator(a)
      /\ Keeps(c.avatar, a, AvatarFields \ {"worked", "done", "celebration", "director"})
  <2>1. DOMAIN ElapseDirector(c.avatar.director) = DOMAIN c.avatar.director
    BY DEF ElapseDirector
  <2>. QED
    BY <1>0, <2>1 DEF Shaped, Animator, Elapse, Keeps, AvatarFields
<1>2. PICK now : now = (dt = 1)
  OBVIOUS
<1>3. fresh = [c EXCEPT !.dirty = FALSE, !.framed = FALSE, !.blinked = FALSE, !.ticked = now]
  BY <1>2
<1>4. /\ Shaped(fresh) /\ Keeps(c, fresh, Fields \ {"dirty", "framed", "blinked", "ticked"})
      /\ ~fresh.framed /\ ~fresh.blinked /\ fresh.ticked = now
  <2>. HIDE DEF fresh
  <2>. QED
    BY <1>0, <1>3 DEF Shaped, Animator, Keeps, Fields
<1>5. fresh.avatar = c.avatar
  BY <1>4 DEF Keeps, Fields
<1>6. d = IF dt = 0 THEN fresh
          ELSE [fresh EXCEPT !.avatar = a, !.beat = TRUE,
                  !.cycled = IF c.saved.cycle = 0 THEN 0 ELSE MinOf(@ + 1, c.saved.cycle)]
  BY <1>5 DEF Elapsed
<1>. HIDE DEF fresh, a
<1>7. /\ Shaped(d)
      /\ Keeps(fresh, d, Fields \ {"avatar", "beat", "cycled"})
      /\ d.avatar = IF dt = 0 THEN c.avatar ELSE a
  BY <1>1, <1>4, <1>5, <1>6 DEF Shaped, Keeps, Fields
<1>8. /\ Keeps(c, d, Fields \ {"dirty", "framed", "blinked", "ticked", "avatar", "beat", "cycled"})
      /\ ~d.framed /\ ~d.blinked /\ d.ticked = now
  BY <1>4, <1>7 DEF Keeps, Fields
<1>9. Keeps(c.avatar, d.avatar, AvatarFields \ {"worked", "done", "celebration", "director"})
  BY <1>1, <1>7 DEF Keeps
<1>10. Sound(d) /\ SamePicture(c, d)
  <2>1. /\ Keeps(c, d, Core)
        /\ Keeps(c.avatar, d.avatar, {"sprite", "visual", "online", "battery", "wasOnline",
                                      "wasBattery"})
    BY <1>8, <1>9 DEF Keeps, Core, Fields, AvatarFields
  <2>. QED
    BY <1>7, <2>1, CoreCarries
<1>. QED
  BY <1>2, <1>7, <1>8, <1>9, <1>10 DEF a

\* Sampling the cell and the signal.
LEMMA GaugesKeep ==
  ASSUME NEW c, NEW e, NEW dt, NEW d, d = Gauges(c, e, dt), Sound(c)
  PROVE  /\ Sound(d) /\ SamePicture(c, d) /\ Keeps(c, d, Fields \ {"gauge"})
<1>1. Shaped(d) /\ Keeps(c, d, Fields \ {"gauge"})
  BY DEF Sound, Gauges, Shaped, Animator, Keeps, Fields
<1>2. Keeps(c, d, Core) /\ d.avatar = c.avatar
  BY <1>1 DEF Keeps, Core, Fields
<1>. QED
  BY <1>1, <1>2, CoreCarries DEF Keeps

\* update_backlight sets the panel to the brightness that was chosen, dimmed on
\* battery when that was chosen.
LEMMA BacklightKeeps ==
  ASSUME NEW c, NEW e, NEW d, d = UpdateBacklight(c, e), Sound(c)
  PROVE  /\ Carries(c, d) /\ Keeps(c, d, Fields \ {"panel", "dimmed"})
         /\ d.dimmed = (d.saved.dim /\ ~e.usb)
<1>1. CASE c.dimmed = (c.saved.dim /\ ~e.usb)
  BY <1>1 DEF UpdateBacklight, Carries, SamePicture, Keeps
<1>2. CASE c.dimmed # (c.saved.dim /\ ~e.usb)
  <2>1. PICK now : now = (c.saved.dim /\ ~e.usb)
    OBVIOUS
  <2>2. d = [c EXCEPT !.dimmed = now, !.panel = Panel(c, now)]
    BY <1>2, <2>1 DEF UpdateBacklight
  <2>3. /\ Shaped(d) /\ Keeps(c, d, Fields \ {"panel", "dimmed"})
        /\ d.dimmed = now /\ d.panel = Panel(c, now)
    BY <2>2 DEF Sound, Shaped, Animator, Keeps, Fields
  <2>4. /\ d.saved = c.saved /\ d.categories = c.categories /\ d.category = c.category
        /\ d.screen = c.screen /\ d.flow = c.flow /\ d.theme = c.theme /\ d.scale = c.scale
        /\ d.dropped = c.dropped /\ d.avatar = c.avatar /\ d.dirty = c.dirty
    BY <2>3 DEF Keeps, Fields
  <2>5. SamePicture(c, d)
    <3>1. SamePlace(c, d) /\ SameNews(c, d)
      BY <2>3 DEF Keeps, Fields, SamePlace, SameNews
    <3>. QED
      BY <2>4, <3>1, SamePlacePicture
  <2>6. Live(d) /\ Lit(d) /\ Settled(d.avatar) /\ (d.flow = None \/ InFlow(d))
    BY <2>3, <2>4 DEF Sound, Live, Lit, Panel, Settled, InFlow
  <2>. QED
    BY <2>1, <2>3, <2>4, <2>5, <2>6 DEF Carries, Sound
<1>. QED
  BY <1>1, <1>2

\* The buttons, as a step of the pass.
LEMMA HandleCarries ==
  ASSUME NEW c, NEW P, NEW d, d = HandleButtons(c, P), Sound(c)
  PROVE  /\ Carries(c, d) /\ Keeps(c, d, Kept)
         /\ Keeps(c.avatar, d.avatar, AvatarFields \ {"sprite"})
         /\ DimKept(c, d)
<1>1. /\ Handled(c, d)
      /\ \/ d.dirty
         \/ c.flow = None /\ SamePlace(c, d) /\ d.saved = c.saved /\ d.avatar = c.avatar
         \/ c.flow # None /\ d.flow # None /\ SameFlow(c, d)
      /\ DimKept(c, d)
      /\ c.dirty => d.dirty
  BY HandleKeeps DEF Sound
<1>2. d.dirty \/ SamePicture(c, d)
  <2>1. d.payload = c.payload
    BY <1>1 DEF Handled, Keeps, Kept
  <2>2. SameNews(c, d)
    BY <2>1 DEF SameNews, Keeps
  <2>. QED
    BY <1>1, <2>1, <2>2, SamePlacePicture, SameFlowPicture
<1>3. Settled(d.avatar)
  BY <1>1 DEF Handled, Keeps, AvatarFields, Settled, Sound
<1>. QED
  BY <1>1, <1>2, <1>3 DEF Handled, Carries, Sound

\* d is left with what the feeds brought c.
Fed(c, d, feed) == d.payload = IF feed = None THEN c.payload ELSE feed.payload

\* What an answer to whom was told p may change, by its kind.
Feeds(p, feed) ==
  \/ feed = None \/ feed.kind = "stats"
  \/ feed.kind = "limits" /\ Keeps(p, feed.payload, {"danger", "late"})
  \/ feed.kind = "live_status" /\ Keeps(p, feed.payload, {"limits", "danger", "late"})

\* refresh_feeds_if_due: an answer replaces the payload, whole, and the screens
\* that show what it may have changed are redrawn.
LEMMA RefreshKeeps ==
  ASSUME NEW c, NEW e, NEW feed, NEW d, d = RefreshFeeds(c, e, feed), Sound(c),
         Feeds(c.payload, feed)
  PROVE  /\ Carries(c, d) /\ Keeps(c, d, Fields \ {"onBattery", "payload", "dirty"})
         /\ Fed(c, d, feed)
<1>1. PICK saver : saver = (~e.usb /\ ~c.saved.saverOff)
  OBVIOUS
<1>. DEFINE f == [c EXCEPT !.onBattery = saver]
<1>2. Shaped(f) /\ Keeps(c, f, Fields \ {"onBattery"})
  BY DEF Sound, Shaped, Animator, Keeps, Fields
<1>3. PICK due : due <=> (feed.kind = "stats"
                          \/ (feed.kind = "limits" /\ CurrentScreen(f) \in {"avatar", "usage"}))
  OBVIOUS
<1>4. d = IF feed = None THEN f
          ELSE [f EXCEPT !.payload = feed.payload, !.dirty = @ \/ due]
  BY <1>1, <1>3 DEF RefreshFeeds
<1>. HIDE DEF f
<1>5. /\ Shaped(d) /\ Keeps(f, d, Fields \ {"payload", "dirty"}) /\ (f.dirty => d.dirty)
      /\ d.payload = IF feed = None THEN f.payload ELSE feed.payload
      /\ feed = None \/ (due => d.dirty)
  BY <1>2, <1>4 DEF Shaped, Animator, Keeps, Fields
<1>6. /\ Keeps(c, d, Fields \ {"onBattery", "payload", "dirty"}) /\ (c.dirty => d.dirty)
      /\ d.payload = IF feed = None THEN c.payload ELSE feed.payload
  BY <1>2, <1>5 DEF Keeps, Fields
<1>7. /\ d.saved = c.saved /\ d.categories = c.categories /\ d.category = c.category
      /\ d.screen = c.screen /\ d.flow = c.flow /\ d.theme = c.theme /\ d.scale = c.scale
      /\ d.panel = c.panel /\ d.dimmed = c.dimmed /\ d.dropped = c.dropped
      /\ d.page = c.page /\ d.liveOn = c.liveOn /\ d.avatar = c.avatar
  BY <1>6 DEF Keeps, Fields
<1>8. Sound(d)
  BY <1>5, <1>7 DEF Sound, Live, Lit, Panel, Settled, InFlow
<1>9. CurrentScreen(f) = CurrentScreen(c) /\ CurrentScreen(d) = CurrentScreen(c)
  BY <1>2, <1>7 DEF Keeps, Fields, CurrentScreen, CurrentScreens
<1>10. d.dirty \/ SamePicture(c, d)
  <2>1. SamePlace(c, d)
    BY <1>7 DEF SamePlace, Keeps
  <2>2. CASE SameNews(c, d)
    BY <1>7, <2>1, <2>2, SamePlacePicture
  <2>3. CASE ~SameNews(c, d) /\ ~d.dirty
    <3>1. feed # None
      BY <1>6, <2>3 DEF SameNews, Keeps
    <3>2. /\ Keeps(c.payload, d.payload, {"danger", "late"})
          /\ CurrentScreen(c) \notin {"avatar", "usage"}
      BY <1>3, <1>5, <1>6, <1>9, <2>3, <3>1 DEF Feeds, SameNews
    <3>3. Look(d) = Look(c)
      BY <1>7, <3>2 DEF Look, Keeps
    <3>. QED
      BY <1>7, <1>9, <3>2, <3>3 DEF SamePicture, Picture, AvatarUp
  <2>. QED
    BY <2>2, <2>3
<1>. QED
  BY <1>6, <1>8, <1>10 DEF Carries, Fed

\* The tick of the seconds asks for a redraw at most.
LEMMA TickKeeps ==
  ASSUME NEW c, NEW dt, NEW d, d = Tick(c, dt), Sound(c)
  PROVE  /\ Carries(c, d) /\ Keeps(c, d, Fields \ {"dirty"})
         /\ dt = 1 /\ CurrentScreen(c) \in {"usage", "words"} => d.dirty
<1>0. PICK due : due <=> dt = 1 /\ CurrentScreen(c) \in {"usage", "words"}
  OBVIOUS
<1>1. /\ Shaped(d) /\ Keeps(c, d, Fields \ {"dirty"}) /\ (c.dirty => d.dirty) /\ (due => d.dirty)
  <2>1. d = [c EXCEPT !.dirty = @ \/ due]
    BY <1>0 DEF Tick
  <2>. QED
    BY <2>1 DEF Sound, Shaped, Animator, Keeps, Fields
<1>2. Keeps(c, d, Core) /\ d.avatar = c.avatar
  BY <1>1 DEF Keeps, Core, Fields
<1>. QED
  BY <1>0, <1>1, <1>2, CoreCarries DEF Keeps, Carries

\* The animator as update_avatar of a pass leaves it, with its requests.
Minds(c, e) == Heeds(c.avatar, c.onBattery /\ ~c.liveOn, e.online, c.payload)

\* A celebration that jumps finds the avatar's screen, unless it is hidden.
LEMMA JumpShows ==
  ASSUME NEW c, NEW d, d = ShowScreen(c, "avatar"), Shaped(c)
  PROVE  Navigable(d, "avatar") => CurrentScreen(d) = "avatar"
<1>. DEFINE there == {k \in 1 .. Len(c.categories) : Contains(c.categories[k], "avatar")}
            k == CHOOSE k \in there : TRUE
            i == At(c.categories[k], "avatar")
<1>1. d.categories = c.categories
  BY ShowScreenKeeps DEF Keeps, Fields
<1>. SUFFICES ASSUME Navigable(d, "avatar") PROVE CurrentScreen(d) = "avatar"
  OBVIOUS
<1>2. there # {}
  BY <1>1 DEF Navigable
<1>3. k \in there
  BY <1>2
<1>4. i \in 1 .. Len(c.categories[k]) /\ c.categories[k][i] = "avatar"
  BY <1>3 DEF At, Contains
<1>5. d = [[c EXCEPT !.flow = None, !.page = 0] EXCEPT !.category = k - 1, !.screen = i - 1]
  BY <1>2 DEF ShowScreen
<1>. HIDE DEF k, i, there
<1>6. d.category = k - 1 /\ d.screen = i - 1
  BY <1>5 DEF Shaped, Fields
<1>7. k - 1 + 1 = k /\ i - 1 + 1 = i
  BY <1>3, <1>4 DEF there
<1>. QED
  BY <1>1, <1>4, <1>6, <1>7 DEF CurrentScreen, CurrentScreens

\* The animator knows of the power and of the scheduler.
Informed(c, e) ==
  c.avatar.online = e.online /\ c.avatar.battery = (c.onBattery /\ ~c.liveOn)

\* The backlight is as the settings and the power have it, unless an editor that
\* may change it is open or was cut off, or it is still to be set.
Dimmed(c, e) ==
  (c.flow = None \/ c.flow.kind \notin FromDisplay) /\ c.dropped \cap FromDisplay = {}
     /\ c.dimmed # None
    => c.dimmed = (c.saved.dim /\ ~e.usb)

\* update_avatar asks the animator once; when it jumps the open flow is closed and
\* the avatar's screen drawn.
LEMMA AvatarUpdates ==
  ASSUME NEW c, NEW e, NEW d, d = UpdateAvatar(c, e), Sound(c)
  PROVE  /\ Carries(c, d)
         /\ Keeps(c, d, Fields \ {"avatar", "dirty", "flow", "page", "category", "screen",
                                  "dropped"})
         /\ Keeps(Minds(c, e), d.avatar, AvatarFields \ {"jump", "redraw"})
         /\ Minds(c, e).jump => /\ d.dirty /\ d.flow = None
                                /\ Navigable(d, "avatar") => CurrentScreen(d) = "avatar"
         /\ "notice" \in d.dropped <=> "notice" \in c.dropped
         /\ d.dirty \/ CurrentScreen(d) = CurrentScreen(c)
         /\ Informed(d, e) /\ (Dimmed(c, e) => Dimmed(d, e))
<1>. DEFINE a == Minds(c, e)
            quiet == [a EXCEPT !.jump = FALSE, !.redraw = FALSE]
            f == [c EXCEPT !.avatar = quiet]
<1>1. PICK x : x = (c.onBattery /\ ~c.liveOn)
  OBVIOUS
<1>2. /\ Animator(a) /\ Settled(a)
      /\ a.sprite = c.avatar.sprite /\ a.bubble = c.avatar.bubble
      /\ a.battery = x /\ a.online = e.online
      /\ a.redraw \/ (/\ a.visual = c.avatar.visual /\ a.online = c.avatar.online
                      /\ a.battery = c.avatar.battery)
  <2>1. a = Heeds(c.avatar, x, e.online, c.payload)
    BY <1>1 DEF Minds
  <2>. HIDE DEF a
  <2>. QED
    BY <2>1, HeedsKeeps DEF Sound, Shaped
<1>3. d = IF a.jump
          THEN [ShowScreen(f, "avatar") EXCEPT
                  !.dirty = TRUE,
                  !.dropped = IF c.flow = None THEN @ ELSE @ \cup {c.flow.kind}]
          ELSE [f EXCEPT !.dirty = @ \/ (a.redraw /\ CurrentScreen(c) = "avatar")]
  BY DEF UpdateAvatar, Minds, Heeds
<1>. HIDE DEF a
<1>4. Animator(quiet) /\ Keeps(a, quiet, AvatarFields \ {"jump", "redraw"})
  BY <1>2 DEF Animator, Keeps, AvatarFields
<1>. HIDE DEF quiet
<1>5. Shaped(f) /\ Keeps(c, f, Fields \ {"avatar"}) /\ f.avatar = quiet
  BY <1>4 DEF Sound, Shaped, Keeps, Fields
<1>. HIDE DEF f
<1>6. /\ quiet.sprite = a.sprite /\ quiet.visual = a.visual /\ quiet.online = a.online
      /\ quiet.battery = a.battery /\ quiet.wasOnline = a.wasOnline
      /\ quiet.wasBattery = a.wasBattery
  BY <1>4 DEF Keeps, AvatarFields
<1>7. /\ f.saved = c.saved /\ f.categories = c.categories /\ f.category = c.category
      /\ f.screen = c.screen /\ f.flow = c.flow /\ f.theme = c.theme /\ f.scale = c.scale
      /\ f.dropped = c.dropped /\ f.panel = c.panel /\ f.dimmed = c.dimmed /\ f.dirty = c.dirty
      /\ f.onBattery = c.onBattery /\ f.liveOn = c.liveOn /\ f.page = c.page
      /\ f.payload = c.payload
  BY <1>5 DEF Keeps, Fields
<1>8. CASE a.jump
  <2>. DEFINE g == ShowScreen(f, "avatar")
              lost == IF c.flow = None THEN c.dropped ELSE c.dropped \cup {c.flow.kind}
  <2>1. /\ Shaped(g) /\ Keeps(f, g, Fields \ {"flow", "page", "category", "screen"})
        /\ g.flow = None /\ (Navigable(g, "avatar") => CurrentScreen(g) = "avatar")
    BY <1>5, ShowScreenKeeps, JumpShows
  <2>2. g.dropped = c.dropped
    BY <1>7, <2>1 DEF Keeps, Fields
  <2>3. d = [g EXCEPT !.dirty = TRUE, !.dropped = lost]
    BY <1>3, <1>8, <2>2
  <2>. HIDE DEF g, lost
  <2>4. /\ Shaped(d) /\ Keeps(g, d, Fields \ {"dirty", "dropped"}) /\ d.dirty /\ d.dropped = lost
    BY <2>1, <2>3 DEF Shaped, Animator, Keeps, Fields
  <2>5. /\ d.flow = None /\ d.categories = g.categories /\ d.category = g.category
        /\ d.screen = g.screen
        /\ d.saved = c.saved /\ d.categories = c.categories /\ d.theme = c.theme
        /\ d.scale = c.scale /\ d.panel = c.panel /\ d.dimmed = c.dimmed /\ d.avatar = quiet
        /\ d.onBattery = c.onBattery /\ d.liveOn = c.liveOn
    BY <1>5, <1>7, <2>1, <2>4 DEF Keeps, Fields
  <2>6. Navigable(d, "avatar") => CurrentScreen(d) = "avatar"
    BY <2>1, <2>5 DEF Navigable, CurrentScreen, CurrentScreens
  <2>7. Live(d)
    BY <1>2, <1>6, <2>4, <2>5 DEF Live, Sound, lost
  <2>8. Lit(d)
    BY <2>4, <2>5 DEF Lit, Sound, lost, Panel
  <2>9. Keeps(c, d, Fields \ {"avatar", "dirty", "flow", "page", "category", "screen",
                              "dropped"})
    BY <1>5, <2>1, <2>4 DEF Keeps, Fields
  <2>10. Carries(c, d)
    BY <1>2, <1>6, <2>4, <2>5, <2>7, <2>8 DEF Carries, Sound, Settled
  <2>11. "notice" \in d.dropped <=> "notice" \in c.dropped
    BY <2>4 DEF lost, Sound, InFlow, Flows, FlowKinds
  <2>12. Informed(d, e)
    BY <1>1, <1>2, <1>6, <2>5 DEF Informed
  <2>13. Dimmed(c, e) => Dimmed(d, e)
    BY <2>4, <2>5 DEF Dimmed, lost
  <2>. QED
    BY <1>4, <2>4, <2>5, <2>6, <2>9, <2>10, <2>11, <2>12, <2>13 DEF a
<1>9. CASE ~a.jump
  <2>1. PICK due : due <=> (a.redraw /\ CurrentScreen(c) = "avatar")
    OBVIOUS
  <2>2. d = [f EXCEPT !.dirty = @ \/ due]
    BY <1>3, <1>9, <2>1
  <2>3. Shaped(d) /\ Keeps(f, d, Fields \ {"dirty"}) /\ d.dirty = (f.dirty \/ due)
    BY <1>5, <2>2 DEF Shaped, Animator, Keeps, Fields
  <2>4. /\ d.saved = c.saved /\ d.categories = c.categories /\ d.category = c.category
        /\ d.screen = c.screen /\ d.flow = c.flow /\ d.theme = c.theme /\ d.scale = c.scale
        /\ d.dropped = c.dropped /\ d.panel = c.panel /\ d.dimmed = c.dimmed
        /\ d.avatar = quiet /\ d.onBattery = c.onBattery /\ d.liveOn = c.liveOn
        /\ d.page = c.page /\ d.payload = c.payload
    BY <1>5, <1>7, <2>3 DEF Keeps, Fields
  <2>5. d.dirty \/ SamePicture(c, d)
    <3>1. SamePlace(c, d) /\ SameNews(c, d)
      BY <2>4 DEF SamePlace, SameNews, Keeps
    <3>. QED
      BY <1>2, <1>6, <2>1, <2>3, <2>4, <3>1, SamePlacePicture
  <2>6. Live(d) /\ Lit(d) /\ Settled(d.avatar) /\ (d.flow = None \/ InFlow(d))
    BY <1>2, <1>6, <2>4 DEF Sound, Live, Lit, Panel, Settled, InFlow
  <2>7. Keeps(c, d, Fields \ {"avatar", "dirty", "flow", "page", "category", "screen",
                              "dropped"})
    BY <1>5, <2>3 DEF Keeps, Fields
  <2>8. Informed(d, e) /\ (Dimmed(c, e) => Dimmed(d, e)) /\ CurrentScreen(d) = CurrentScreen(c)
    BY <1>1, <1>2, <1>6, <2>4 DEF Informed, Dimmed, CurrentScreen, CurrentScreens
  <2>9. Carries(c, d)
    BY <1>7, <2>3, <2>5, <2>6 DEF Carries, Sound
  <2>. QED
    BY <1>4, <1>9, <2>4, <2>7, <2>8, <2>9 DEF a
<1>. QED
  BY <1>8, <1>9

\* auto_cycle_avatar saves the sprite it puts on the stage.
LEMMA AutoCycleKeeps ==
  ASSUME NEW c, NEW d, d = AutoCycle(c), Sound(c)
  PROVE  /\ Carries(c, d) /\ Keeps(c, d, Fields \ {"cycled", "avatar", "saved", "dirty"})
         /\ Keeps(c.avatar, d.avatar, AvatarFields \ {"sprite"})
         /\ Keeps(c.saved, d.saved, SavedFields \ {"sprite"})
<1>1. CASE c.saved.cycle = 0 \/ c.cycled < c.saved.cycle
  BY <1>1 DEF AutoCycle, Carries, SamePicture, Keeps
<1>2. CASE ~(c.saved.cycle = 0 \/ c.cycled < c.saved.cycle)
  <2>1. PICK due : due <=> (CurrentScreen(c) = "avatar" /\ c.flow = None)
    OBVIOUS
  <2>2. PICK n : n = Off(c.avatar.sprite, 1, Sprites)
    OBVIOUS
  <2>3. n \in 0 .. Sprites - 1
    <3>1. PICK x \in Int, by \in Int, k \in Nat \ {0} :
            x = c.avatar.sprite /\ by = 1 /\ k = Sprites
      BY Sizes DEF Sound, Live
    <3>. QED
      BY <2>2, <3>1, OffIn
  <2>4. d = [c EXCEPT !.cycled = 0, !.avatar.sprite = n, !.saved.sprite = n, !.dirty = @ \/ due]
    BY <1>2, <2>1, <2>2 DEF AutoCycle
  <2>5. /\ Shaped(d) /\ Keeps(c, d, Fields \ {"cycled", "avatar", "saved", "dirty"})
        /\ Keeps(c.avatar, d.avatar, AvatarFields \ {"sprite"}) /\ d.avatar.sprite = n
        /\ Keeps(c.saved, d.saved, SavedFields \ {"sprite"}) /\ d.saved.sprite = n
        /\ (c.dirty => d.dirty) /\ (due => d.dirty)
    <3>. DEFINE a == [c.avatar EXCEPT !.sprite = n]
                v == [c.saved EXCEPT !.sprite = n]
    <3>1. d = [c EXCEPT !.cycled = 0, !.avatar = a, !.saved = v, !.dirty = @ \/ due]
      BY <2>4 DEF Sound, Shaped, Fields
    <3>2. /\ Animator(a) /\ Keeps(c.avatar, a, AvatarFields \ {"sprite"}) /\ a.sprite = n
          /\ DOMAIN v = SavedFields /\ Keeps(c.saved, v, SavedFields \ {"sprite"})
          /\ v.sprite = n
      BY DEF Sound, Shaped, Animator, Keeps, AvatarFields, SavedFields
    <3>. HIDE DEF a, v
    <3>3. /\ DOMAIN d = Fields /\ d.avatar = a /\ d.saved = v
          /\ Keeps(c, d, Fields \ {"cycled", "avatar", "saved", "dirty"})
          /\ (c.dirty => d.dirty) /\ (due => d.dirty)
      BY <3>1 DEF Sound, Shaped, Keeps, Fields
    <3>. QED
      BY <3>2, <3>3 DEF Shaped
  <2>6. /\ d.categories = c.categories /\ d.category = c.category
        /\ d.screen = c.screen /\ d.flow = c.flow /\ d.theme = c.theme /\ d.scale = c.scale
        /\ d.dropped = c.dropped /\ d.panel = c.panel /\ d.dimmed = c.dimmed
    BY <2>5 DEF Keeps, Fields
  <2>7. /\ d.saved.palette = c.saved.palette /\ d.saved.font = c.saved.font
        /\ d.saved.cycle = c.saved.cycle /\ d.saved.hidden = c.saved.hidden
        /\ d.saved.dim = c.saved.dim /\ Selected(d.saved) = Selected(c.saved)
        /\ d.saved.brightness = c.saved.brightness
        /\ d.avatar.online = c.avatar.online /\ d.avatar.battery = c.avatar.battery
        /\ d.avatar.wasOnline = c.avatar.wasOnline /\ d.avatar.wasBattery = c.avatar.wasBattery
    BY <1>2, <2>5 DEF Keeps, SavedFields, AvatarFields, Selected
  <2>8. d.dirty \/ SamePicture(c, d)
    <3>1. SamePlace(c, d) /\ SameNews(c, d)
      BY <2>5 DEF SamePlace, SameNews, Keeps, Fields
    <3>. QED
      BY <2>1, <2>5, <2>6, <2>7, <3>1, SamePlacePicture
  <2>9. Live(d) /\ Lit(d) /\ Settled(d.avatar) /\ (d.flow = None \/ InFlow(d))
    BY <2>3, <2>5, <2>6, <2>7 DEF Sound, Live, Lit, Panel, Settled, InFlow
  <2>. QED
    BY <2>5, <2>8, <2>9 DEF Carries, Sound
<1>. QED
  BY <1>1, <1>2

-----------------------------------------------------------------------------

\* The arbiter's choice leaves its record in shape.
LEMMA PickKeeps ==
  ASSUME NEW d, NEW visual, NEW p, NEW r, r = Pick(d, visual, p), DOMAIN d = DirectorFields
  PROVE  DOMAIN r.director = DirectorFields
<1>. DEFINE q == Quip(d, visual = "waiting")
            n == [q EXCEPT !.limit = Advance(@, p.limits, LimitOn, LimitOff),
                           !.streak = Advance(@, p.danger, StreakOn, StreakOff[p.late])]
            k == Quote(n, visual)
<1>1. DOMAIN q = DirectorFields
  BY DEF Quip
<1>. HIDE DEF q
<1>2. DOMAIN n = DirectorFields
  BY <1>1
<1>3. r.director \in {n, k}
  BY DEF Pick, q
<1>. HIDE DEF n
<1>4. DOMAIN k = DirectorFields
  BY <1>2 DEF Quote
<1>. QED
  BY <1>2, <1>3, <1>4

\* A frame of the stage changes nothing of the animator but the bubble.
LEMMA StageKeeps ==
  ASSUME NEW a, NEW p, NEW r, r = StageFrame(a, p), Animator(a)
  PROVE  Animator(r) /\ Keeps(a, r, AvatarFields \ {"bubble", "director"})
<1>. DEFINE k == Pick(a.director, a.visual, p)
<1>1. DOMAIN k.director = DirectorFields
  BY PickKeeps DEF Animator
<1>. HIDE DEF k
<1>2. r \in {a, [a EXCEPT !.bubble = "celebration"],
             [a EXCEPT !.director = k.director, !.bubble = k.bubble]}
  BY DEF StageFrame, k
<1>. QED
  BY <1>1, <1>2 DEF Animator, Keeps, AvatarFields

\* What the arbiter picks is the case.
LEMMA PickIsJustified ==
  ASSUME NEW d, NEW visual, NEW p, NEW r, r = Pick(d, visual, p), DOMAIN d = DirectorFields
  PROVE  /\ r.bubble \in {"quip", "limit", "streak", "quote", None}
         /\ r.bubble = "quip" => visual = "waiting"
         /\ r.bubble = "limit" => visual # "waiting" /\ p.limits
         /\ r.bubble = "streak" => visual = "idle" /\ p.danger /\ ~r.director.limit.on
         /\ r.bubble = "quote" => visual = "idle" /\ ~r.director.streak.on
         /\ r.bubble = None => visual # "waiting"
<1>. DEFINE q == Quip(d, visual = "waiting")
            limit == Advance(q.limit, p.limits, LimitOn, LimitOff)
            streak == Advance(q.streak, p.danger, StreakOn, StreakOff[p.late])
            n == [q EXCEPT !.limit = limit, !.streak = streak]
            k == Quote(n, visual)
<1>0. None \notin {"working", "idle", "waiting", "celebration", "quip", "limit", "streak", "quote"}
  BY AvatarAssumption
<1>1. DOMAIN q = DirectorFields
  BY DEF Quip
<1>2. r = CASE visual = "waiting" -> [director |-> n, bubble |-> "quip"]
            [] visual # "waiting" /\ n.limit.on -> [director |-> n, bubble |-> "limit"]
            [] visual = "idle" /\ ~n.limit.on /\ n.streak.on
                 -> [director |-> n, bubble |-> "streak"]
            [] OTHER -> [director |-> k,
                         bubble |-> IF k.quote > 0 /\ visual = "idle" THEN "quote" ELSE None]
  BY DEF Pick
<1>3. (limit.on => p.limits) /\ (streak.on => p.danger)
  BY DEF Advance, Resting
<1>. HIDE DEF q, limit, streak
<1>4. DOMAIN n = DirectorFields /\ n.limit = limit /\ n.streak = streak
  BY <1>1 DEF DirectorFields
<1>. HIDE DEF n
<1>5. k.streak = n.streak
  BY <1>4 DEF Quote, DirectorFields
<1>. HIDE DEF k
<1>. QED
  BY <1>0, <1>2, <1>3, <1>4, <1>5

\* What a frame says beside the avatar is the case, and a celebration in progress
\* is always said.
LEMMA StageIsDue ==
  ASSUME NEW a, NEW p, NEW r, r = StageFrame(a, p), Animator(a), ~r.battery
  PROVE  /\ Justified(r, p)
         /\ (r.celebration # None) = (r.bubble = "celebration")
<1>. DEFINE k == Pick(a.director, a.visual, p)
<1>0. None \notin {"working", "idle", "waiting", "celebration", "quip", "limit", "streak", "quote"}
  BY AvatarAssumption
<1>1. ~a.battery
  BY StageKeeps DEF Keeps, AvatarFields
<1>2. CASE a.celebration # None
  <2>1. r.celebration = a.celebration /\ r.bubble = "celebration"
    BY <1>1, <1>2 DEF StageFrame, Animator, AvatarFields
  <2>. QED
    BY <1>0, <1>2, <2>1 DEF Justified
<1>3. CASE a.celebration = None
  <2>1. /\ k.bubble \in {"quip", "limit", "streak", "quote", None}
        /\ k.bubble = "quip" => a.visual = "waiting"
        /\ k.bubble = "limit" => a.visual # "waiting" /\ p.limits
        /\ k.bubble = "streak" => a.visual = "idle" /\ p.danger /\ ~k.director.limit.on
        /\ k.bubble = "quote" => a.visual = "idle" /\ ~k.director.streak.on
        /\ k.bubble = None => a.visual # "waiting"
    BY PickIsJustified DEF Animator
  <2>2. r = [a EXCEPT !.director = k.director, !.bubble = k.bubble]
    BY <1>1, <1>3 DEF StageFrame
  <2>. HIDE DEF k
  <2>3. /\ r.director = k.director /\ r.bubble = k.bubble /\ r.visual = a.visual
        /\ r.celebration = None
    BY <1>3, <2>2 DEF Animator, AvatarFields
  <2>. QED
    BY <1>0, <2>1, <2>3 DEF Justified
<1>. QED
  BY <1>2, <1>3

-----------------------------------------------------------------------------

\* A record of what the footer tells.
Icons(f) == f = [wifi |-> f.wifi, cells |-> f.cells, charging |-> f.charging]

\* The footer is what was noted, unless the animation drew the battery since.
Noted(c) == Icons(c.footer) /\ (c.flow = None => c.footer = c.noted \/ c.swept)

\* The footer hangs on the WiFi setting, the gauges and the world.
LEMMA FooterIs ==
  ASSUME NEW c, NEW d, NEW e, d.saved.wifi = c.saved.wifi, d.gauge = c.gauge
  PROVE  Icons(Footer(c, e)) /\ Footer(d, e) = Footer(c, e)
<1>1. PICK w, n, ch : Footer(c, e) = [wifi |-> w, cells |-> n, charging |-> ch]
  BY DEF Footer
<1>2. Icons(Footer(c, e))
  BY <1>1 DEF Icons
<1>3. Footer(d, e) = Footer(c, e)
  BY DEF Footer, Charging
<1>. QED
  BY <1>2, <1>3

\* The frame of a screen hangs on where the badge is, LIVE and the power.
LEMMA ChromeIs ==
  ASSUME NEW c, NEW d, NEW e,
         Keeps(c, d, {"flow", "categories", "category", "screen", "liveOn", "onBattery"})
  PROVE  Chrome(d, e) = Chrome(c, e)
<1>1. /\ d.flow = c.flow /\ CurrentScreen(d) = CurrentScreen(c) /\ d.liveOn = c.liveOn
      /\ d.onBattery = c.onBattery
  BY DEF Keeps, CurrentScreen, CurrentScreens
<1>2. ContextLabel(d) = ContextLabel(c)
  BY <1>1 DEF ContextLabel
<1>. QED
  BY <1>2 DEF Chrome

\* Drawing the panel shows the picture, the frame and the footer the state calls for.
LEMMA DrawKeeps ==
  ASSUME NEW c, NEW e, NEW d, d = Draw(c, e), Sound(c)
  PROVE  /\ Sound(d) /\ SamePicture(c, d) /\ Keeps(c, d, Fields \ {"shown", "chrome", "footer", "beat"})
         /\ d.shown = Picture(d) /\ Icons(d.footer) /\ d.footer = Footer(d, e) /\ d.beat = FALSE
         /\ d.chrome = Chrome(d, e)
<1>1. PICK pic, f, ch : pic = Picture(c) /\ f = Footer(c, e) /\ ch = Chrome(c, e)
  OBVIOUS
<1>2. d = [c EXCEPT !.shown = pic, !.chrome = ch, !.footer = f, !.beat = FALSE]
  BY <1>1 DEF Draw
<1>3. /\ Shaped(d) /\ Keeps(c, d, Fields \ {"shown", "chrome", "footer", "beat"})
      /\ d.shown = pic /\ d.chrome = ch /\ d.footer = f /\ d.beat = FALSE
  BY <1>2 DEF Sound, Shaped, Animator, Keeps, Fields
<1>4. Keeps(c, d, Core) /\ d.avatar = c.avatar /\ d.saved = c.saved /\ d.gauge = c.gauge
  BY <1>3 DEF Keeps, Core, Fields
<1>5. Sound(d) /\ SamePicture(c, d)
  BY <1>3, <1>4, CoreCarries DEF Keeps
<1>6. Icons(f) /\ Footer(d, e) = f
  BY <1>1, <1>4, FooterIs
<1>7. Chrome(d, e) = ch
  <2>1. Keeps(c, d, {"flow", "categories", "category", "screen", "liveOn", "onBattery"})
    BY <1>3 DEF Keeps, Fields
  <2>. QED
    BY <1>1, <2>1, ChromeIs
<1>. QED
  BY <1>1, <1>3, <1>5, <1>6, <1>7 DEF SamePicture

\* What a full redraw leaves.
Redrawn(c, d, e) ==
  /\ Sound(d) /\ SamePicture(c, d)
  /\ Keeps(c, d, Fields \ {"shown", "chrome", "footer", "noted", "beat", "swept"})
  /\ d.shown = Picture(d) /\ Noted(d) /\ d.footer = Footer(d, e)
  /\ d.noted = Footer(d, e) /\ d.beat = FALSE /\ d.chrome = Chrome(d, e)

\* A full redraw notes the footer it drew.
LEMMA RedrawKeeps ==
  ASSUME NEW c, NEW e, NEW d, d = Redraw(c, e), Sound(c)
  PROVE  Redrawn(c, d, e)
<1>. DEFINE w == Draw(c, e)
<1>1. PICK f : f = Footer(c, e)
  OBVIOUS
<1>2. d = [w EXCEPT !.noted = f, !.swept = FALSE]
  BY <1>1 DEF Redraw
<1>3. /\ Sound(w) /\ SamePicture(c, w) /\ Keeps(c, w, Fields \ {"shown", "chrome", "footer", "beat"})
      /\ w.shown = Picture(w) /\ Icons(w.footer) /\ w.footer = Footer(w, e) /\ w.beat = FALSE
      /\ w.chrome = Chrome(w, e)
  BY DrawKeeps
<1>. HIDE DEF w
<1>4. /\ Shaped(d) /\ Keeps(w, d, Fields \ {"noted", "swept"}) /\ d.noted = f
  BY <1>2, <1>3 DEF Sound, Shaped, Animator, Keeps, Fields
<1>5. /\ Keeps(w, d, Core) /\ d.avatar = w.avatar /\ d.saved = w.saved /\ d.gauge = w.gauge
      /\ d.shown = w.shown /\ d.footer = w.footer /\ d.beat = w.beat
      /\ w.saved = c.saved /\ w.gauge = c.gauge
  BY <1>3, <1>4 DEF Keeps, Core, Fields
<1>6. Sound(d) /\ SamePicture(w, d)
  BY <1>3, <1>4, <1>5, CoreCarries DEF Keeps
<1>7. f = Footer(w, e) /\ Footer(d, e) = f
  BY <1>1, <1>5, FooterIs
<1>8. Keeps(c, d, Fields \ {"shown", "chrome", "footer", "noted", "beat", "swept"})
  BY <1>3, <1>4 DEF Keeps, Fields
<1>9. d.chrome = w.chrome /\ Chrome(d, e) = Chrome(w, e)
  <2>1. Keeps(w, d, {"flow", "categories", "category", "screen", "liveOn", "onBattery"})
        /\ d.chrome = w.chrome
    BY <1>4 DEF Keeps, Fields
  <2>. QED
    BY <2>1, ChromeIs
<1>. QED
  BY <1>3, <1>4, <1>5, <1>6, <1>7, <1>8, <1>9 DEF SamePicture, Noted, Redrawn

\* What the last repaint but that of the footer leaves.
Painted(c, d, e) ==
  /\ Sound(d) /\ Noted(d) /\ (d.flow = None <=> c.flow = None)
  /\ Keeps(c, d, Fields \ {"shown", "chrome", "footer", "noted", "beat", "swept", "flow", "avatar",
                          "framed"})
  /\ Keeps(c.avatar, d.avatar, AvatarFields \ {"bubble", "director"})
  /\ c.dirty => d.flow = c.flow
  /\ c.dirty \/ c.shown = Picture(c) => d.shown = Picture(d)
  /\ c.dirty => d.chrome = Chrome(d, e)
  /\ c.dirty \/ d.flow # None \/ d.chrome = c.chrome
  /\ \/ d.framed = c.framed /\ d.avatar = c.avatar
     \/ d.avatar = StageFrame(c.avatar, c.payload)

\* The repaint of a pass, full, of the stage alone or of the battery alone: the
\* picture is the one the state calls for when it was, or when all is dirty.
LEMMA PaintKeeps ==
  ASSUME NEW c, NEW e, NEW dt, NEW d, d = Paint(c, e, dt), Sound(c), c.dirty \/ Noted(c)
  PROVE  Painted(c, d, e)
<1>1. CASE c.dirty
  <2>1. d = Redraw(c, e)
    BY <1>1 DEF Paint
  <2>2. Redrawn(c, d, e)
    BY <2>1, RedrawKeeps
  <2>3. d.avatar = c.avatar /\ d.framed = c.framed /\ d.flow = c.flow
    BY <2>2 DEF Redrawn, Keeps, Fields
  <2>4. /\ Keeps(c, d, Fields \ {"shown", "chrome", "footer", "noted", "beat", "swept", "flow",
                                "avatar", "framed"})
        /\ Keeps(c.avatar, d.avatar, AvatarFields \ {"bubble", "director"})
    BY <2>2, <2>3 DEF Redrawn, Keeps
  <2>5. /\ Sound(d) /\ Noted(d) /\ d.shown = Picture(d) /\ d.chrome = Chrome(d, e)
    BY <2>2 DEF Redrawn
  <2>. QED
    BY <1>1, <2>3, <2>4, <2>5 DEF Painted
<1>2. CASE /\ ~c.dirty /\ c.flow # None
           /\ c.flow.kind = "demo" /\ dt = 1
  <2>. DEFINE m == Moved(c, 1, DemoSteps)
  <2>1. d = Draw(m, e)
    BY <1>2 DEF Paint
  <2>2. m = [c EXCEPT !.flow = [c.flow EXCEPT !.at = Off(c.flow.at, 1, DemoSteps)]]
    BY DEF Moved
  <2>3. /\ Shaped(m) /\ InFlow(m) /\ Live(m) /\ (Lit(c) => Lit(m))
    <3>1. PICK n \in Nat \ {0}, by \in Int : n = DemoSteps /\ by = 1
      BY Sizes
    <3>2. Listed(c, n)
      BY <1>2, <3>1 DEF Listed, InRange, InFlow, Flows, Sound
    <3>3. m = Moved(c, by, n)
      BY <3>1
    <3>. HIDE DEF m
    <3>. QED
      BY <1>2, <3>2, <3>3, MovedKeeps DEF Sound
  <2>4. Keeps(c, m, Fields \ {"flow"})
    BY <2>2 DEF Keeps, Fields, Sound, Shaped
  <2>. HIDE DEF m
  <2>5. m.avatar = c.avatar /\ m.framed = c.framed /\ m.flow # None
    BY <2>3, <2>4, FlowsAre DEF Keeps, Fields, InFlow
  <2>6. Sound(m)
    BY <2>3, <2>5 DEF Sound
  <2>7. /\ Sound(d) /\ SamePicture(m, d) /\ Keeps(m, d, Fields \ {"shown", "chrome", "footer", "beat"})
        /\ d.shown = Picture(d) /\ Icons(d.footer)
    BY <2>1, <2>6, DrawKeeps
  <2>8. d.avatar = c.avatar /\ d.framed = c.framed /\ d.flow = m.flow
    BY <2>5, <2>7 DEF Keeps, Fields
  <2>9. Keeps(c, d, Fields \ {"shown", "chrome", "footer", "noted", "beat", "swept", "flow",
                              "avatar", "framed"})
    BY <2>4, <2>7 DEF Keeps, Fields
  <2>. QED
    BY <1>2, <2>5, <2>7, <2>8, <2>9 DEF Painted, SamePicture, Noted, Keeps
<1>3. CASE ~c.dirty /\ c.flow = None /\ CurrentScreen(c) = "avatar"
  <2>. DEFINE a == StageFrame(c.avatar, c.payload)
  <2>1. d = [c EXCEPT !.avatar = a, !.framed = TRUE]
    BY <1>3 DEF Paint
  <2>2. Animator(a) /\ Keeps(c.avatar, a, AvatarFields \ {"bubble", "director"})
    BY StageKeeps DEF Sound, Shaped
  <2>. HIDE DEF a
  <2>3. Shaped(d) /\ d.avatar = a /\ Keeps(c, d, Fields \ {"avatar", "framed"})
    BY <2>1, <2>2 DEF Sound, Shaped, Keeps, Fields
  <2>4. /\ Keeps(c, d, Core) /\ d.shown = c.shown /\ d.footer = c.footer /\ d.noted = c.noted
        /\ d.swept = c.swept /\ d.flow = c.flow
        /\ d.chrome = c.chrome
    BY <2>3 DEF Keeps, Core, Fields
  <2>5. Sound(d) /\ SamePicture(c, d)
    BY <2>2, <2>3, <2>4, CoreCarries DEF Keeps, AvatarFields
  <2>. QED
    BY <1>3, <2>2, <2>3, <2>4, <2>5 DEF Painted, a, SamePicture, Noted, Keeps
<1>4. CASE /\ ~c.dirty
           /\ ~(c.flow # None /\ c.flow.kind = "demo" /\ dt = 1)
           /\ ~(c.flow = None /\ CurrentScreen(c) = "avatar")
  <2>1. d = c
    BY <1>4 DEF Paint
  <2>. QED
    BY <1>4, <2>1 DEF Painted, Keeps
<1>. QED
  BY <1>1, <1>2, <1>3, <1>4
\* What is on the panel's footer is f, or was what the battery's animation left.
FooterShown(c, f) ==
  \/ c.footer = f
  \/ c.blinked /\ [c.footer EXCEPT !.wifi = f.wifi] = f
  \/ c.swept /\ c.noted = f

\* The footer's repaint draws it anew when it differs from what was noted.
LEMMA FooterKeeps ==
  ASSUME NEW c, NEW e, NEW d, d = PaintFooter(c, e), Sound(c), Noted(c)
  PROVE  /\ Sound(d) /\ Noted(d) /\ SamePicture(c, d)
         /\ Keeps(c, d, Fields \ {"footer", "noted", "beat", "swept", "blinked"})
         /\ d.flow = None => FooterShown(d, Footer(d, e))
<1>1. PICK f : f = Footer(c, e) /\ Icons(f)
  BY FooterIs
<1>2. CASE c.flow # None
  BY <1>2 DEF PaintFooter, SamePicture, Keeps
<1>3. CASE c.flow = None /\ (f.charging \/ c.gauge.latched) /\ c.beat
  <2>. DEFINE g == [c.footer EXCEPT !.cells = f.cells, !.charging = f.charging]
  <2>1. d = [c EXCEPT !.footer = g, !.beat = FALSE, !.blinked = TRUE, !.swept = TRUE]
    BY <1>1, <1>3 DEF PaintFooter, Sound, Shaped, Fields
  <2>2. Icons(g) /\ [g EXCEPT !.wifi = f.wifi] = f
    <3>1. PICK w, n, ch : c.footer = [wifi |-> w, cells |-> n, charging |-> ch]
      BY DEF Noted, Icons
    <3>2. PICK w2, n2, ch2 : f = [wifi |-> w2, cells |-> n2, charging |-> ch2]
      BY <1>1 DEF Icons
    <3>3. g = [wifi |-> w, cells |-> n2, charging |-> ch2]
      <4>1. /\ DOMAIN g = {"wifi", "cells", "charging"}
            /\ g.wifi = w /\ g.cells = n2 /\ g.charging = ch2
        BY <3>1, <3>2
      <4>. HIDE DEF g
      <4>2. g = [x \in {"wifi", "cells", "charging"} |-> g[x]]
        BY <4>1 DEF g
      <4>. QED
        BY <4>1, <4>2
    <3>. HIDE DEF g
    <3>. QED
      BY <3>2, <3>3 DEF Icons
  <2>. HIDE DEF g
  <2>3. /\ Shaped(d) /\ Keeps(c, d, Fields \ {"footer", "beat", "swept", "blinked"})
        /\ d.footer = g /\ d.blinked /\ d.swept
    BY <2>1 DEF Sound, Shaped, Animator, Keeps, Fields
  <2>4. Keeps(c, d, Core) /\ d.avatar = c.avatar /\ d.saved = c.saved /\ d.gauge = c.gauge
    BY <2>3 DEF Keeps, Core, Fields
  <2>5. Sound(d) /\ SamePicture(c, d)
    BY <2>3, <2>4, CoreCarries DEF Keeps
  <2>6. Footer(d, e) = f
    BY <1>1, <2>4, FooterIs
  <2>. QED
    BY <2>2, <2>3, <2>5, <2>6 DEF Noted, FooterShown, Keeps
<1>4. CASE c.flow = None /\ ~((f.charging \/ c.gauge.latched) /\ c.beat) /\ f = c.noted
  <2>1. d = c
    BY <1>1, <1>4 DEF PaintFooter
  <2>. QED
    BY <1>1, <1>4, <2>1 DEF SamePicture, Keeps, Noted, FooterShown
<1>5. CASE c.flow = None /\ ~((f.charging \/ c.gauge.latched) /\ c.beat) /\ f # c.noted
  <2>1. d = [c EXCEPT !.footer = f, !.noted = f, !.swept = FALSE]
    BY <1>1, <1>5 DEF PaintFooter
  <2>2. /\ Shaped(d) /\ Keeps(c, d, Fields \ {"footer", "noted", "swept"})
        /\ d.footer = f /\ d.noted = f
    BY <2>1 DEF Sound, Shaped, Animator, Keeps, Fields
  <2>3. Keeps(c, d, Core) /\ d.avatar = c.avatar /\ d.saved = c.saved /\ d.gauge = c.gauge
    BY <2>2 DEF Keeps, Core, Fields
  <2>4. Sound(d) /\ SamePicture(c, d)
    BY <2>2, <2>3, CoreCarries DEF Keeps
  <2>5. Footer(d, e) = f
    BY <1>1, <2>3, FooterIs
  <2>. QED
    BY <1>1, <2>2, <2>4, <2>5 DEF Noted, FooterShown, Keeps
<1>. QED
  BY <1>2, <1>3, <1>4, <1>5

\* What the pass has done before it paints.
BeforePaint(c, e, P, feed, dt) ==
  AutoCycle(UpdateAvatar(Tick(RefreshFeeds(
    HandleButtons(UpdateBacklight(c, e), P), e, feed), dt), e))

\* The animator a is asked once, as the badge c stood, and d is left with what
\* it said: the sprite is the editors', what f names the painting's.
Asked(c, e, d, f) ==
  \E a, x :
    LET r == Heeds(a, x, e.online, d.payload)
    IN /\ Animator(a) /\ Keeps(c.avatar, a, AvatarFields \ {"sprite"})
       /\ Keeps(r, d.avatar, AvatarFields \ ({"jump", "redraw", "sprite"} \cup f))
       /\ r.jump => /\ d.flow = None
                    /\ Navigable(d, "avatar") => CurrentScreen(d) = "avatar"
                    /\ f = {} => d.dirty
                    /\ f # {} => d.shown = Picture(d)

\* The pass up to its repaint: a redraw is asked for unless the picture stands.
LEMMA BeforePaintKeeps ==
  ASSUME NEW c, NEW e, NEW P, NEW feed, NEW dt, NEW d, d = BeforePaint(c, e, P, feed, dt),
         Sound(c), Feeds(c.payload, feed)
  PROVE  /\ Carries(c, d)
         /\ Keeps(c, d, Kept \ {"onBattery", "payload", "dropped"})
         /\ Fed(c, d, feed)
         /\ "notice" \in d.dropped <=> "notice" \in c.dropped
         /\ Asked(c, e, d, {})
         /\ Informed(d, e) /\ Dimmed(d, e)
         /\ dt = 1 /\ CurrentScreen(d) \in {"usage", "words"} => d.dirty
<1>. DEFINE l == UpdateBacklight(c, e)
            h == HandleButtons(l, P)
            r == RefreshFeeds(h, e, feed)
            t == Tick(r, dt)
            u == UpdateAvatar(t, e)
<1>1. d = AutoCycle(u)
  BY DEF BeforePaint
<1>2. /\ Carries(c, l) /\ Keeps(c, l, Fields \ {"panel", "dimmed"})
      /\ l.dimmed = (l.saved.dim /\ ~e.usb)
  BY BacklightKeeps
<1>. HIDE DEF l
<1>3. /\ Carries(l, h) /\ Keeps(l, h, Kept)
      /\ Keeps(l.avatar, h.avatar, AvatarFields \ {"sprite"})
      /\ DimKept(l, h)
  BY <1>2, HandleCarries DEF Carries
<1>. HIDE DEF h
<1>4. /\ Carries(h, r) /\ Keeps(h, r, Fields \ {"onBattery", "payload", "dirty"})
      /\ Fed(h, r, feed)
  <2>1. h.payload = c.payload
    BY <1>2, <1>3 DEF Keeps, Kept, Fields
  <2>. QED
    BY <1>3, <2>1, RefreshKeeps DEF Carries
<1>. HIDE DEF r
<1>5. /\ Carries(r, t) /\ Keeps(r, t, Fields \ {"dirty"})
      /\ dt = 1 /\ CurrentScreen(r) \in {"usage", "words"} => t.dirty
  BY <1>4, TickKeeps DEF Carries
<1>. HIDE DEF t
<1>6. /\ Carries(t, u)
      /\ Keeps(t, u, Fields \ {"avatar", "dirty", "flow", "page", "category", "screen",
                               "dropped"})
      /\ Keeps(Minds(t, e), u.avatar, AvatarFields \ {"jump", "redraw"})
      /\ Minds(t, e).jump => /\ u.dirty /\ u.flow = None
                             /\ Navigable(u, "avatar") => CurrentScreen(u) = "avatar"
      /\ "notice" \in u.dropped <=> "notice" \in t.dropped
      /\ u.dirty \/ CurrentScreen(u) = CurrentScreen(t)
      /\ Informed(u, e) /\ (Dimmed(t, e) => Dimmed(u, e))
  BY <1>5, AvatarUpdates DEF Carries
<1>. HIDE DEF u
<1>7. /\ Carries(u, d) /\ Keeps(u, d, Fields \ {"cycled", "avatar", "saved", "dirty"})
      /\ Keeps(u.avatar, d.avatar, AvatarFields \ {"sprite"})
      /\ Keeps(u.saved, d.saved, SavedFields \ {"sprite"})
  BY <1>1, <1>6, AutoCycleKeeps DEF Carries
<1>8. Carries(c, d)
  BY <1>2, <1>3, <1>4, <1>5, <1>6, <1>7, CarriesOn
<1>9. Keeps(c, d, Kept \ {"onBattery", "payload", "dropped"})
  BY <1>2, <1>3, <1>4, <1>5, <1>6, <1>7 DEF Keeps, Kept, Fields
<1>10. d.payload = t.payload /\ Fed(c, d, feed)
  BY <1>2, <1>3, <1>4, <1>5, <1>6, <1>7 DEF Keeps, Kept, Fields, Fed
<1>11. "notice" \in d.dropped <=> "notice" \in c.dropped
  BY <1>2, <1>3, <1>4, <1>5, <1>6, <1>7 DEF Keeps, Kept, Fields
<1>12. Asked(c, e, d, {})
  <2>1. PICK a, x : a = t.avatar /\ x = (t.onBattery /\ ~t.liveOn)
    OBVIOUS
  <2>2. PICK w : w = Heeds(a, x, e.online, d.payload)
    OBVIOUS
  <2>3. w = Minds(t, e)
    BY <1>10, <2>1, <2>2 DEF Minds
  <2>4. Animator(a) /\ Keeps(c.avatar, a, AvatarFields \ {"sprite"})
    BY <1>2, <1>3, <1>4, <1>5, <2>1 DEF Keeps, Fields, Carries, Sound, Shaped
  <2>5. Keeps(w, d.avatar, AvatarFields \ ({"jump", "redraw", "sprite"} \cup {}))
    BY <1>6, <1>7, <2>3 DEF Keeps
  <2>6. /\ d.flow = u.flow /\ d.categories = u.categories /\ d.category = u.category
        /\ d.screen = u.screen
    BY <1>7 DEF Keeps, Fields
  <2>7. w.jump => /\ d.flow = None /\ d.dirty
                  /\ Navigable(d, "avatar") => CurrentScreen(d) = "avatar"
    BY <1>6, <1>7, <2>3, <2>6 DEF Carries, Navigable, CurrentScreen, CurrentScreens
  <2>. QED
    BY <2>2, <2>4, <2>5, <2>7 DEF Asked
<1>13. Informed(d, e)
  <2>1. /\ d.avatar.online = u.avatar.online /\ d.avatar.battery = u.avatar.battery
        /\ d.onBattery = u.onBattery /\ d.liveOn = u.liveOn
    BY <1>7 DEF Keeps, Fields, AvatarFields
  <2>. QED
    BY <1>6, <2>1 DEF Informed
<1>14. Dimmed(d, e)
  <2>1. Dimmed(h, e)
    BY <1>2, <1>3 DEF DimKept, Dimmed
  <2>2. /\ t.flow = h.flow /\ t.dropped = h.dropped /\ t.dimmed = h.dimmed /\ t.saved = h.saved
    BY <1>4, <1>5 DEF Keeps, Fields
  <2>3. Dimmed(t, e)
    BY <2>1, <2>2 DEF Dimmed
  <2>4. /\ d.flow = u.flow /\ d.dropped = u.dropped /\ d.dimmed = u.dimmed
        /\ d.saved.dim = u.saved.dim
    BY <1>7 DEF Keeps, Fields, SavedFields
  <2>. QED
    BY <1>6, <2>3, <2>4 DEF Dimmed
<1>15. dt = 1 /\ CurrentScreen(d) \in {"usage", "words"} => d.dirty
  <2>1. CurrentScreen(t) = CurrentScreen(r) /\ CurrentScreen(d) = CurrentScreen(u)
    BY <1>5, <1>7 DEF Keeps, Fields, CurrentScreen, CurrentScreens
  <2>. QED
    BY <1>5, <1>6, <1>7, <2>1 DEF Carries
<1>. QED
  BY <1>8, <1>9, <1>10, <1>11, <1>12, <1>13, <1>14, <1>15

\* What is said beside a moving avatar is due.
Spoken(c) ==
  c.framed /\ ~c.avatar.battery =>
    /\ Justified(c.avatar, c.payload)
    /\ (c.avatar.celebration # None) = (c.avatar.bubble = "celebration")

\* The light and the word of the avatar's screen, as it has them whenever it is
\* drawn; the word of LIVE is that of the power it was drawn with.
Chromed(c) ==
  AvatarUp(c) =>
    /\ c.chrome.light = c.avatar.online
    /\ IF c.avatar.battery THEN c.chrome.label = "LIVE:OFF"
       ELSE IF c.liveOn THEN c.chrome.label \in {"LIVE:ON", None}
       ELSE c.chrome.label = None

\* A full redraw leaves them so.
LEMMA DrawnChrome ==
  ASSUME NEW c, NEW e, c.chrome = Chrome(c, e), Informed(c, e)
  PROVE  Chromed(c)
<1>1. c.chrome.light = e.online /\ c.chrome.label = ContextLabel(c)
  BY DEF Chrome
<1>2. CASE AvatarUp(c)
  <2>1. ContextLabel(c) = IF c.onBattery THEN IF c.liveOn THEN "LIVE:ON" ELSE "LIVE:OFF" ELSE None
    BY <1>2 DEF ContextLabel, AvatarUp
  <2>. QED
    BY <1>1, <2>1 DEF Informed, Chromed
<1>. QED
  BY <1>2 DEF Chromed

\* What a pass of dt ticks shows of the power and of the scheduler.
Shows(c, e, dt, d) ==
  /\ Chromed(c) => Chromed(d)
  /\ Informed(d, e) /\ (d.flow = None => Dimmed(d, e)) /\ d.ticked = c.ticked
  /\ dt = 1 /\ d.flow = None /\ CurrentScreen(d) \in {"usage", "words"} => d.chrome.light = e.online

\* A whole pass, every step in the order of the loop.
LEMMA PassKeeps ==
  ASSUME NEW c, NEW e, NEW P, NEW feed, NEW dt, NEW d, d = RestOfPass(c, e, P, feed, dt),
         Sound(c), Noted(c), ~c.framed, Feeds(c.payload, feed)
  PROVE  /\ Sound(d) /\ Noted(d) /\ (c.shown = Picture(c) => d.shown = Picture(d))
         /\ d.flow = None => FooterShown(d, Footer(d, e))
         /\ Spoken(d) /\ Fed(c, d, feed)
         /\ "notice" \in d.dropped <=> "notice" \in c.dropped
         /\ Asked(c, e, d, {"bubble", "director"})
         /\ Shows(c, e, dt, d)
<1>. DEFINE m == BeforePaint(c, e, P, feed, dt)
            w == Paint(m, e, dt)
<1>1. d = PaintFooter(w, e)
  BY DEF RestOfPass, BeforePaint
<1>2. /\ Carries(c, m) /\ Keeps(c, m, Kept \ {"onBattery", "payload", "dropped"})
      /\ Fed(c, m, feed) /\ ("notice" \in m.dropped <=> "notice" \in c.dropped)
      /\ Asked(c, e, m, {})
      /\ Informed(m, e) /\ Dimmed(m, e)
      /\ dt = 1 /\ CurrentScreen(m) \in {"usage", "words"} => m.dirty
  BY BeforePaintKeeps
<1>. HIDE DEF m
<1>3. /\ Sound(m) /\ m.shown = c.shown /\ m.framed = c.framed
      /\ m.footer = c.footer /\ m.noted = c.noted /\ m.swept = c.swept
      /\ m.dirty \/ (Picture(m) = Picture(c) /\ (m.flow = None <=> c.flow = None))
  BY <1>2 DEF Carries, SamePicture, Keeps, Kept
<1>4. m.dirty \/ Noted(m)
  BY <1>3 DEF Noted
<1>b. Painted(m, w, e)
  BY <1>3, <1>4, PaintKeeps
<1>. HIDE DEF w
<1>5. /\ Sound(w) /\ Noted(w) /\ (w.flow = None <=> m.flow = None)
      /\ Keeps(m, w, Fields \ {"shown", "chrome", "footer", "noted", "beat", "swept", "flow",
                               "avatar", "framed"})
      /\ Keeps(m.avatar, w.avatar, AvatarFields \ {"bubble", "director"})
      /\ m.dirty => w.flow = m.flow
      /\ m.dirty \/ m.shown = Picture(m) => w.shown = Picture(w)
      /\ \/ w.framed = m.framed /\ w.avatar = m.avatar
         \/ w.avatar = StageFrame(m.avatar, m.payload)
  BY <1>b DEF Painted
<1>6. /\ Sound(d) /\ Noted(d) /\ SamePicture(w, d)
      /\ Keeps(w, d, Fields \ {"footer", "noted", "beat", "swept", "blinked"})
      /\ d.flow = None => FooterShown(d, Footer(d, e))
  BY <1>1, <1>5, FooterKeeps
<1>7. /\ d.shown = w.shown /\ Picture(d) = Picture(w) /\ d.avatar = w.avatar
      /\ d.payload = m.payload /\ d.framed = w.framed /\ d.dropped = m.dropped
      /\ d.flow = w.flow /\ d.categories = m.categories /\ d.category = m.category
      /\ d.screen = m.screen
  BY <1>5, <1>6 DEF Keeps, Fields, SamePicture
<1>8. c.shown = Picture(c) => d.shown = Picture(d)
  BY <1>3, <1>5, <1>7
<1>9. Spoken(d)
  <2>1. CASE w.framed = m.framed /\ w.avatar = m.avatar
    BY <2>1, <1>3, <1>7 DEF Spoken
  <2>2. CASE w.avatar = StageFrame(m.avatar, m.payload)
    <3>1. SUFFICES ASSUME ~d.avatar.battery PROVE Spoken(d)
      BY DEF Spoken
    <3>2. d.avatar = StageFrame(m.avatar, d.payload) /\ Animator(m.avatar)
      BY <2>2, <1>3, <1>7 DEF Sound, Shaped
    <3>. QED
      BY <3>1, <3>2, StageIsDue DEF Spoken
  <2>. QED
    BY <2>1, <2>2, <1>5
<1>10. Fed(c, d, feed) /\ ("notice" \in d.dropped <=> "notice" \in c.dropped)
  BY <1>2, <1>7 DEF Fed
<1>11. Asked(c, e, d, {"bubble", "director"})
  <2>1. PICK a, x : LET r == Heeds(a, x, e.online, m.payload)
                    IN /\ Animator(a) /\ Keeps(c.avatar, a, AvatarFields \ {"sprite"})
                       /\ Keeps(r, m.avatar, AvatarFields \ {"jump", "redraw", "sprite"})
                       /\ r.jump => /\ m.flow = None /\ m.dirty
                                    /\ Navigable(m, "avatar") => CurrentScreen(m) = "avatar"
    BY <1>2 DEF Asked
  <2>2. PICK r : r = Heeds(a, x, e.online, d.payload)
    OBVIOUS
  <2>3. /\ Keeps(r, m.avatar, AvatarFields \ {"jump", "redraw", "sprite"})
        /\ r.jump => /\ m.flow = None /\ m.dirty
                     /\ Navigable(m, "avatar") => CurrentScreen(m) = "avatar"
    BY <2>1, <2>2, <1>7
  <2>4. Keeps(r, d.avatar, AvatarFields
                             \ ({"jump", "redraw", "sprite"} \cup {"bubble", "director"}))
    BY <2>3, <1>5, <1>7 DEF Keeps
  <2>5. r.jump => /\ d.flow = None /\ d.shown = Picture(d)
                  /\ Navigable(d, "avatar") => CurrentScreen(d) = "avatar"
    BY <2>3, <1>5, <1>7 DEF Navigable, CurrentScreen, CurrentScreens
  <2>. QED
    BY <2>1, <2>2, <2>4, <2>5 DEF Asked
<1>12. Shows(c, e, dt, d)
  <2>1. /\ m.chrome = c.chrome /\ m.ticked = c.ticked
        /\ m.dirty \/ SamePicture(c, m)
    BY <1>2 DEF Keeps, Kept, Carries
  <2>2. /\ m.dirty => w.chrome = Chrome(w, e)
        /\ m.dirty \/ w.flow # None \/ w.chrome = m.chrome
    BY <1>b DEF Painted
  <2>3. /\ d.chrome = w.chrome /\ d.ticked = m.ticked /\ Chrome(d, e) = Chrome(w, e)
    <3>1. /\ d.chrome = w.chrome /\ d.ticked = m.ticked
          /\ Keeps(w, d, {"flow", "categories", "category", "screen", "liveOn", "onBattery"})
      BY <1>5, <1>6 DEF Keeps, Fields
    <3>. QED
      BY <3>1, ChromeIs
  <2>4. /\ d.onBattery = m.onBattery /\ d.liveOn = m.liveOn /\ d.dimmed = m.dimmed
        /\ d.saved = m.saved
    BY <1>5, <1>6 DEF Keeps, Fields
  <2>5. /\ d.avatar.online = m.avatar.online /\ d.avatar.battery = m.avatar.battery
        /\ CurrentScreen(d) = CurrentScreen(m) /\ (d.flow = None <=> m.flow = None)
    BY <1>5, <1>7 DEF Keeps, AvatarFields, CurrentScreen, CurrentScreens
  <2>6. Informed(d, e)
    BY <1>2, <2>4, <2>5 DEF Informed
  <2>7. d.flow = None => Dimmed(d, e)
    BY <1>2, <1>7, <2>4, <2>5 DEF Dimmed
  <2>8. dt = 1 /\ d.flow = None /\ CurrentScreen(d) \in {"usage", "words"} => d.chrome.light = e.online
    <3>1. ASSUME d.chrome = Chrome(d, e) PROVE d.chrome.light = e.online
      BY <3>1 DEF Chrome
    <3>. QED
      BY <1>2, <2>2, <2>3, <2>5, <3>1
  <2>9. Chromed(c) => Chromed(d)
    <3>1. CASE m.dirty
      BY <2>2, <2>3, <2>6, <3>1, DrawnChrome
    <3>2. CASE ~m.dirty /\ ~AvatarUp(d)
      BY <3>2 DEF Chromed
    <3>3. CASE ~m.dirty /\ AvatarUp(d)
      <4>1. AvatarUp(m) /\ d.chrome = c.chrome
        BY <2>1, <2>2, <2>3, <2>5, <3>3, <1>7 DEF AvatarUp
      <4>2. /\ AvatarUp(c) /\ m.avatar.online = c.avatar.online
            /\ m.avatar.battery = c.avatar.battery /\ m.liveOn = c.liveOn
        BY <2>1, <3>3, <4>1 DEF SamePicture
      <4>. QED
        BY <2>4, <2>5, <4>1, <4>2 DEF Chromed
    <3>. QED
      BY <3>1, <3>2, <3>3
  <2>. QED
    BY <2>1, <2>3, <2>6, <2>7, <2>8, <2>9 DEF Shows
<1>. QED
  BY <1>6, <1>8, <1>9, <1>10, <1>11, <1>12

-----------------------------------------------------------------------------

\* The settings file holds choices that there are.
Ranged(s) ==
  /\ DOMAIN s = SavedFields
  /\ s.palette \in 0 .. Palettes - 1 /\ s.font \in 0 .. Fonts - 1
  /\ s.sprite \in 0 .. Sprites - 1
  /\ s.cycle = 0 \/ \E i \in 1 .. Len(Intervals) : Intervals[i] = s.cycle

\* A badge that starts is drawn on the settings it read.
LEMMA BootKeeps ==
  ASSUME NEW saved, NEW payload, NEW e, NEW d, d = Boot(saved, payload, e), Ranged(saved)
  PROVE  /\ Sound(d) /\ Noted(d) /\ d.shown = Picture(d) /\ d.footer = Footer(d, e)
         /\ ~d.framed /\ d.avatar = NewAnimator(saved.sprite) /\ d.payload = payload
         /\ d.chrome = Chrome(d, e) /\ d.flow = None /\ d.dimmed = None
         /\ ~d.ticked /\ ~d.onBattery /\ ~d.liveOn
<1>1. PICK panel, gauge, hidden :
        /\ panel = IF saved.dim /\ ~e.usb THEN 0 ELSE saved.brightness
        /\ gauge = Sample(Unprimed, e.volts, e.rssi)
        /\ hidden = Categories(saved.hidden)
  OBVIOUS
<1>. DEFINE c == [saved |-> saved, categories |-> hidden, category |-> 0, screen |-> 0,
                  page |-> 0, flow |-> None, theme |-> saved.palette, scale |-> saved.font,
                  panel |-> panel, dimmed |-> None,
                  cycled |-> 0, avatar |-> NewAnimator(saved.sprite), gauge |-> gauge,
                  onBattery |-> FALSE, liveOn |-> FALSE, payload |-> payload,
                  dirty |-> FALSE, framed |-> FALSE, blinked |-> FALSE,
                  ticked |-> FALSE, dropped |-> {}, beat |-> FALSE, swept |-> FALSE,
                  shown |-> None, chrome |-> None, footer |-> None, noted |-> None]
            s == ShowScreen(c, saved.boot)
<1>2. d = Redraw(s, e)
  BY <1>1 DEF Boot
<1>3. /\ Animator(NewAnimator(saved.sprite)) /\ Settled(NewAnimator(saved.sprite))
      /\ NewAnimator(saved.sprite).sprite = saved.sprite
  BY DEF NewAnimator, NewDirector, Animator, AvatarFields, DirectorFields, Settled
<1>4. /\ Shaped(c) /\ c.saved = saved /\ c.categories = hidden
      /\ c.theme = saved.palette /\ c.scale = saved.font /\ c.dimmed = None
      /\ c.avatar = NewAnimator(saved.sprite) /\ ~c.framed /\ c.payload = payload
      /\ ~c.ticked /\ ~c.onBattery /\ ~c.liveOn
  BY <1>3 DEF Shaped, Fields, Ranged
<1>. HIDE DEF c
<1>5. /\ Shaped(s) /\ Keeps(c, s, Fields \ {"flow", "page", "category", "screen"})
      /\ s.flow = None
  BY <1>4, ShowScreenKeeps
<1>. HIDE DEF s
<1>6. /\ s.saved = saved /\ s.categories = hidden
      /\ s.theme = saved.palette /\ s.scale = saved.font /\ s.dimmed = None
      /\ s.avatar = NewAnimator(saved.sprite) /\ ~s.framed /\ s.payload = payload
      /\ ~s.ticked /\ ~s.onBattery /\ ~s.liveOn
  BY <1>4, <1>5 DEF Keeps, Fields
<1>7. Sound(s)
  BY <1>1, <1>3, <1>5, <1>6 DEF Sound, Live, Lit, Ranged
<1>8. Redrawn(s, d, e)
  BY <1>2, <1>7, RedrawKeeps
<1>9. /\ ~d.framed /\ d.avatar = NewAnimator(saved.sprite) /\ d.payload = payload
      /\ d.flow = None /\ d.dimmed = None /\ ~d.ticked /\ ~d.onBattery /\ ~d.liveOn
  BY <1>5, <1>6, <1>8 DEF Redrawn, Keeps, Fields
<1>. QED
  BY <1>8, <1>9 DEF Redrawn

-----------------------------------------------------------------------------
\* The steps of the badge.

\* What the feeds may bring.
Told(p) == DOMAIN p = {"live", "celebrate", "limits", "danger", "late"}
             /\ p.celebrate \in Directives \cup {None}

\* A pass through the loop: no answer comes in one that sees a tick go by.
Passes(e, P, feed, dt) ==
  /\ Pass(e, P, feed, dt) /\ "online" \in DOMAIN e /\ dt \in {0, 1}
  /\ dt = 0 \/ feed = None
  /\ feed = None \/ Told(feed.payload)
  /\ Feeds(b.payload, feed)

\* Nothing happens to the program: it is not running.
Rests == /\ b' = b /\ spell' = spell /\ fired' = fired
         /\ phase # "run" /\ phase' # "run" /\ "online" \in DOMAIN env'

\* The badge starts on what it saved, and waits for an answer or has it.
Boots ==
  /\ spell' = 0 /\ \A id \in CelebrationIds : fired'[id] = None
  /\ env' = Answered(env)
  /\ \/ /\ phase' = "boot"
        /\ b' = [Boot(b.saved, b.payload, Answered(env)) EXCEPT !.shown = [screen |-> "boot"]]
     \/ /\ phase' = "run"
        /\ b' = [Boot(b.saved, b.payload, Answered(env)) EXCEPT !.panel = b.panel]

\* Every step of the badge is a pass, the notice called off or counting down, a
\* start, or one of the world while nothing runs.
LEMMA StepCases ==
  ASSUME BadgeNext, "online" \in DOMAIN env, Told(b.payload)
  PROVE  (\E e, P, feed, dt : Passes(e, P, feed, dt)) \/ Abort \/ Countdown \/ Rests \/ Boots
<1>0. \A x : /\ "online" \in DOMAIN [env EXCEPT !.usb = x]
             /\ "online" \in DOMAIN [env EXCEPT !.volts = x]
             /\ "online" \in DOMAIN [env EXCEPT !.rssi = x]
             /\ "online" \in DOMAIN [env EXCEPT !.online = x]
  OBVIOUS
<1>1. CASE Idle
  <2>1. PICK dt : dt = IF b.ticked THEN 0 ELSE 1
    OBVIOUS
  <2>2. Passes(env, {}, None, dt)
    BY <1>1, <2>1 DEF Idle, Passes, Feeds
  <2>. QED
    BY <2>2
<1>2. CASE Press
  <2>1. PICK P : Pass(env, P, None, 0)
    BY <1>2 DEF Press
  <2>2. Passes(env, P, None, 0)
    BY <2>1 DEF Passes, Feeds
  <2>. QED
    BY <2>2
<1>3. CASE Plug \/ Drain \/ Fade \/ Outage
  <2>1. PICK e, dt : /\ Pass(e, {}, None, dt) /\ dt \in {0, 1} /\ "online" \in DOMAIN e
    <3>1. ASSUME NEW e, NEW dt, Pass(e, {}, None, dt), dt \in {0, 1}, "online" \in DOMAIN e
          PROVE  \E e1, dt1 : /\ Pass(e1, {}, None, dt1) /\ dt1 \in {0, 1} /\ "online" \in DOMAIN e1
      BY <3>1
    <3>2. CASE Plug
      <4>1. PICK e : e = [env EXCEPT !.usb = ~@] /\ "online" \in DOMAIN e
        BY <1>0
      <4>. QED
        BY <3>2, <4>1, <3>1 DEF Plug
    <3>3. CASE Drain
      <4>1. PICK e : Pass(e, {}, None, 1) /\ "online" \in DOMAIN e
        BY <1>0, <3>3 DEF Drain
      <4>. QED
        BY <4>1, <3>1
    <3>4. CASE Fade
      <4>1. PICK e : Pass(e, {}, None, 1) /\ "online" \in DOMAIN e
        BY <1>0, <3>4 DEF Fade
      <4>. QED
        BY <4>1, <3>1
    <3>5. CASE Outage
      <4>1. PICK e : e = [env EXCEPT !.online = FALSE] /\ "online" \in DOMAIN e
        BY <1>0
      <4>. QED
        BY <3>5, <4>1, <3>1 DEF Outage
    <3>. QED
      BY <1>3, <3>2, <3>3, <3>4, <3>5
  <2>2. Passes(e, {}, None, dt)
    BY <2>1 DEF Passes, Feeds
  <2>. QED
    BY <2>2
<1>4. CASE StatusAnswer \/ CelebrateAnswer \/ LimitsAnswer \/ StatsAnswer
  <2>1. PICK kind, p : /\ Answer(kind, p) /\ Told(p)
                       /\ \/ kind = "stats"
                          \/ kind = "limits" /\ Keeps(b.payload, p, {"danger", "late"})
                          \/ kind = "live_status" /\ Keeps(b.payload, p, {"limits", "danger", "late"})
    <3>1. CASE StatusAnswer
      <4>1. PICK s, p : p = [b.payload EXCEPT !.live = s] /\ Answer("live_status", p)
        BY <3>1 DEF StatusAnswer
      <4>2. Told(p) /\ Keeps(b.payload, p, {"limits", "danger", "late"})
        BY <4>1 DEF Told, Keeps
      <4>. QED
        BY <4>1, <4>2
    <3>2. CASE CelebrateAnswer
      <4>1. PICK d, p : /\ d \in Directives \cup {None}
                        /\ p = [b.payload EXCEPT !.celebrate = d] /\ Answer("live_status", p)
        BY <3>2 DEF CelebrateAnswer
      <4>2. Told(p) /\ Keeps(b.payload, p, {"limits", "danger", "late"})
        BY <4>1 DEF Told, Keeps
      <4>. QED
        BY <4>1, <4>2
    <3>3. CASE LimitsAnswer
      <4>1. PICK p : p = [b.payload EXCEPT !.limits = ~@]
        OBVIOUS
      <4>2. Told(p) /\ Keeps(b.payload, p, {"danger", "late"})
        BY <4>1 DEF Told, Keeps
      <4>. QED
        BY <3>3, <4>1, <4>2 DEF LimitsAnswer
    <3>4. CASE StatsAnswer
      <4>1. PICK l \in BOOLEAN :
              Answer("stats", [b.payload EXCEPT !.danger = l \/ ~@, !.late = l])
        BY <3>4, Zenon DEF StatsAnswer
      <4>2. PICK p : p = [b.payload EXCEPT !.danger = l \/ ~@, !.late = l]
        OBVIOUS
      <4>3. Answer("stats", p)
        BY <4>1, <4>2
      <4>4. PICK danger : danger <=> l \/ ~b.payload.danger
        OBVIOUS
      <4>5. p = [b.payload EXCEPT !.danger = danger, !.late = l]
        BY <4>2, <4>4
      <4>6. Told(p)
        BY <4>5 DEF Told
      <4>. QED
        BY <4>3, <4>6
    <3>. QED
      BY <1>4, <3>1, <3>2, <3>3, <3>4
  <2>2. PICK e : e = [env EXCEPT !.online = TRUE] /\ "online" \in DOMAIN e
    BY <1>0
  <2>3. PICK feed : feed = [kind |-> kind, payload |-> p]
    OBVIOUS
  <2>4. Pass(e, {}, feed, 0)
    BY <2>1, <2>2, <2>3 DEF Answer
  <2>5. Feeds(b.payload, feed)
    BY <2>1, <2>3 DEF Feeds
  <2>6. Passes(e, {}, feed, 0)
    BY <2>1, <2>2, <2>3, <2>4, <2>5 DEF Passes
  <2>. QED
    BY <2>6
<1>5. CASE PowerOff \/ PlugHalted
  <2>1. CASE PowerOff
    BY <2>1 DEF PowerOff, Rests
  <2>2. CASE PlugHalted
    BY <2>2, <1>0 DEF PlugHalted, Rests
  <2>. QED
    BY <1>5, <2>1, <2>2
<1>6. CASE Wake \/ Restart
  BY <1>6 DEF Wake, Restart, Start, Forget, Boots
<1>7. CASE Loaded
  BY <1>7 DEF Loaded, Forget, Boots
<1>. QED
  BY <1>1, <1>2, <1>3, <1>4, <1>5, <1>6, <1>7 DEF BadgeNext, Loop, World

\* The start of a pass: time goes by and the gauges are sampled.
Awakens(c, d, dt) ==
  /\ Sound(d) /\ SamePicture(c, d) /\ ~d.framed
  /\ Keeps(c, d, Fields \ {"dirty", "framed", "blinked", "ticked", "avatar", "beat", "cycled",
                           "gauge"})
  /\ d.avatar = IF dt = 0 THEN c.avatar ELSE Elapse(c.avatar)
  /\ d.ticked = (dt = 1)

\* How a pass begins, before it is known whether the notice comes up.
LEMMA PassBegins ==
  ASSUME NEW c, NEW e, NEW dt, NEW d, d = Gauges(Elapsed(c, dt), e, dt), Sound(c)
  PROVE  Awakens(c, d, dt)
<1>. DEFINE w == Elapsed(c, dt)
<1>0. d = Gauges(w, e, dt)
  OBVIOUS
<1>1. /\ Sound(w) /\ SamePicture(c, w)
      /\ Keeps(c, w, Fields \ {"dirty", "framed", "blinked", "ticked", "avatar", "beat", "cycled"})
      /\ ~w.framed /\ w.ticked = (dt = 1)
      /\ w.avatar = IF dt = 0 THEN c.avatar ELSE Elapse(c.avatar)
  BY ElapsedKeeps
<1>. HIDE DEF w
<1>2. Sound(d) /\ SamePicture(w, d) /\ Keeps(w, d, Fields \ {"gauge"})
  BY <1>0, <1>1, GaugesKeep
<1>3. /\ ~d.framed /\ d.avatar = w.avatar /\ d.ticked = w.ticked
      /\ Keeps(c, d, Fields \ {"dirty", "framed", "blinked", "ticked", "avatar", "beat", "cycled",
                               "gauge"})
  BY <1>1, <1>2 DEF Keeps, Fields
<1>. QED
  BY <1>1, <1>2, <1>3 DEF Awakens, SamePicture

\* What a whole pass leaves.
Rounds(c, e, feed, d) ==
  /\ Sound(d) /\ Noted(d) /\ (c.shown = Picture(c) => d.shown = Picture(d))
  /\ d.flow = None => FooterShown(d, Footer(d, e))
  /\ Spoken(d) /\ Fed(c, d, feed)
  /\ "notice" \in d.dropped <=> "notice" \in c.dropped
  /\ Asked(c, e, d, {"bubble", "director"})

\* What is on the panel of a running badge is what its state calls for.
Current(c, e) ==
  "notice" \notin c.dropped =>
    /\ c.shown = Picture(c)
    /\ c.flow = None => FooterShown(c, Footer(c, e))
    /\ c.flow = None /\ CurrentScreen(c) \in {"usage", "words"} /\ c.ticked => c.chrome.light = e.online

\* The badge is sound, what it noted of the panel it drew, and what it was told
\* has the shape of an answer.  No stage is animated while it does not run; while
\* it does the animator and the backlight are as the power and the scheduler are.
BadgeInv ==
  /\ Sound(b) /\ Noted(b) /\ Spoken(b) /\ Chromed(b) /\ Told(b.payload) /\ "online" \in DOMAIN env
  /\ phase # "run" => ~b.framed
  /\ phase = "run" => Current(b, env) /\ Informed(b, env) /\ (b.flow = None => Dimmed(b, env))

\* The frame stands while nothing is drawn and nothing changes that it shows.
LEMMA ChromedOn ==
  ASSUME NEW c, NEW d, SamePicture(c, d), d.chrome = c.chrome, Chromed(c)
  PROVE  Chromed(d)
BY DEF SamePicture, Chromed

\* Something else comes on the panel.
LEMMA ShownElse ==
  ASSUME NEW c, NEW what, NEW d, d = [c EXCEPT !.shown = what], Sound(c)
  PROVE  /\ Sound(d) /\ SamePicture(c, d) /\ Keeps(c, d, Fields \ {"shown"})
         /\ (Noted(c) => Noted(d)) /\ (Chromed(c) => Chromed(d))
<1>1. Shaped(d) /\ Keeps(c, d, Fields \ {"shown"})
  BY DEF Sound, Shaped, Animator, Keeps, Fields
<1>2. /\ Keeps(c, d, Core) /\ d.avatar = c.avatar /\ d.footer = c.footer /\ d.noted = c.noted
      /\ d.swept = c.swept /\ d.flow = c.flow /\ d.chrome = c.chrome
  BY <1>1 DEF Keeps, Core, Fields
<1>3. Sound(d) /\ SamePicture(c, d)
  BY <1>1, <1>2, CoreCarries DEF Keeps
<1>4. (Noted(c) => Noted(d)) /\ (Chromed(c) => Chromed(d))
  BY <1>2, <1>3, ChromedOn DEF Noted
<1>. QED
  BY <1>1, <1>3, <1>4

\* A pass of the loop preserves the invariant.
LEMMA RoundsKeep ==
  ASSUME BadgeInv, NEW e, NEW P, NEW feed, NEW dt, Passes(e, P, feed, dt)
  PROVE  BadgeInv'
<1>. DEFINE c == Gauges(Elapsed(b, dt), e, dt)
<1>1. /\ phase = "run" /\ env' = e
      /\ IF ShouldPowerOff(c.gauge, ~e.usb)
         THEN phase' = "notice" /\ b' = [c EXCEPT !.shown = [screen |-> "notice"]]
         ELSE phase' = phase /\ b' = RestOfPass(c, e, P, feed, dt)
  BY DEF Passes, Pass
<1>f. Feeds(b.payload, feed) /\ dt \in {0, 1}
  BY DEF Passes
<1>2. Awakens(b, c, dt)
  BY PassBegins DEF BadgeInv
<1>. HIDE DEF c
<1>3. /\ Sound(c) /\ ~c.framed /\ Picture(c) = Picture(b) /\ (c.flow = None <=> b.flow = None)
      /\ c.shown = b.shown /\ c.footer = b.footer /\ c.noted = b.noted /\ c.swept = b.swept
      /\ c.payload = b.payload /\ c.dropped = b.dropped /\ c.chrome = b.chrome
      /\ c.ticked = (dt = 1) /\ SamePicture(b, c)
  BY <1>2 DEF Awakens, SamePicture, Keeps, Fields
<1>4. Noted(c) /\ Chromed(c)
  BY <1>3, ChromedOn DEF Noted, BadgeInv
<1>5. CASE ShouldPowerOff(c.gauge, ~e.usb)
  <2>1. PICK what : what = [screen |-> "notice"]
    OBVIOUS
  <2>2. b' = [c EXCEPT !.shown = what] /\ phase' = "notice"
    BY <1>1, <1>5, <2>1
  <2>3. /\ Sound(b') /\ Keeps(c, b', Fields \ {"shown"}) /\ Noted(b') /\ Chromed(b')
    BY <2>2, <1>3, <1>4, ShownElse
  <2>4. /\ (b').avatar = c.avatar /\ (b').framed = c.framed /\ (b').payload = c.payload
    BY <2>3 DEF Keeps, Fields
  <2>5. Spoken(b')
    BY <1>3, <2>4 DEF Spoken
  <2>. QED
    BY <1>1, <1>3, <2>2, <2>3, <2>4, <2>5 DEF BadgeInv, Passes
<1>6. CASE ~ShouldPowerOff(c.gauge, ~e.usb)
  <2>1. b' = RestOfPass(c, e, P, feed, dt) /\ phase' = "run"
    BY <1>1, <1>6
  <2>2. Rounds(c, e, feed, b') /\ Shows(c, e, dt, b')
    BY <2>1, <1>3, <1>4, <1>f, PassKeeps DEF Rounds
  <2>3. Current(b', e)
    BY <2>2, <1>1, <1>3 DEF Rounds, Shows, Current, BadgeInv
  <2>5. Chromed(b') /\ Informed(b', e) /\ ((b').flow = None => Dimmed(b', e))
    BY <2>2, <1>4 DEF Shows
  <2>4. Told((b').payload)
    BY <2>2, <1>3 DEF Rounds, Fed, Passes, BadgeInv
  <2>. QED
    BY <1>1, <2>1, <2>2, <2>3, <2>4, <2>5 DEF BadgeInv, Rounds, Passes
<1>. QED
  BY <1>5, <1>6

\* A badge as its boot leaves it: all it shows is right, nothing is set back yet.
Booted(d, e, sprite) ==
  /\ Sound(d) /\ Noted(d) /\ Spoken(d) /\ Told(d.payload) /\ Current(d, e)
  /\ Chromed(d) /\ Informed(d, e) /\ Dimmed(d, e) /\ d.dimmed = None /\ ~d.framed
  /\ d.avatar = NewAnimator(sprite)

\* The badge starts on what was saved.
LEMMA BootsRight ==
  ASSUME NEW saved, Ranged(saved), NEW payload, Told(payload), NEW e, e.online = TRUE,
         NEW d, d = Boot(saved, payload, e)
  PROVE  Booted(d, e, saved.sprite)
<1>1. /\ Sound(d) /\ Noted(d) /\ d.shown = Picture(d) /\ d.footer = Footer(d, e)
      /\ ~d.framed /\ d.avatar = NewAnimator(saved.sprite) /\ d.payload = payload
      /\ d.chrome = Chrome(d, e) /\ d.flow = None /\ d.dimmed = None
      /\ ~d.ticked /\ ~d.onBattery /\ ~d.liveOn
  BY BootKeeps
<1>2. d.avatar.online = TRUE /\ d.avatar.battery = FALSE
  BY <1>1 DEF NewAnimator
<1>3. Informed(d, e) /\ Dimmed(d, e)
  BY <1>1, <1>2 DEF Informed, Dimmed
<1>4. Chromed(d)
  BY <1>1, <1>3, DrawnChrome
<1>. QED
  BY <1>1, <1>3, <1>4 DEF Booted, Spoken, Current, FooterShown

\* What a sound badge has saved a restart can read.
LEMMA SavedInRange ==
  ASSUME NEW c, Sound(c)
  PROVE  Ranged(c.saved)
BY DEF Sound, Shaped, Live, Ranged

\* The badge starts in the invariant.
LEMMA BadgeStarts ==
  BadgeInit => BadgeInv
<1>. SUFFICES ASSUME BadgeInit PROVE BadgeInv
  OBVIOUS
<1>1. PICK s \in Scenes : env = s.world /\ b = Boot(s.saved, Quiet, s.world)
  BY DEF BadgeInit
<1>2. s.saved \in Settings /\ env \in Worlds
  BY <1>1, BadgeAssumption
<1>3. Ranged(s.saved)
  BY <1>2 DEF Settings, Ranged, SavedFields
<1>4. Told(Quiet)
  BY DEF Told, Quiet
<1>5. "online" \in DOMAIN env /\ env.online = TRUE
  BY <1>1, <1>2, BadgeAssumption DEF Worlds
<1>6. Booted(b, env, s.saved.sprite)
  BY <1>1, <1>3, <1>4, <1>5, BootsRight
<1>. QED
  BY <1>1, <1>5, <1>6 DEF Booted, BadgeInv, BadgeInit

\* A badge that starts, or whose boot is answered, is in the invariant.
LEMMA BootsOn ==
  ASSUME BadgeInv, Boots
  PROVE  BadgeInv' /\ (b').avatar = NewAnimator(b.saved.sprite)
<1>1. PICK saved, payload, e, d : /\ saved = b.saved /\ payload = b.payload /\ e = Answered(env)
                                  /\ d = Boot(saved, payload, e)
  OBVIOUS
<1>2. /\ env' = e /\ "online" \in DOMAIN e /\ e.online = TRUE
  BY <1>1 DEF Boots, Answered, BadgeInv
<1>3. Ranged(saved) /\ Told(payload)
  BY <1>1, SavedInRange DEF BadgeInv
<1>4. /\ Sound(d) /\ Noted(d) /\ Spoken(d) /\ Told(d.payload) /\ Current(d, e)
      /\ Chromed(d) /\ Informed(d, e) /\ Dimmed(d, e) /\ d.dimmed = None /\ ~d.framed
      /\ d.avatar = NewAnimator(saved.sprite)
  <2>1. Booted(d, e, saved.sprite)
    BY <1>1, <1>2, <1>3, BootsRight
  <2>. QED
    BY <2>1 DEF Booted
<1>5. CASE phase' = "boot" /\ b' = [Boot(b.saved, b.payload, Answered(env)) EXCEPT !.shown = [screen |-> "boot"]]
  <2>1. PICK what : what = [screen |-> "boot"]
    OBVIOUS
  <2>2. b' = [d EXCEPT !.shown = what]
    BY <1>1, <1>5, <2>1
  <2>3. /\ Sound(b') /\ Keeps(d, b', Fields \ {"shown"}) /\ Noted(b') /\ Chromed(b')
    BY <2>2, <1>4, ShownElse
  <2>4. /\ (b').avatar = d.avatar /\ (b').framed = d.framed /\ (b').payload = d.payload
    BY <2>3 DEF Keeps, Fields
  <2>. QED
    BY <1>1, <1>2, <1>4, <1>5, <2>3, <2>4 DEF BadgeInv, Spoken
<1>6. CASE phase' = "run" /\ b' = [Boot(b.saved, b.payload, Answered(env)) EXCEPT !.panel = b.panel]
  <2>1. PICK n : n = b.panel
    OBVIOUS
  <2>2. b' = [d EXCEPT !.panel = n]
    BY <1>1, <1>6, <2>1
  <2>3. Shaped(b') /\ Keeps(d, b', Fields \ {"panel"})
    BY <2>2, <1>4 DEF Sound, Shaped, Animator, Keeps, Fields
  <2>4. /\ (b').saved = d.saved /\ (b').categories = d.categories /\ (b').flow = d.flow
        /\ (b').category = d.category /\ (b').screen = d.screen
        /\ (b').theme = d.theme /\ (b').scale = d.scale
        /\ (b').dimmed = d.dimmed /\ (b').avatar = d.avatar /\ (b').framed = d.framed
        /\ (b').payload = d.payload /\ (b').footer = d.footer /\ (b').noted = d.noted
        /\ (b').swept = d.swept /\ (b').dropped = d.dropped /\ (b').shown = d.shown
        /\ (b').chrome = d.chrome /\ (b').gauge = d.gauge /\ (b').ticked = d.ticked
        /\ (b').blinked = d.blinked /\ (b').onBattery = d.onBattery /\ (b').liveOn = d.liveOn
    BY <2>3 DEF Keeps, Fields
  <2>5. Sound(b') /\ Noted(b') /\ Spoken(b')
    BY <1>4, <2>3, <2>4 DEF Sound, Live, Lit, InFlow, Noted, Spoken
  <2>6. SamePicture(d, b')
    <3>1. SamePlace(d, b') /\ SameNews(d, b')
      BY <2>3, <2>4 DEF Keeps, Fields, SamePlace, SameNews
    <3>. QED
      BY <2>4, <3>1, SamePlacePicture
  <2>7. Chromed(b') /\ Informed(b', e) /\ Dimmed(b', e)
    BY <1>4, <2>4, <2>6, ChromedOn DEF Informed, Dimmed
  <2>8. Current(b', e)
    <3>1. Footer(b', e) = Footer(d, e)
      BY <2>4, FooterIs
    <3>2. FooterShown(d, Footer(d, e)) => FooterShown(b', Footer(b', e))
      BY <2>4, <3>1 DEF FooterShown
    <3>. QED
      BY <1>4, <2>4, <2>6, <3>2 DEF Current, SamePicture, CurrentScreen, CurrentScreens
  <2>. QED
    BY <1>1, <1>2, <1>4, <1>6, <2>4, <2>5, <2>7, <2>8 DEF BadgeInv
<1>. QED
  BY <1>5, <1>6 DEF Boots

\* Every step of the badge and of its world preserves the invariant.
LEMMA BadgeSteps ==
  BadgeInv /\ [BadgeNext]_badgeVars => BadgeInv'
<1>. SUFFICES ASSUME BadgeInv, [BadgeNext]_badgeVars PROVE BadgeInv'
  OBVIOUS
<1>1. CASE \E e, P, feed, dt : Passes(e, P, feed, dt)
  BY <1>1, RoundsKeep
<1>2. CASE Abort
  <2>1. PICK P, w : /\ P = notice.held /\ w = RestOfPass(b, env, P, None, 0)
                    /\ b' = [w EXCEPT !.dropped = @ \cup {"notice"}]
    BY <1>2 DEF Abort
  <2>2. phase # "run" /\ env' = env
    BY <1>2 DEF Abort
  <2>3. /\ Rounds(b, env, None, w) /\ (Chromed(b) => Chromed(w))
        /\ Informed(w, env) /\ (w.flow = None => Dimmed(w, env))
    <3>1. PICK feed, dt : feed = None /\ dt = 0
      OBVIOUS
    <3>2. w = RestOfPass(b, env, P, feed, dt)
      BY <2>1, <3>1
    <3>3. Rounds(b, env, feed, w) /\ Shows(b, env, dt, w)
      BY <3>1, <3>2, <2>2, PassKeeps DEF Rounds, BadgeInv, Feeds
    <3>. QED
      BY <3>1, <3>3 DEF Shows
  <2>4. /\ Shaped(b') /\ Keeps(w, b', Fields \ {"dropped"})
        /\ (b').dropped = w.dropped \cup {"notice"}
    BY <2>1, <2>3 DEF Rounds, Sound, Shaped, Animator, Keeps, Fields
  <2>5. /\ (b').saved = w.saved /\ (b').categories = w.categories /\ (b').flow = w.flow
        /\ (b').theme = w.theme /\ (b').scale = w.scale /\ (b').panel = w.panel
        /\ (b').dimmed = w.dimmed /\ (b').avatar = w.avatar /\ (b').framed = w.framed
        /\ (b').payload = w.payload /\ (b').footer = w.footer /\ (b').noted = w.noted
        /\ (b').swept = w.swept /\ (b').chrome = w.chrome /\ (b').category = w.category
        /\ (b').screen = w.screen /\ (b').liveOn = w.liveOn /\ (b').onBattery = w.onBattery
    BY <2>4 DEF Keeps, Fields
  <2>6. Sound(b') /\ Noted(b') /\ Spoken(b')
    BY <2>3, <2>4, <2>5 DEF Rounds, Sound, Live, Lit, Panel, InFlow, Noted, Spoken
  <2>7. Told((b').payload) /\ "notice" \in (b').dropped
    BY <2>3, <2>4, <2>5 DEF Rounds, Fed, BadgeInv
  <2>8. Chromed(b')
    <3>1. Chromed(w)
      BY <2>3 DEF BadgeInv
    <3>. QED
      BY <2>5, <3>1 DEF Chromed, AvatarUp, CurrentScreen, CurrentScreens
  <2>9. Informed(b', env) /\ ((b').flow = None => Dimmed(b', env))
    <3>1. (b').dropped \cap FromDisplay = {} => w.dropped \cap FromDisplay = {}
      BY <2>4
    <3>. QED
      BY <2>3, <2>5, <3>1 DEF Informed, Dimmed
  <2>. QED
    BY <1>2, <2>2, <2>6, <2>7, <2>8, <2>9 DEF BadgeInv, Abort, Current
<1>3. CASE Countdown
  <2>1. b' = Elapsed(b, 1) /\ phase' = phase /\ phase = "notice" /\ env' = env
    BY <1>3 DEF Countdown
  <2>2. PICK dt : dt = 1
    OBVIOUS
  <2>3. /\ Sound(b')
        /\ Keeps(b, b', Fields \ {"dirty", "framed", "blinked", "ticked", "avatar", "beat",
                                  "cycled"})
        /\ ~(b').framed /\ SamePicture(b, b')
    BY <2>1, <2>2, ElapsedKeeps DEF BadgeInv
  <2>4. /\ (b').payload = b.payload /\ (b').footer = b.footer /\ (b').noted = b.noted
        /\ (b').swept = b.swept /\ (b').flow = b.flow /\ (b').chrome = b.chrome
    BY <2>3 DEF Keeps, Fields
  <2>5. Chromed(b')
    BY <2>3, <2>4, ChromedOn DEF BadgeInv
  <2>. QED
    BY <2>1, <2>3, <2>4, <2>5 DEF BadgeInv, Noted, Spoken
<1>4. CASE Rests
  BY <1>4 DEF Rests, BadgeInv, Noted, Spoken, Chromed, AvatarUp, CurrentScreen, CurrentScreens
<1>5. CASE Boots
  BY <1>5, BootsOn
<1>6. CASE UNCHANGED badgeVars
  BY <1>6 DEF badgeVars, BadgeInv, Noted, Spoken, Current, Chromed, AvatarUp, Informed, Dimmed,
                CurrentScreen, CurrentScreens
<1>. QED
  BY <1>1, <1>2, <1>3, <1>4, <1>5, <1>6, StepCases DEF BadgeInv

\* The invariant holds in every state.
LEMMA BadgeHolds ==
  BadgeSpec => []BadgeInv
BY BadgeStarts, BadgeSteps, PTL DEF BadgeSpec

\* What is on the panel is what is saved, whichever editor last changed it, was
\* left by A or was cut off by a celebration: theme, font, sprite, the interval of
\* the avatar's change, and the screens there are when none is being edited.
THEOREM SafeLive == BadgeSpec => []LiveIsSaved
<1>1. BadgeInv => LiveIsSaved
  BY DEF BadgeInv, Sound, Live, LiveIsSaved
<1>. QED
  BY <1>1, BadgeHolds, PTL

\* The panel is as bright as the settings and the power call for, once no editor
\* that previews the brightness is open or was cut off.
THEOREM SafePanel == BadgeSpec => []PanelIsDimmed
<1>1. BadgeInv => PanelIsDimmed
  BY DEF BadgeInv, Sound, Lit, Dimmed, PanelIsDimmed
<1>. QED
  BY <1>1, BadgeHolds, PTL

\* The panel of a running badge never keeps a picture or a footer its state has
\* left behind, though most passes draw only part of it, or nothing.
THEOREM SafePicture == BadgeSpec => []PanelIsCurrent
<1>1. BadgeInv => PanelIsCurrent
  <2>. SUFFICES ASSUME BadgeInv, phase = "run", "notice" \notin b.dropped
                PROVE  /\ b.shown = Picture(b)
                       /\ b.flow = None => FooterIsCurrent
                       /\ b.flow = None /\ CurrentScreen(b) = "avatar" =>
                            /\ LightIsRight
                            /\ \/ b.chrome.label = ContextLabel(b)
                               \/ b.liveOn /\ b.chrome.label \in {"LIVE:ON", None}
                       /\ b.flow = None /\ CurrentScreen(b) \in {"usage", "words"} /\ b.ticked
                            => LightIsRight
    BY DEF PanelIsCurrent
  <2>1. Current(b, env) /\ Informed(b, env) /\ Chromed(b)
    BY DEF BadgeInv
  <2>2. b.flow = None => FooterIsCurrent
    BY <2>1 DEF Current, FooterShown, FooterIsCurrent
  <2>3. ASSUME b.flow = None, CurrentScreen(b) = "avatar"
        PROVE  /\ LightIsRight
               /\ \/ b.chrome.label = ContextLabel(b)
                  \/ b.liveOn /\ b.chrome.label \in {"LIVE:ON", None}
    BY <2>1, <2>3 DEF Chromed, AvatarUp, Informed, LightIsRight, ContextLabel
  <2>. QED
    BY <2>1, <2>2, <2>3 DEF Current, LightIsRight
<1>. QED
  BY <1>1, BadgeHolds, PTL

\* A bubble beside a moving avatar is one the status and the answers justify, and
\* a celebration in progress is never silenced by a quip, a limit or a quote.
THEOREM SafeBubble == BadgeSpec => []BubbleIsDue
<1>1. BadgeInv => BubbleIsDue
  BY DEF BadgeInv, Spoken, BubbleIsDue
<1>. QED
  BY <1>1, BadgeHolds, PTL

-----------------------------------------------------------------------------
\* What is said of a task.

\* What one call makes of the status: only a spell of work ends in DONE!.
LEMMA FollowsStatus ==
  ASSUME NEW a, NEW x, NEW y, NEW p, NEW r, r = Heeds(a, x, y, p), Animator(a), Settled(a)
  PROVE  /\ r.previous = "working" =>
              /\ ~x /\ y /\ p.live = "working"
              /\ (a.previous = "working" /\ r.worked = a.worked) \/ r.worked = 0
         /\ r.visual = "done" =>
              \/ a.visual = "done"
              \/ a.previous = "working" /\ a.worked >= MinWork /\ p.live # "working"
<1>. DEFINE a0 == [a EXCEPT !.battery = x, !.online = y]
            u == UpdateCelebration(a0, p)
            o == OnlineEdge(u)
            t == BatteryEdge(o)
            status == Status(a0, p)
            z == DoneEnds(t, status)
<1>a. None \notin {"working", "idle", "waiting"}
  BY AvatarAssumption
<1>0. /\ Animator(a0) /\ Keeps(a, a0, AvatarFields \ {"battery", "online"})
      /\ a0.battery = x /\ a0.online = y
  BY DEF Animator, Keeps, AvatarFields
<1>b. r = UpdateState(a0, p)
  BY DEF Heeds
<1>c. /\ status \in {"working", "idle", "waiting", None}
      /\ status = "working" => ~x /\ y /\ p.live = "working"
      /\ status = "idle" => p.live # "working"
  BY <1>0, <1>a DEF Status
<1>. HIDE DEF a0
<1>d. r = Follow(z, status)
  BY <1>b DEF UpdateState
<1>1. /\ Animator(u)
      /\ Keeps(a0, u, AvatarFields \ {"celebration", "celebrated", "jump", "redraw"})
  BY <1>0, CelebrationKeeps
<1>. HIDE DEF u
<1>2. Animator(o) /\ Keeps(u, o, AvatarFields \ {"wasOnline", "redraw"})
  BY <1>1, OnlineEdgeKeeps
<1>. HIDE DEF o
<1>3. /\ Animator(t)
      /\ Keeps(o, t, AvatarFields \ {"wasBattery", "redraw", "visual", "previous", "done",
                                     "celebration"})
      /\ t.visual \in {o.visual, "standby"} /\ t.previous \in {o.previous, None}
  BY <1>2, BatteryEdgeKeeps
<1>. HIDE DEF t
<1>4. /\ Animator(z) /\ Keeps(t, z, AvatarFields \ {"redraw", "visual", "done"})
      /\ z.visual \in {t.visual, Rest(status)}
  BY <1>3, DoneEndsKeeps
<1>. HIDE DEF z
<1>e. PICK st : st = status
  OBVIOUS
<1>5. /\ \/ r.visual \in {z.visual, Rest(st)}
         \/ z.previous = "working" /\ st = "idle" /\ z.worked >= MinWork
      /\ r.previous = st
      /\ st = "working" => (z.previous = "working" /\ r.worked = z.worked) \/ r.worked = 0
  BY <1>4, <1>d, <1>e, FollowKeeps
<1>. HIDE DEF status
<1>6. /\ z.previous = "working" => a.previous = "working"
      /\ z.worked = a.worked
      /\ z.visual = "done" => a.visual = "done"
      /\ Rest(st) # "done"
  BY <1>0, <1>1, <1>2, <1>3, <1>4, <1>a, <1>c, <1>e DEF Keeps, AvatarFields, Rest
<1>. QED
  BY <1>5, <1>6, <1>a, <1>c, <1>e

\* The badge was told of work and the task on its mind has been worked on no
\* longer than that.
DoneInv ==
  /\ spell \in Nat
  /\ b.avatar.previous = "working" =>
       SeenWorking(b) /\ b.avatar.worked \in 0 .. MinWork /\ b.avatar.worked <= spell

\* d is what became of c when the animator was asked.
Worked(c, d) ==
  /\ d.avatar.previous = "working" =>
       /\ SeenWorking(d)
       /\ \/ c.avatar.previous = "working" /\ d.avatar.worked = c.avatar.worked
          \/ d.avatar.worked = 0
  /\ d.avatar.visual = "done" =>
       \/ c.avatar.visual = "done"
       \/ /\ c.avatar.previous = "working" /\ c.avatar.worked >= MinWork
          /\ d.payload.live # "working"

\* A pass that asks the animator follows the status it was told.
LEMMA WorkedOn ==
  ASSUME NEW c, NEW e, NEW d, Asked(c, e, d, {"bubble", "director"}), Sound(c)
  PROVE  Worked(c, d)
<1>1. PICK a, x, r : /\ r = Heeds(a, x, e.online, d.payload)
                     /\ Animator(a) /\ Keeps(c.avatar, a, AvatarFields \ {"sprite"})
                     /\ Keeps(r, d.avatar, AvatarFields \
                               ({"jump", "redraw", "sprite"} \cup {"bubble", "director"}))
  BY DEF Asked
<1>2. Settled(a)
  BY <1>1 DEF Sound, Settled, Keeps, AvatarFields
<1>3. r.battery = x /\ r.online = e.online
  BY <1>1, <1>2, HeedsKeeps
<1>4. PICK y, p : y = e.online /\ p = d.payload
  OBVIOUS
<1>5. /\ r.previous = "working" =>
           /\ ~x /\ y /\ p.live = "working"
           /\ (a.previous = "working" /\ r.worked = a.worked) \/ r.worked = 0
      /\ r.visual = "done" =>
           \/ a.visual = "done"
           \/ a.previous = "working" /\ a.worked >= MinWork /\ p.live # "working"
  BY <1>1, <1>2, <1>4, FollowsStatus
<1>6. /\ a.previous = c.avatar.previous /\ a.worked = c.avatar.worked /\ a.visual = c.avatar.visual
      /\ d.avatar.previous = r.previous /\ d.avatar.worked = r.worked
      /\ d.avatar.visual = r.visual /\ d.avatar.online = r.online
      /\ d.avatar.battery = r.battery
  BY <1>1 DEF Keeps, AvatarFields
<1>. QED
  BY <1>3, <1>4, <1>5, <1>6 DEF Worked, SeenWorking

\* Time goes by for a task that is being worked on.
LEMMA TimeGoesBy ==
  ASSUME NEW a, Animator(a), NEW dt \in {0, 1}, NEW r, r = IF dt = 0 THEN a ELSE Elapse(a)
  PROVE  /\ r.previous = a.previous /\ r.visual = a.visual /\ r.online = a.online
         /\ r.battery = a.battery
         /\ a.previous = "working" /\ a.worked \in 0 .. MinWork =>
              /\ r.worked \in 0 .. MinWork /\ r.worked <= a.worked + dt
              /\ dt = 0 => r.worked = a.worked
<1>1. MinWork \in Nat
  BY AvatarAssumption
<1>2. CASE dt = 0
  BY <1>2
<1>3. CASE dt = 1
  <2>1. /\ r.previous = a.previous /\ r.visual = a.visual /\ r.online = a.online
        /\ r.battery = a.battery
        /\ a.previous = "working" => r.worked = MinOf(a.worked + 1, MinWork)
    BY <1>3 DEF Elapse, Animator, AvatarFields
  <2>. QED
    BY <1>1, <1>3, <2>1 DEF MinOf
<1>. QED
  BY <1>2, <1>3

\* A pass that asked: it says DONE! only after a spell, and counts on.
LEMMA DoneRounds ==
  ASSUME DoneInv, NEW c, NEW e, NEW feed, NEW dt \in {0, 1}, NEW d,
         Sound(b), Sound(c), c.payload = b.payload,
         c.avatar = IF dt = 0 THEN b.avatar ELSE Elapse(b.avatar),
         dt = 0 \/ feed = None, Fed(c, d, feed), Asked(c, e, d, {"bubble", "director"}),
         NEW n, n = IF SeenWorking(b) /\ SeenWorking(d) THEN MinOf(spell + dt, MinWork) ELSE 0
  PROVE  /\ n \in Nat
         /\ d.avatar.previous = "working" =>
              SeenWorking(d) /\ d.avatar.worked \in 0 .. MinWork /\ d.avatar.worked <= n
         /\ d.avatar.visual = "done" /\ b.avatar.visual # "done" => spell >= MinWork
<1>0. MinWork \in Nat \ {0} /\ spell \in Nat
  BY AvatarAssumption DEF DoneInv
<1>1. /\ c.avatar.previous = b.avatar.previous /\ c.avatar.visual = b.avatar.visual
      /\ b.avatar.previous = "working" /\ b.avatar.worked \in 0 .. MinWork =>
           /\ c.avatar.worked \in 0 .. MinWork /\ c.avatar.worked <= b.avatar.worked + dt
           /\ dt = 0 => c.avatar.worked = b.avatar.worked
  BY TimeGoesBy DEF Sound, Shaped
<1>2. Worked(c, d)
  BY WorkedOn
<1>3. n \in Nat
  BY <1>0 DEF MinOf
<1>4. ASSUME d.avatar.previous = "working"
      PROVE  SeenWorking(d) /\ d.avatar.worked \in 0 .. MinWork /\ d.avatar.worked <= n
  <2>1. SeenWorking(d)
    BY <1>2, <1>4 DEF Worked
  <2>2. CASE d.avatar.worked = 0
    BY <2>1, <2>2, <1>0, <1>3
  <2>3. CASE c.avatar.previous = "working" /\ d.avatar.worked = c.avatar.worked
    <3>1. SeenWorking(b) /\ b.avatar.worked \in 0 .. MinWork /\ b.avatar.worked <= spell
      BY <1>1, <2>3 DEF DoneInv
    <3>2. n = MinOf(spell + dt, MinWork)
      BY <2>1, <3>1
    <3>. QED
      BY <1>0, <1>1, <2>1, <2>3, <3>1, <3>2 DEF MinOf
  <2>. QED
    BY <1>2, <1>4, <2>2, <2>3 DEF Worked
<1>5. ASSUME d.avatar.visual = "done", b.avatar.visual # "done"
      PROVE  spell >= MinWork
  <2>1. /\ c.avatar.previous = "working" /\ c.avatar.worked >= MinWork
        /\ d.payload.live # "working"
    BY <1>1, <1>2, <1>5 DEF Worked
  <2>2. SeenWorking(b) /\ b.avatar.worked \in 0 .. MinWork /\ b.avatar.worked <= spell
    BY <1>1, <2>1 DEF DoneInv
  <2>3. dt = 0
    BY <2>1, <2>2 DEF SeenWorking, Fed
  <2>. QED
    BY <1>0, <1>1, <2>1, <2>2, <2>3
<1>. QED
  BY <1>3, <1>4, <1>5

\* What a pass of the loop does to the badge: the notice comes up, or it asks.
LEMMA PassCases ==
  ASSUME BadgeInv, NEW e, NEW P, NEW feed, NEW dt, Passes(e, P, feed, dt)
  PROVE  \E c : /\ Sound(c) /\ c.payload = b.payload
                /\ c.avatar = IF dt = 0 THEN b.avatar ELSE Elapse(b.avatar)
                /\ \/ /\ (b').avatar = c.avatar /\ (b').payload = b.payload /\ Waits(dt)
                   \/ Rounds(c, e, feed, b') /\ Remember(b', dt)
<1>. DEFINE c == Gauges(Elapsed(b, dt), e, dt)
<1>1. /\ phase = "run"
      /\ IF ShouldPowerOff(c.gauge, ~e.usb)
         THEN b' = [c EXCEPT !.shown = [screen |-> "notice"]] /\ Waits(dt)
         ELSE b' = RestOfPass(c, e, P, feed, dt) /\ Remember(b', dt)
  BY DEF Passes, Pass
<1>f. Feeds(b.payload, feed)
  BY DEF Passes
<1>2. Awakens(b, c, dt)
  BY PassBegins DEF BadgeInv
<1>. HIDE DEF c
<1>3. /\ Sound(c) /\ ~c.framed /\ Noted(c) /\ c.payload = b.payload
      /\ c.avatar = IF dt = 0 THEN b.avatar ELSE Elapse(b.avatar)
  BY <1>2 DEF Awakens, SamePicture, Keeps, Fields, Noted, BadgeInv
<1>4. CASE ShouldPowerOff(c.gauge, ~e.usb)
  <2>1. PICK what : what = [screen |-> "notice"]
    OBVIOUS
  <2>2. b' = [c EXCEPT !.shown = what] /\ Waits(dt)
    BY <1>1, <1>4, <2>1
  <2>3. (b').avatar = c.avatar /\ (b').payload = c.payload
    BY <2>2, <1>3 DEF Sound, Shaped, Fields
  <2>. QED
    BY <1>3, <2>2, <2>3
<1>5. CASE ~ShouldPowerOff(c.gauge, ~e.usb)
  <2>1. b' = RestOfPass(c, e, P, feed, dt) /\ Remember(b', dt)
    BY <1>1, <1>5
  <2>2. Rounds(c, e, feed, b')
    BY <2>1, <1>f, <1>3, PassKeeps DEF Rounds
  <2>. QED
    BY <1>3, <2>1, <2>2
<1>. QED
  BY <1>4, <1>5

\* A power-off that was called off asks like any other pass, with no time gone
\* by and no answer.
LEMMA AbortAsks ==
  ASSUME BadgeInv, Abort
  PROVE  \E w, feed : /\ feed = None /\ Rounds(b, env, feed, w) /\ Remember(b', 0)
                      /\ (b').avatar = w.avatar /\ (b').payload = w.payload
                      /\ (b').flow = w.flow /\ (b').categories = w.categories
                      /\ (b').category = w.category /\ (b').screen = w.screen
                      /\ Picture(b') = Picture(w) /\ (b').shown = w.shown
<1>1. PICK P, w, feed, dt :
        /\ P = notice.held /\ feed = None /\ dt = 0 /\ w = RestOfPass(b, env, P, feed, dt)
        /\ b' = [w EXCEPT !.dropped = @ \cup {"notice"}]
  BY DEF Abort
<1>2. phase # "run" /\ Remember(b', 0)
  BY DEF Abort
<1>3. Rounds(b, env, feed, w)
  BY <1>1, <1>2, PassKeeps DEF Rounds, BadgeInv, Feeds
<1>4. Shaped(b') /\ Keeps(w, b', Fields \ {"dropped"})
  BY <1>1, <1>3 DEF Rounds, Sound, Shaped, Animator, Keeps, Fields
<1>5. Picture(b') = Picture(w)
  <2>1. /\ SamePlace(w, b') /\ SameNews(w, b') /\ (b').saved = w.saved /\ (b').avatar = w.avatar
    BY <1>4 DEF Keeps, Fields, SamePlace, SameNews
  <2>. QED
    BY <2>1, SamePlacePicture DEF SamePicture
<1>. QED
  BY <1>1, <1>2, <1>3, <1>4, <1>5 DEF Keeps, Fields

\* Every step preserves the invariant, and DONE! comes up only after MinWork.
LEMMA DoneSteps ==
  BadgeInv /\ DoneInv /\ [BadgeNext]_badgeVars =>
    DoneInv' /\ ((b').avatar.visual = "done" /\ b.avatar.visual # "done" => spell >= MinWork)
<1>. SUFFICES ASSUME BadgeInv, DoneInv, [BadgeNext]_badgeVars
              PROVE  /\ DoneInv'
                     /\ (b').avatar.visual = "done" /\ b.avatar.visual # "done" => spell >= MinWork
  OBVIOUS
<1>0. MinWork \in Nat \ {0} /\ spell \in Nat /\ Sound(b)
  BY AvatarAssumption DEF DoneInv, BadgeInv
<1>w. ASSUME NEW dt \in {0, 1}, (b').payload = b.payload, Waits(dt),
             (b').avatar = IF dt = 0 THEN b.avatar ELSE Elapse(b.avatar)
      PROVE  DoneInv' /\ (b').avatar.visual = b.avatar.visual
  <2>1. /\ (b').avatar.previous = b.avatar.previous /\ (b').avatar.visual = b.avatar.visual
        /\ (b').avatar.online = b.avatar.online /\ (b').avatar.battery = b.avatar.battery
        /\ b.avatar.previous = "working" /\ b.avatar.worked \in 0 .. MinWork =>
             /\ (b').avatar.worked \in 0 .. MinWork /\ (b').avatar.worked <= b.avatar.worked + dt
    BY <1>0, <1>w, TimeGoesBy DEF Sound, Shaped
  <2>2. spell' = IF SeenWorking(b) THEN MinOf(spell + dt, MinWork) ELSE 0
    BY <1>w DEF Waits
  <2>3. SeenWorking(b') <=> SeenWorking(b)
    BY <1>w, <2>1 DEF SeenWorking
  <2>. QED
    BY <1>0, <2>1, <2>2, <2>3 DEF DoneInv, MinOf, SeenWorking
<1>r. ASSUME NEW c, NEW e, NEW feed, NEW dt \in {0, 1}, NEW d,
             Sound(c), c.payload = b.payload,
             c.avatar = IF dt = 0 THEN b.avatar ELSE Elapse(b.avatar),
             dt = 0 \/ feed = None, Rounds(c, e, feed, d), Remember(b', dt),
             (b').avatar = d.avatar, (b').payload = d.payload
      PROVE  /\ DoneInv'
             /\ (b').avatar.visual = "done" /\ b.avatar.visual # "done" => spell >= MinWork
  <2>1. SeenWorking(d) <=> SeenWorking(b')
    BY <1>r DEF SeenWorking
  <2>2. PICK n : n = IF SeenWorking(b) /\ SeenWorking(d) THEN MinOf(spell + dt, MinWork) ELSE 0
    OBVIOUS
  <2>3. spell' = n
    BY <1>r, <2>1, <2>2 DEF Remember
  <2>4. Fed(c, d, feed) /\ Asked(c, e, d, {"bubble", "director"})
    BY <1>r DEF Rounds
  <2>5. /\ n \in Nat
        /\ d.avatar.previous = "working" =>
              SeenWorking(d) /\ d.avatar.worked \in 0 .. MinWork /\ d.avatar.worked <= n
        /\ d.avatar.visual = "done" /\ b.avatar.visual # "done" => spell >= MinWork
    BY <1>0, <1>r, <2>2, <2>4, DoneRounds
  <2>. QED
    BY <1>r, <2>1, <2>3, <2>5 DEF DoneInv, SeenWorking
<1>1. CASE \E e, P, feed, dt : Passes(e, P, feed, dt)
  <2>1. PICK e, P, feed, dt : Passes(e, P, feed, dt)
    BY <1>1
  <2>2. dt \in {0, 1} /\ (dt = 0 \/ feed = None)
    BY <2>1 DEF Passes
  <2>3. PICK c : /\ Sound(c) /\ c.payload = b.payload
                 /\ c.avatar = IF dt = 0 THEN b.avatar ELSE Elapse(b.avatar)
                 /\ \/ /\ (b').avatar = c.avatar /\ (b').payload = b.payload /\ Waits(dt)
                    \/ Rounds(c, e, feed, b') /\ Remember(b', dt)
    BY <2>1, PassCases
  <2>4. CASE (b').avatar = c.avatar /\ (b').payload = b.payload /\ Waits(dt)
    BY <2>2, <2>3, <2>4, <1>w
  <2>5. CASE Rounds(c, e, feed, b') /\ Remember(b', dt)
    BY <2>2, <2>3, <2>5, <1>r
  <2>. QED
    BY <2>3, <2>4, <2>5
<1>2. CASE Abort
  <2>1. PICK w, feed : /\ feed = None /\ Rounds(b, env, feed, w) /\ Remember(b', 0)
                       /\ (b').avatar = w.avatar /\ (b').payload = w.payload
    BY <1>2, AbortAsks
  <2>2. PICK dt \in {0, 1} : dt = 0
    OBVIOUS
  <2>. QED
    BY <1>0, <2>1, <2>2, <1>r
<1>3. CASE Countdown
  <2>1. PICK dt \in {0, 1} : dt = 1
    OBVIOUS
  <2>2. b' = Elapsed(b, dt) /\ Waits(dt)
    BY <1>3, <2>1 DEF Countdown
  <2>3. /\ Keeps(b, b', Fields \ {"dirty", "framed", "blinked", "ticked", "avatar", "beat",
                                  "cycled"})
        /\ (b').avatar = IF dt = 0 THEN b.avatar ELSE Elapse(b.avatar)
    <3>1. PICK d : d = b'
      OBVIOUS
    <3>2. /\ Keeps(b, d, Fields \ {"dirty", "framed", "blinked", "ticked", "avatar", "beat",
                                   "cycled"})
          /\ d.avatar = IF dt = 0 THEN b.avatar ELSE Elapse(b.avatar)
      BY <2>2, <3>1, <1>0, ElapsedKeeps
    <3>. QED
      BY <3>1, <3>2
  <2>4. (b').payload = b.payload
    BY <2>3 DEF Keeps, Fields
  <2>. QED
    BY <2>2, <2>3, <2>4, <1>w
<1>4. CASE Rests
  BY <1>4 DEF Rests, DoneInv, SeenWorking
<1>5. CASE Boots
  <2>1. PICK sprite : sprite = b.saved.sprite /\ (b').avatar = NewAnimator(sprite)
    BY <1>5, BootsOn
  <2>2. (b').avatar.previous = None /\ (b').avatar.visual = "standby" /\ spell' = 0
    BY <1>5, <2>1 DEF NewAnimator, Boots
  <2>. QED
    BY <2>2, AvatarAssumption DEF DoneInv
<1>6. CASE UNCHANGED badgeVars
  BY <1>6 DEF badgeVars, DoneInv, SeenWorking
<1>. QED
  BY <1>1, <1>2, <1>3, <1>4, <1>5, <1>6, StepCases DEF BadgeInv

\* A badge that starts has seen no work.
LEMMA DoneStarts ==
  BadgeInit => DoneInv
<1>. SUFFICES ASSUME BadgeInit PROVE DoneInv
  OBVIOUS
<1>1. PICK s \in Scenes : b = Boot(s.saved, Quiet, s.world)
  BY DEF BadgeInit
<1>2. Ranged(s.saved)
  BY <1>1, BadgeAssumption DEF Settings, Ranged, SavedFields
<1>3. b.avatar = NewAnimator(s.saved.sprite)
  BY <1>1, <1>2, BootKeeps
<1>4. b.avatar.previous = None /\ spell = 0
  BY <1>3 DEF NewAnimator, BadgeInit
<1>. QED
  BY <1>4, AvatarAssumption DEF DoneInv

\* DONE! is said of work the badge saw for MinWork without a gap: an outage, the
\* battery or a restart starts the count again (avatar_animation.py, "genuine
\* completion").
THEOREM DoneOnlyWhenEarned == BadgeSpec => DoneIsEarned
<1>1. BadgeSpec => [](BadgeInv /\ DoneInv)
  BY BadgeStarts, BadgeSteps, DoneStarts, DoneSteps, PTL DEF BadgeSpec
<1>2. BadgeInv /\ DoneInv /\ [BadgeNext]_badgeVars =>
        [(b').avatar.visual = "done" /\ b.avatar.visual # "done" => spell >= MinWork]_badgeVars
  BY DoneSteps
<1>. QED
  BY <1>1, <1>2, PTL DEF BadgeSpec, DoneIsEarned

-----------------------------------------------------------------------------
\* Whom the badge has celebrated.

\* One more id read: the oldest is forgotten.
Reads(s, x) == IF Len(Append(s, x)) > Remembered THEN Tail(Append(s, x)) ELSE Append(s, x)

\* F is what was read since id was celebrated, s the ids the badge remembers.
Remembers(F, s, id) ==
  /\ IsFiniteSet(F)
  /\ \/ Cardinality(F) >= Remembered
     \/ \E i \in 1 .. Len(s) : /\ s[i] = id /\ Cardinality(F) = Len(s) - i
                               /\ \A x \in F : \E j \in i + 1 .. Len(s) : s[j] = x

\* One more id in the list of those that are remembered: it is the last, and at
\* most the oldest is gone.
LEMMA ReadsOn ==
  ASSUME NEW S, NEW s \in Seq(S), Len(s) <= Remembered, NEW x \in S,
         \A i \in 1 .. Len(s) : s[i] # x, NEW t, t = Reads(s, x)
  PROVE  /\ t \in Seq(S) /\ Len(t) <= Remembered /\ Len(t) >= 1 /\ t[Len(t)] = x
         /\ ToSet(t) \ ToSet(s) = {x}
         /\ \/ Len(t) = Len(s) + 1 /\ \A i \in 1 .. Len(s) : t[i] = s[i]
            \/ /\ Len(s) = Remembered /\ Len(t) = Len(s)
               /\ \A i \in 1 .. Len(s) - 1 : t[i] = s[i + 1]
<1>0. Remembered \in Nat \ {0} /\ Len(s) \in Nat
  BY AvatarAssumption
<1>. DEFINE k == Append(s, x)
<1>1. /\ k \in Seq(S) /\ Len(k) = Len(s) + 1 /\ k[Len(s) + 1] = x
      /\ \A i \in 1 .. Len(s) : k[i] = s[i]
  OBVIOUS
<1>2. t = IF Len(k) > Remembered THEN Tail(k) ELSE k
  BY DEF Reads
<1>. HIDE DEF k
<1>3. CASE Len(k) > Remembered
  <2>1. t = Tail(k) /\ Len(s) = Remembered
    BY <1>0, <1>1, <1>2, <1>3
  <2>2. /\ t \in Seq(S) /\ Len(t) = Len(s)
        /\ \A i \in 1 .. Len(s) : t[i] = k[i + 1]
    BY <1>0, <1>1, <2>1
  <2>3. t[Len(t)] = x
    BY <1>0, <1>1, <2>1, <2>2
  <2>4. \A i \in 1 .. Len(s) - 1 : t[i] = s[i + 1]
    BY <1>0, <1>1, <2>2
  <2>5. ToSet(t) \ ToSet(s) = {x}
    <3>1. x \in ToSet(t)
      <4>1. DOMAIN t = 1 .. Len(t) /\ Len(t) \in DOMAIN t
        BY <1>0, <2>1, <2>2
      <4>. QED
        BY <4>1, <2>3 DEF ToSet
    <3>2. x \notin ToSet(s)
      BY DEF ToSet
    <3>3. \A y \in ToSet(t) : y = x \/ y \in ToSet(s)
      <4>1. ASSUME NEW i \in 1 .. Len(s) PROVE t[i] = x \/ t[i] \in ToSet(s)
        <5>1. CASE i = Len(s)
          BY <5>1, <2>2, <2>3
        <5>2. CASE i # Len(s)
          <6>1. i \in 1 .. Len(s) - 1 /\ i + 1 \in 1 .. Len(s)
            BY <5>2, <1>0
          <6>. QED
            BY <6>1, <2>4 DEF ToSet
        <5>. QED
          BY <5>1, <5>2
      <4>. QED
        BY <4>1, <2>2 DEF ToSet
    <3>. QED
      BY <3>1, <3>2, <3>3
  <2>. QED
    BY <1>0, <2>1, <2>2, <2>3, <2>4, <2>5
<1>4. CASE ~(Len(k) > Remembered)
  <2>1. t = k /\ Len(t) <= Remembered
    BY <1>0, <1>1, <1>2, <1>4
  <2>2. ToSet(t) \ ToSet(s) = {x}
    <3>1. x \in ToSet(t)
      BY <1>0, <1>1, <2>1 DEF ToSet
    <3>2. x \notin ToSet(s)
      BY DEF ToSet
    <3>3. \A y \in ToSet(t) : y = x \/ y \in ToSet(s)
      BY <1>0, <1>1, <2>1 DEF ToSet
    <3>. QED
      BY <3>1, <3>2, <3>3
  <2>. QED
    BY <1>0, <1>1, <2>1, <2>2
<1>. QED
  BY <1>3, <1>4

\* When one more id is read, an earlier one is still remembered or so many came
\* after it that it may be forgotten.
LEMMA RemembersOn ==
  ASSUME NEW S, NEW s \in Seq(S), Len(s) <= Remembered, NEW x \in S,
         \A i \in 1 .. Len(s) : s[i] # x, NEW t, t = Reads(s, x),
         NEW F, NEW id, Remembers(F, s, id)
  PROVE  Remembers(F \cup ({x} \ {id}), t, id)
<1>0. Remembered \in Nat \ {0} /\ Len(s) \in Nat
  BY AvatarAssumption
<1>1. /\ t \in Seq(S) /\ Len(t) <= Remembered /\ Len(t) >= 1 /\ t[Len(t)] = x
      /\ \/ Len(t) = Len(s) + 1 /\ \A i \in 1 .. Len(s) : t[i] = s[i]
         \/ /\ Len(s) = Remembered /\ Len(t) = Len(s)
            /\ \A i \in 1 .. Len(s) - 1 : t[i] = s[i + 1]
  BY ReadsOn
<1>2. IsFiniteSet(F) /\ Cardinality(F) \in Nat
  BY FS_CardinalityType DEF Remembers
<1>3. CASE x = id
  <2>1. F \cup ({x} \ {id}) = F
    BY <1>3
  <2>2. Cardinality(F) >= Remembered
    BY <1>3 DEF Remembers
  <2>. QED
    BY <1>2, <2>1, <2>2 DEF Remembers
<1>4. CASE x # id
  <2>1. F \cup ({x} \ {id}) = F \cup {x}
    BY <1>4
  <2>2. /\ IsFiniteSet(F \cup {x}) /\ Cardinality(F \cup {x}) >= Cardinality(F)
        /\ x \notin F => Cardinality(F \cup {x}) = Cardinality(F) + 1
    BY <1>2, FS_AddElement
  <2>3. Cardinality(F \cup {x}) \in Nat
    BY <2>2, FS_CardinalityType
  <2>4. CASE Cardinality(F) >= Remembered
    <3>1. Cardinality(F \cup {x}) >= Remembered
      BY <1>0, <1>2, <2>2, <2>3, <2>4
    <3>2. Remembers(F \cup {x}, t, id)
      BY <2>2, <3>1 DEF Remembers
    <3>. QED
      BY <2>1, <3>2
  <2>5. ASSUME NEW i \in 1 .. Len(s), s[i] = id, Cardinality(F) = Len(s) - i,
               \A y \in F : \E j \in i + 1 .. Len(s) : s[j] = y
        PROVE  Remembers(F \cup {x}, t, id)
    <3>1. x \notin F
      BY <1>0, <2>5
    <3>2. Cardinality(F \cup {x}) = Len(s) - i + 1
      BY <2>2, <2>5, <3>1
    <3>3. CASE Len(t) = Len(s) + 1 /\ \A k \in 1 .. Len(s) : t[k] = s[k]
      <4>1. i \in 1 .. Len(t) /\ t[i] = id /\ Cardinality(F \cup {x}) = Len(t) - i
        BY <1>0, <2>5, <3>2, <3>3
      <4>2. ASSUME NEW y \in F \cup {x} PROVE \E j \in i + 1 .. Len(t) : t[j] = y
        <5>1. CASE y = x
          BY <1>0, <1>1, <3>3, <5>1
        <5>2. CASE y \in F
          <6>1. PICK j \in i + 1 .. Len(s) : s[j] = y
            BY <2>5, <5>2
          <6>2. j \in i + 1 .. Len(t) /\ t[j] = y
            BY <1>0, <3>3, <6>1
          <6>. QED
            BY <6>2
        <5>. QED
          BY <5>1, <5>2
      <4>. QED
        BY <2>2, <4>1, <4>2 DEF Remembers
    <3>4. CASE /\ Len(s) = Remembered /\ Len(t) = Len(s)
               /\ \A k \in 1 .. Len(s) - 1 : t[k] = s[k + 1]
      <4>1. CASE i = 1
        BY <1>0, <2>2, <3>2, <3>4, <4>1 DEF Remembers
      <4>2. CASE i # 1
        <5>1. /\ i - 1 \in 1 .. Len(t) /\ t[i - 1] = id
              /\ Cardinality(F \cup {x}) = Len(t) - (i - 1)
          <6>1. i - 1 \in 1 .. Len(s) - 1 /\ i - 1 + 1 = i
            BY <1>0, <4>2
          <6>. QED
            BY <1>0, <2>5, <3>2, <3>4, <6>1
        <5>2. ASSUME NEW y \in F \cup {x} PROVE \E j \in i - 1 + 1 .. Len(t) : t[j] = y
          <6>1. CASE y = x
            BY <1>0, <1>1, <3>4, <6>1
          <6>2. CASE y \in F
            <7>1. PICK j \in i + 1 .. Len(s) : s[j] = y
              BY <2>5, <6>2
            <7>2. j - 1 \in 1 .. Len(s) - 1 /\ j - 1 + 1 = j /\ j - 1 \in i - 1 + 1 .. Len(t)
              BY <1>0, <3>4, <7>1
            <7>3. t[j - 1] = y
              BY <3>4, <7>1, <7>2
            <7>. QED
              BY <7>2, <7>3
          <6>. QED
            BY <6>1, <6>2
        <5>. QED
          BY <2>2, <5>1, <5>2 DEF Remembers
      <4>. QED
        BY <4>1, <4>2
    <3>. QED
      BY <1>1, <3>3, <3>4
  <2>6. CASE ~(Cardinality(F) >= Remembered)
    <3>1. PICK i \in 1 .. Len(s) : /\ s[i] = id /\ Cardinality(F) = Len(s) - i
                                  /\ \A y \in F : \E j \in i + 1 .. Len(s) : s[j] = y
      BY <2>6 DEF Remembers
    <3>. QED
      BY <2>1, <2>5, <3>1
  <2>. QED
    BY <2>4, <2>6
<1>. QED
  BY <1>3, <1>4

\* No id is celebrated that is still remembered.
Fresh(a, id) == \A i \in 1 .. Len(a.celebrated) : a.celebrated[i] # id

\* What asking does to the celebrations: nothing new, or one id read, which
\* may take the stage.
Tells(a, r) ==
  \/ r.celebrated = a.celebrated /\ r.celebration \in {a.celebration, None}
  \/ \E v \in Directives :
       /\ Fresh(a, v.id) /\ r.celebrated = Reads(a.celebrated, v.id)
       /\ \/ r.celebration \in {a.celebration, None}
          \/ r.celebration = [id |-> v.id, left |-> Window(v)] /\ r.jump

\* update_celebration reads an id at most once while it remembers it, and puts
\* only one it just read on the stage.
LEMMA CelebrationTells ==
  ASSUME NEW a, NEW p, p.celebrate \in Directives \cup {None}, NEW r,
         r = UpdateCelebration(a, p), Animator(a)
  PROVE  Tells(a, r)
<1>. DEFINE over == a.celebration # None /\ a.celebration.left = 0
            a1 == IF over THEN [a EXCEPT !.celebration = None, !.redraw = TRUE] ELSE a
            v == p.celebrate
            kept == Append(a1.celebrated, v.id)
            a2 == [a1 EXCEPT !.celebrated = IF Len(kept) > Remembered THEN Tail(kept) ELSE kept]
            a3 == [a2 EXCEPT !.celebration = [id |-> v.id, left |-> Window(v)],
                             !.jump = TRUE, !.redraw = TRUE]
<1>1. /\ Animator(a1) /\ a1.celebrated = a.celebrated /\ a1.celebration \in {a.celebration, None}
  BY DEF Animator, AvatarFields
<1>2. r = CASE v = None -> a1
            [] v # None /\ Celebrated(a1, v.id) -> a1
            [] v # None /\ ~Celebrated(a1, v.id) /\ v.life = 0 -> a2
            [] OTHER -> a3
  BY DEF UpdateCelebration
<1>3. a2 = [a1 EXCEPT !.celebrated = Reads(a1.celebrated, v.id)]
  BY DEF Reads
<1>. HIDE DEF a1
<1>4. /\ Animator(a2) /\ a2.celebrated = Reads(a.celebrated, v.id)
      /\ a2.celebration = a1.celebration
  BY <1>1, <1>3 DEF Animator, AvatarFields
<1>. HIDE DEF a2
<1>5. /\ a3.celebrated = a2.celebrated /\ a3.celebration = [id |-> v.id, left |-> Window(v)]
      /\ a3.jump
  BY <1>4 DEF Animator, AvatarFields
<1>. HIDE DEF a3
<1>6. \/ r = a1
      \/ v # None /\ ~Celebrated(a1, v.id) /\ r \in {a2, a3}
  BY <1>2
<1>7. v # None /\ ~Celebrated(a1, v.id) => v \in Directives /\ Fresh(a, v.id)
  BY <1>1 DEF Celebrated, Fresh
<1>. HIDE DEF v
<1>. QED
  BY <1>1, <1>4, <1>5, <1>6, <1>7 DEF Tells

\* The rest of update_state leaves the ids alone and at most clears the stage.
LEMMA HeedsTells ==
  ASSUME NEW a, NEW x, NEW y, NEW p, p.celebrate \in Directives \cup {None}, NEW r,
         r = Heeds(a, x, y, p), Animator(a)
  PROVE  Tells(a, r)
<1>. DEFINE a0 == [a EXCEPT !.battery = x, !.online = y]
            u == UpdateCelebration(a0, p)
            o == OnlineEdge(u)
            t == BatteryEdge(o)
            status == Status(a0, p)
            z == DoneEnds(t, status)
<1>0. Animator(a0) /\ Keeps(a, a0, AvatarFields \ {"battery", "online"})
  BY DEF Animator, Keeps, AvatarFields
<1>a. r = UpdateState(a0, p)
  BY DEF Heeds
<1>. HIDE DEF a0
<1>b. r = Follow(z, status)
  BY <1>a DEF UpdateState
<1>1. /\ Animator(u)
      /\ Keeps(a0, u, AvatarFields \ {"celebration", "celebrated", "jump", "redraw"})
  BY <1>0, CelebrationKeeps
<1>c. Tells(a0, u)
  BY <1>0, CelebrationTells
<1>. HIDE DEF u
<1>2. Animator(o) /\ Keeps(u, o, AvatarFields \ {"wasOnline", "redraw"})
  BY <1>1, OnlineEdgeKeeps
<1>. HIDE DEF o
<1>3. /\ Animator(t)
      /\ Keeps(o, t, AvatarFields \ {"wasBattery", "redraw", "visual", "previous", "done",
                                     "celebration"})
      /\ t.celebration \in {o.celebration, None}
  BY <1>2, BatteryEdgeKeeps
<1>. HIDE DEF t
<1>4. Animator(z) /\ Keeps(t, z, AvatarFields \ {"redraw", "visual", "done"})
  BY <1>3, DoneEndsKeeps
<1>. HIDE DEF z, status
<1>5. Keeps(z, r, AvatarFields \ {"redraw", "visual", "done", "previous", "worked"})
  BY <1>4, <1>b, FollowKeeps
<1>6. /\ a0.celebrated = a.celebrated /\ a0.celebration = a.celebration
      /\ r.celebrated = u.celebrated /\ r.jump = u.jump
      /\ r.celebration \in {u.celebration, None}
  BY <1>0, <1>2, <1>3, <1>4, <1>5 DEF Keeps, AvatarFields
<1>7. CASE u.celebrated = a0.celebrated /\ u.celebration \in {a0.celebration, None}
  BY <1>6, <1>7 DEF Tells
<1>8. ASSUME NEW v \in Directives, Fresh(a0, v.id), u.celebrated = Reads(a0.celebrated, v.id),
             \/ u.celebration \in {a0.celebration, None}
             \/ u.celebration = [id |-> v.id, left |-> Window(v)] /\ u.jump
      PROVE  Tells(a, r)
  <2>1. Fresh(a, v.id) /\ r.celebrated = Reads(a.celebrated, v.id)
    BY <1>6, <1>8 DEF Fresh
  <2>2. \/ r.celebration \in {a.celebration, None}
        \/ r.celebration = [id |-> v.id, left |-> Window(v)] /\ r.jump
    BY <1>6, <1>8
  <2>. QED
    BY <2>1, <2>2 DEF Tells
<1>. QED
  BY <1>c, <1>7, <1>8 DEF Tells

\* What may be on the stage.
Celebrations == [id: CelebrationIds, left: Nat]

\* What was read since an id was celebrated is remembered, or is so much that
\* the id may have been forgotten.
StageInv ==
  /\ b.avatar.celebrated \in Seq(CelebrationIds) /\ Len(b.avatar.celebrated) <= Remembered
  /\ b.avatar.celebration # None => b.avatar.celebration \in Celebrations
  /\ \A id \in CelebrationIds :
       fired[id] # None => Remembers(fired[id], b.avatar.celebrated, id)

\* A celebration that begins is a new one and takes the panel.
TakesStage ==
  Begins(b') =>
    LET id == (b').avatar.celebration.id
    IN /\ fired[id] = None \/ (fired[id] # None /\ Cardinality(fired[id]) >= Remembered)
       /\ (b').flow = None
       /\ Navigable(b', "avatar") => (b').shown = Picture(b') /\ CurrentScreen(b') = "avatar"

\* now is was, or nothing, some time later.
GoesOn(was, now) ==
  now # None => was # None /\ now \in Celebrations /\ was \in Celebrations
                  /\ now.id = was.id /\ now.left <= was.left

\* A celebration in progress has less time left, and is the same.
LEMMA TimeOnStage ==
  ASSUME NEW a, Animator(a), a.celebration # None => a.celebration \in Celebrations,
         NEW dt, NEW r, r = IF dt = 0 THEN a ELSE Elapse(a)
  PROVE  r.celebrated = a.celebrated /\ GoesOn(a.celebration, r.celebration)
<1>1. CASE dt = 0
  BY <1>1 DEF GoesOn, Celebrations
<1>2. CASE dt # 0
  <2>1. /\ r.celebrated = a.celebrated
        /\ r.celebration = IF a.celebration = None THEN None ELSE Sooner(a.celebration)
    BY <1>2 DEF Elapse, Animator, AvatarFields
  <2>2. ASSUME NEW w \in Celebrations, NEW n, n = Sooner(w)
        PROVE  n \in Celebrations /\ n.id = w.id /\ n.left <= w.left
    <3>1. PICK k \in Nat : k = Down(w.left) /\ k <= w.left
      <4>1. w.left \in Nat
        BY DEF Celebrations
      <4>2. Down(w.left) \in Nat /\ Down(w.left) <= w.left
        BY <4>1 DEF Down, MaxOf
      <4>. QED
        BY <4>2
    <3>2. n = [w EXCEPT !.left = k]
      BY <2>2, <3>1 DEF Sooner
    <3>. QED
      BY <3>1, <3>2 DEF Celebrations
  <2>. QED
    BY <2>1, <2>2 DEF GoesOn
<1>. QED
  BY <1>1, <1>2

\* A celebration that goes on does not begin.
LEMMA GoingOnBeginsNothing ==
  ASSUME GoesOn(b.avatar.celebration, (b').avatar.celebration)
  PROVE  ~Begins(b')
BY DEF GoesOn, Begins, Celebrations

\* A pass that asks keeps the invariant, and a celebration that begins in it is
\* new and takes the panel.
LEMMA StageRounds ==
  ASSUME StageInv, NEW c, NEW e, NEW dt, NEW d, Sound(b), Sound(c), Told(d.payload),
         c.avatar = IF dt = 0 THEN b.avatar ELSE Elapse(b.avatar),
         Asked(c, e, d, {"bubble", "director"}),
         Remember(b', dt), (b').avatar = d.avatar, (b').flow = d.flow,
         (b').categories = d.categories, (b').category = d.category, (b').screen = d.screen,
         (b').shown = d.shown, Picture(b') = Picture(d)
  PROVE  StageInv' /\ TakesStage
<1>. DEFINE s == b.avatar.celebrated
            t == (b').avatar.celebrated
            was == b.avatar.celebration
            now == (b').avatar.celebration
<1>1. PICK a, x, r : /\ r = Heeds(a, x, e.online, d.payload)
                     /\ Animator(a) /\ Keeps(c.avatar, a, AvatarFields \ {"sprite"})
                     /\ Keeps(r, d.avatar, AvatarFields \
                               ({"jump", "redraw", "sprite"} \cup {"bubble", "director"}))
                     /\ r.jump => /\ d.flow = None
                                  /\ Navigable(d, "avatar") => CurrentScreen(d) = "avatar"
                                  /\ d.shown = Picture(d)
  BY DEF Asked
<1>2. Tells(a, r)
  <2>1. PICK y, p : y = e.online /\ p = d.payload /\ p.celebrate \in Directives \cup {None}
    BY DEF Told
  <2>. QED
    BY <1>1, <2>1, HeedsTells
<1>3. /\ a.celebrated = s /\ GoesOn(was, a.celebration)
      /\ r.celebrated = t /\ r.celebration = now
  <2>1. /\ a.celebrated = c.avatar.celebrated /\ a.celebration = c.avatar.celebration
        /\ r.celebrated = t /\ r.celebration = now
    BY <1>1 DEF Keeps, AvatarFields
  <2>2. c.avatar.celebrated = s /\ GoesOn(was, c.avatar.celebration)
    BY TimeOnStage DEF StageInv, Sound, Shaped
  <2>. QED
    BY <2>1, <2>2
<1>4. r.jump => /\ (b').flow = None
                /\ Navigable(b', "avatar")
                     => (b').shown = Picture(b') /\ CurrentScreen(b') = "avatar"
  BY <1>1 DEF Navigable, CurrentScreen, CurrentScreens
<1>5. \A id \in CelebrationIds :
        fired'[id] = IF Begins(b') /\ now.id = id THEN {}
                     ELSE IF fired[id] = None THEN None
                     ELSE fired[id] \cup ((ToSet(t) \ ToSet(s)) \ {id})
  BY DEF Remember
<1>6. GoesOn(was, now) /\ now # None => now \in Celebrations
  BY DEF GoesOn
<1>7. now \in {a.celebration, None} => GoesOn(was, now)
  BY <1>3 DEF GoesOn
<1>8. s \in Seq(CelebrationIds) /\ Len(s) <= Remembered
  BY DEF StageInv
<1>9. CASE t = s /\ now \in {a.celebration, None}
  <2>1. ~Begins(b')
    BY <1>7, <1>9, GoingOnBeginsNothing
  <2>2. \A id \in CelebrationIds : fired'[id] # None => fired[id] # None /\ fired'[id] = fired[id]
    <3>1. ASSUME NEW id \in CelebrationIds, fired'[id] # None
          PROVE  fired[id] # None /\ fired'[id] = fired[id]
      <4>1. fired[id] # None /\ fired'[id] = fired[id] \cup ((ToSet(t) \ ToSet(s)) \ {id})
        BY <1>5, <2>1, <3>1
      <4>2. (ToSet(t) \ ToSet(s)) \ {id} = {}
        BY <1>9
      <4>. QED
        BY <4>1, <4>2
    <3>. QED
      BY <3>1
  <2>3. \A id \in CelebrationIds : fired'[id] # None => Remembers(fired'[id], t, id)
    BY <1>9, <2>2 DEF StageInv
  <2>. QED
    BY <1>6, <1>7, <1>8, <1>9, <2>1, <2>3 DEF StageInv, TakesStage
<1>10. ASSUME NEW v \in Directives, Fresh(a, v.id), t = Reads(s, v.id),
              \/ now \in {a.celebration, None}
              \/ now = [id |-> v.id, left |-> Window(v)] /\ r.jump
       PROVE  StageInv' /\ TakesStage
  <2>0. v.id \in CelebrationIds /\ \A i \in 1 .. Len(s) : s[i] # v.id
    BY <1>3, <1>10 DEF Fresh, CelebrationIds
  <2>1. /\ t \in Seq(CelebrationIds) /\ Len(t) <= Remembered /\ Len(t) >= 1 /\ t[Len(t)] = v.id
        /\ ToSet(t) \ ToSet(s) = {v.id}
    BY <1>8, <1>10, <2>0, ReadsOn
  <2>2. now # None => now \in Celebrations
    <3>1. CASE now \in {a.celebration, None}
      BY <1>6, <1>7, <3>1
    <3>2. CASE now = [id |-> v.id, left |-> Window(v)]
      <4>1. Window(v) \in Nat
        BY AvatarAssumption, BadgeAssumption DEF Window, MinOf
      <4>. QED
        BY <2>0, <3>2, <4>1 DEF Celebrations
    <3>. QED
      BY <1>10, <3>1, <3>2
  <2>3. Begins(b') => r.jump /\ now.id = v.id
    BY <1>7, <1>10, GoingOnBeginsNothing
  <2>4. ASSUME NEW id \in CelebrationIds, fired'[id] # None
        PROVE  Remembers(fired'[id], t, id)
    <3>1. CASE Begins(b') /\ now.id = id
      <4>1. fired'[id] = {} /\ id = v.id
        BY <1>5, <2>3, <3>1
      <4>2. Len(t) \in 1 .. Len(t) /\ t[Len(t)] = id /\ Len(t) - Len(t) = 0
        BY <2>1, <4>1
      <4>. QED
        BY <4>1, <4>2, FS_EmptySet DEF Remembers
    <3>2. CASE ~(Begins(b') /\ now.id = id)
      <4>1. fired[id] # None /\ fired'[id] = fired[id] \cup ({v.id} \ {id})
        BY <1>5, <2>1, <2>4, <3>2
      <4>2. Remembers(fired[id], s, id)
        BY <4>1 DEF StageInv
      <4>3. PICK F, w, l : F = fired[id] /\ w = v.id /\ l = t
        OBVIOUS
      <4>4. Remembers(F \cup ({w} \ {id}), l, id)
        BY <1>8, <1>10, <2>0, <4>2, <4>3, RemembersOn
      <4>. QED
        BY <4>1, <4>3, <4>4
    <3>. QED
      BY <3>1, <3>2
  <2>5. ASSUME Begins(b')
        PROVE  /\ fired[now.id] = None
                    \/ (fired[now.id] # None /\ Cardinality(fired[now.id]) >= Remembered)
               /\ r.jump
    <3>1. now.id = v.id /\ r.jump
      BY <2>3, <2>5
    <3>2. CASE fired[v.id] # None
      <4>1. Remembers(fired[v.id], s, v.id)
        BY <2>0, <3>2 DEF StageInv
      <4>. QED
        BY <2>0, <3>1, <3>2, <4>1 DEF Remembers
    <3>. QED
      BY <3>1, <3>2
  <2>6. TakesStage
    BY <1>4, <2>5 DEF TakesStage
  <2>. QED
    BY <2>1, <2>2, <2>4, <2>6 DEF StageInv
<1>. QED
  BY <1>2, <1>3, <1>9, <1>10 DEF Tells

\* A badge that starts has celebrated nobody.
LEMMA StageStarts ==
  BadgeInit => StageInv
<1>. SUFFICES ASSUME BadgeInit PROVE StageInv
  OBVIOUS
<1>1. PICK s \in Scenes : b = Boot(s.saved, Quiet, s.world)
  BY DEF BadgeInit
<1>2. Ranged(s.saved)
  BY <1>1, BadgeAssumption DEF Settings, Ranged, SavedFields
<1>3. b.avatar = NewAnimator(s.saved.sprite)
  BY <1>1, <1>2, BootKeeps
<1>4. b.avatar.celebrated = <<>> /\ b.avatar.celebration = None
  BY <1>3 DEF NewAnimator
<1>5. \A id \in CelebrationIds : fired[id] = None
  BY DEF BadgeInit
<1>. QED
  BY <1>4, <1>5, AvatarAssumption DEF StageInv

\* Every step preserves the invariant, and a celebration that begins is new and
\* takes the panel.
LEMMA StageSteps ==
  BadgeInv /\ StageInv /\ [BadgeNext]_badgeVars => StageInv' /\ TakesStage
<1>. SUFFICES ASSUME BadgeInv, StageInv, [BadgeNext]_badgeVars PROVE StageInv' /\ TakesStage
  OBVIOUS
<1>0. Sound(b) /\ Told(b.payload)
  BY DEF BadgeInv
<1>w. ASSUME NEW dt, Waits(dt), (b').avatar = IF dt = 0 THEN b.avatar ELSE Elapse(b.avatar)
      PROVE  StageInv' /\ TakesStage
  <2>1. /\ (b').avatar.celebrated = b.avatar.celebrated
        /\ GoesOn(b.avatar.celebration, (b').avatar.celebration)
    BY <1>0, <1>w, TimeOnStage DEF StageInv, Sound, Shaped
  <2>2. (b').avatar.celebration # None => (b').avatar.celebration \in Celebrations
    BY <2>1 DEF GoesOn
  <2>3. fired' = fired
    BY <1>w DEF Waits
  <2>4. ~Begins(b')
    BY <2>1, GoingOnBeginsNothing
  <2>. QED
    BY <2>1, <2>2, <2>3, <2>4 DEF StageInv, TakesStage
<1>1. CASE \E e, P, feed, dt : Passes(e, P, feed, dt)
  <2>1. PICK e, P, feed, dt : Passes(e, P, feed, dt)
    BY <1>1
  <2>2. PICK c : /\ Sound(c) /\ c.payload = b.payload
                 /\ c.avatar = IF dt = 0 THEN b.avatar ELSE Elapse(b.avatar)
                 /\ \/ /\ (b').avatar = c.avatar /\ (b').payload = b.payload /\ Waits(dt)
                    \/ Rounds(c, e, feed, b') /\ Remember(b', dt)
    BY <2>1, PassCases
  <2>3. CASE (b').avatar = c.avatar /\ Waits(dt)
    BY <2>2, <2>3, <1>w
  <2>4. CASE Rounds(c, e, feed, b') /\ Remember(b', dt)
    <3>1. PICK d : d = b'
      OBVIOUS
    <3>2. Asked(c, e, d, {"bubble", "director"}) /\ Fed(c, d, feed)
      BY <2>4, <3>1 DEF Rounds
    <3>3. Told(d.payload)
      BY <1>0, <2>1, <2>2, <3>2 DEF Passes, Fed
    <3>. QED
      BY <1>0, <2>2, <2>4, <3>1, <3>2, <3>3, StageRounds
  <2>. QED
    BY <2>2, <2>3, <2>4
<1>2. CASE Abort
  <2>1. PICK w, feed : /\ feed = None /\ Rounds(b, env, feed, w) /\ Remember(b', 0)
                       /\ (b').avatar = w.avatar /\ (b').flow = w.flow
                       /\ (b').categories = w.categories /\ (b').category = w.category
                       /\ (b').screen = w.screen /\ Picture(b') = Picture(w)
                       /\ (b').shown = w.shown
    BY <1>2, AbortAsks
  <2>2. PICK c, e, dt : c = b /\ e = env /\ dt = 0
    OBVIOUS
  <2>3. Asked(c, e, w, {"bubble", "director"}) /\ w.payload = b.payload
    BY <2>1, <2>2 DEF Rounds, Fed
  <2>4. /\ Sound(c) /\ Told(w.payload) /\ Remember(b', dt)
        /\ c.avatar = IF dt = 0 THEN b.avatar ELSE Elapse(b.avatar)
    BY <1>0, <2>1, <2>2, <2>3
  <2>. QED
    BY <1>0, <2>1, <2>3, <2>4, StageRounds
<1>3. CASE Countdown
  <2>1. PICK dt : dt = 1
    OBVIOUS
  <2>2. b' = Elapsed(b, dt) /\ Waits(dt)
    BY <1>3, <2>1 DEF Countdown
  <2>3. (b').avatar = IF dt = 0 THEN b.avatar ELSE Elapse(b.avatar)
    BY <2>2, <1>0, ElapsedKeeps
  <2>. QED
    BY <2>2, <2>3, <1>w
<1>4. CASE Rests
  <2>1. b' = b /\ fired' = fired
    BY <1>4 DEF Rests
  <2>2. ~Begins(b')
    BY <2>1 DEF Begins, StageInv, Celebrations
  <2>. QED
    BY <2>1, <2>2 DEF StageInv, TakesStage
<1>5. CASE Boots
  <2>1. PICK sprite : sprite = b.saved.sprite /\ (b').avatar = NewAnimator(sprite)
    BY <1>5, BootsOn
  <2>2. /\ (b').avatar.celebrated = <<>> /\ (b').avatar.celebration = None
        /\ \A id \in CelebrationIds : fired'[id] = None
    BY <1>5, <2>1 DEF NewAnimator, Boots
  <2>3. ~Begins(b')
    BY <2>2 DEF Begins
  <2>. QED
    BY <2>2, <2>3, AvatarAssumption DEF StageInv, TakesStage
<1>6. CASE UNCHANGED badgeVars
  <2>1. b' = b /\ fired' = fired
    BY <1>6 DEF badgeVars
  <2>2. ~Begins(b')
    BY <2>1 DEF Begins, StageInv, Celebrations
  <2>. QED
    BY <2>1, <2>2 DEF StageInv, TakesStage
<1>. QED
  BY <1>1, <1>2, <1>3, <1>4, <1>5, <1>6, StepCases DEF BadgeInv

\* "celebrate ONCE" (avatar_animation.py:317), and the celebration takes the
\* panel: an id is celebrated again only after so many others that the badge
\* forgot it, an open editor is closed, and the avatar's screen, unless it is
\* hidden, is drawn in the same pass.
THEOREM CelebratedOnce == BadgeSpec => CelebrationTakesTheStage
<1>1. BadgeSpec => [](BadgeInv /\ StageInv)
  BY BadgeStarts, BadgeSteps, StageStarts, StageSteps, PTL DEF BadgeSpec
<1>2. BadgeInv /\ StageInv /\ [BadgeNext]_badgeVars => [TakesStage]_badgeVars
  BY StageSteps
<1>3. BadgeSpec => [][TakesStage]_badgeVars
  BY <1>1, <1>2, PTL DEF BadgeSpec
<1>. QED
  BY <1>3, PTL DEF CelebrationTakesTheStage, TakesStage

\* Where the badge is, what it has saved and how bright it is: every index inside
\* its list, and the display menu only open on the first screen of its category,
\* so that resetting the settings, which puts hidden screens back into lists, and
\* leaves the indices, leaves them inside.
Placed(c) ==
  /\ c.saved \in Settings /\ Menu(c.categories)
  /\ c.category \in 0 .. Len(c.categories) - 1
  /\ c.screen \in 0 .. Len(CurrentScreens(c)) - 1
  /\ c.page \in 0 .. ProjectPages - 1
  /\ (c.flow # None /\ c.flow.kind = "display") => c.screen = 0
  /\ c.panel \in 0 .. BrightnessTop

\* The fields that says it.
Place == {"saved", "categories", "category", "screen", "page", "panel"}

\* A step that leaves these alone and opens no display menu leaves the badge so.
LEMMA PlacedOn ==
  ASSUME NEW c, NEW d, Placed(c), Keeps(c, d, Place),
         \/ d.flow = None \/ d.flow.kind # "display"
         \/ c.flow # None /\ c.flow.kind = d.flow.kind
  PROVE  Placed(d)
<1>1. /\ d.saved = c.saved /\ d.categories = c.categories /\ d.category = c.category
      /\ d.screen = c.screen /\ d.page = c.page /\ d.panel = c.panel
  BY DEF Keeps, Place
<1>. QED
  BY <1>1 DEF Placed, CurrentScreens

\* The first screen of any category, the first page, and the numbers of a list.
LEMMA Starts ==
  /\ 0 \in 0 .. ProjectPages - 1 /\ ProjectPages \in Nat \ {0} /\ BrightnessTop \in Nat
  /\ Len(Rows) \in Nat \ {0} /\ DemoSteps \in Nat \ {0} /\ Len(Intervals) \in Nat \ {0}
  /\ Palettes \in Nat \ {0} /\ Fonts \in Nat \ {0} /\ Sprites \in Nat \ {0}
  /\ Trophies \in Nat \ {0}
<1>1. BrightnessTop \in Nat
  BY ScreensAssumption
<1>. QED
  BY <1>1, Sizes

\* The settings stay settings when one of them is changed in its range.
LEMMA SettingsOn ==
  ASSUME NEW s \in Settings
  PROVE  /\ \A x \in Ids : [s EXCEPT !.boot = x] \in Settings
         /\ \A x \in 0 .. BrightnessTop : [s EXCEPT !.brightness = x] \in Settings
         /\ [s EXCEPT !.dim = ~@] \in Settings
         /\ [s EXCEPT !.saverOff = ~@] \in Settings
         /\ [s EXCEPT !.wifi = ~@] \in Settings
         /\ \A x \in SUBSET (Ids \ Options) : [s EXCEPT !.hidden = x] \in Settings
         /\ \A x \in 0 .. Palettes - 1 : [s EXCEPT !.palette = x] \in Settings
         /\ \A x \in 0 .. Fonts - 1 : [s EXCEPT !.font = x] \in Settings
         /\ \A x \in 0 .. Sprites - 1 : /\ [s EXCEPT !.sprite = x] \in Settings
                                        /\ [s EXCEPT !.sprite = x, !.cycle = 0] \in Settings
         /\ \A i \in 1 .. Len(Intervals) : [s EXCEPT !.cycle = Intervals[i]] \in Settings
BY DEF Settings

\* The defaults are settings.
LEMMA DefaultsAre ==
  Defaults \in Settings /\ Defaults.hidden = {} /\ Defaults.brightness \in 0 .. BrightnessTop
<1>1. /\ 0 \in 0 .. Palettes - 1 /\ 0 \in 0 .. Fonts - 1 /\ 0 \in 0 .. Sprites - 1
      /\ BrightnessTop \in 0 .. BrightnessTop
  BY Starts
<1>2. "avatar" \in Ids /\ {} \in SUBSET (Ids \ Options)
  BY ScreensAssumption
<1>3. Defaults \in Settings
  BY <1>1, <1>2 DEF Defaults, Settings
<1>. QED
  BY <1>1, <1>3 DEF Defaults

\* A badge with an open flow, in its place.
Seated(c) == Shaped(c) /\ c.flow \in Flows /\ Placed(c)

\* Another flow that is no display menu unless that is open.
LEMMA FlowSeats ==
  ASSUME NEW c, Seated(c), NEW f \in Flows, f.kind = c.flow.kind \/ f.kind # "display",
         NEW d, d = [c EXCEPT !.flow = f]
  PROVE  Seated(d) /\ d.flow = f /\ Keeps(c, d, Place)
<1>1. Shaped(d) /\ Keeps(c, d, Place) /\ d.flow = f
  BY DEF Seated, Shaped, Animator, Keeps, Fields, Place
<1>2. c.flow # None
  BY FlowsAre DEF Seated
<1>. QED
  BY <1>1, <1>2, PlacedOn DEF Seated

\* A selection that moves.
LEMMA MovedSeats ==
  ASSUME NEW c, Seated(c), NEW by \in Int, NEW n \in Nat \ {0}, NEW d, d = Moved(c, by, n)
  PROVE  /\ Seated(d) /\ d.flow.kind = c.flow.kind /\ d.flow.at \in 0 .. n - 1
         /\ Keeps(c, d, Place)
<1>1. PICK x : x = Off(c.flow.at, by, n)
  OBVIOUS
<1>2. c.flow \in Flows /\ c.flow.at \in Int
  BY FlowsAre DEF Seated
<1>3. x \in 0 .. n - 1 /\ x \in Int
  <2>1. PICK at \in Int : at = c.flow.at
    BY <1>2
  <2>2. Off(at, by, n) \in 0 .. n - 1
    BY OffIn
  <2>. QED
    BY <2>1, <2>2, <1>1
<1>4. PICK f : f = [c.flow EXCEPT !.at = x]
  OBVIOUS
<1>5. f \in Flows /\ f.kind = c.flow.kind /\ f.at = x
  BY <1>2, <1>3, <1>4 DEF Flows
<1>6. d = [c EXCEPT !.flow = f]
  BY <1>1, <1>4 DEF Moved
<1>. QED
  BY <1>3, <1>5, <1>6, FlowSeats

\* A flow that hears the B.
LEMMA ConfirmedSeats ==
  ASSUME NEW c, Seated(c), NEW P, NEW d, d = Confirmed(c, P)
  PROVE  Seated(d) /\ d.flow.kind = c.flow.kind
<1>0. ("B" \in P) \in BOOLEAN
  OBVIOUS
<1>1. PICK x \in BOOLEAN : x = ("B" \in P)
  BY <1>0, Zenon
<1>2. PICK f : f = [c.flow EXCEPT !.finished = x]
  OBVIOUS
<1>3. f \in Flows /\ f.kind = c.flow.kind
  BY <1>2 DEF Flows, Seated
<1>4. d = [c EXCEPT !.flow = f]
  BY <1>1, <1>2 DEF Confirmed
<1>. QED
  BY <1>3, <1>4, FlowSeats

\* The screen that the badge would start with is one of the list.
LEMMA NextBootIs ==
  ASSUME NEW c, NEW by \in Int
  PROVE  NextBoot(c, by) \in Ids
<1>1. PICK n, i : /\ n = Len(DataList)
                  /\ i = IF Contains(DataList, c.saved.boot) THEN At(DataList, c.saved.boot) - 1
                         ELSE 0
  OBVIOUS
<1>2. n \in Nat \ {0}
  BY <1>1, DataListIs
<1>3. i \in Int
  <2>1. Contains(DataList, c.saved.boot) => At(DataList, c.saved.boot) \in 1 .. n
    BY <1>1 DEF Contains, At
  <2>. QED
    BY <2>1, <1>1, <1>2
<1>4. Off(i, by, n) \in 0 .. n - 1
  BY <1>2, <1>3, OffIn
<1>5. Off(i, by, n) + 1 \in 1 .. n
  BY <1>2, <1>4
<1>6. NextBoot(c, by) = DataList[Off(i, by, n) + 1]
  BY <1>1 DEF NextBoot
<1>. QED
  BY <1>1, <1>5, <1>6, DataListIs

\* Settings that change under an open flow.
LEMMA SavedSeats ==
  ASSUME NEW c, Seated(c), NEW s \in Settings, NEW d, d = [c EXCEPT !.saved = s]
  PROVE  Seated(d) /\ d.screen = c.screen
<1>1. /\ Shaped(d) /\ Keeps(c, d, Place \ {"saved"}) /\ d.flow = c.flow /\ d.saved = s
  BY DEF Seated, Shaped, Animator, Keeps, Fields, Place, Settings, SavedFields
<1>2. /\ d.categories = c.categories /\ d.category = c.category
      /\ d.screen = c.screen /\ d.page = c.page /\ d.panel = c.panel
  BY <1>1 DEF Keeps, Place
<1>. QED
  BY <1>1, <1>2 DEF Seated, Placed, CurrentScreens

\* The defaults come back: no list is lost, and the first screen of each is there.
LEMMA ResetSeats ==
  ASSUME NEW c, Seated(c), c.screen = 0, NEW d, d = ResetDefaults(c)
  PROVE  Seated(d) /\ d.screen = 0
<1>1. PICK M : M = Categories({}) /\ Menu(M)
  BY MenuIs
<1>2. /\ d.saved = Defaults /\ d.categories = M /\ d.panel = Defaults.brightness
      /\ d.category = c.category /\ d.screen = 0 /\ d.page = c.page /\ d.flow = c.flow
  BY <1>1, DefaultsAre DEF ResetDefaults, Seated, Shaped, Fields, Animator
<1>3. Shaped(d)
  BY DEF ResetDefaults, Seated, Shaped, Fields, Animator, AvatarFields, DirectorFields,
     Defaults, SavedFields
<1>4. c.category \in 0 .. Len(c.categories) - 1 /\ Len(c.categories) \in 1 .. Len(M)
  BY <1>1 DEF Seated, Placed, Menu
<1>5. c.category \in 0 .. Len(M) - 1 /\ c.category + 1 \in 1 .. Len(M) /\ Len(M) \in Nat
  BY <1>1, <1>4 DEF Menu
<1>6. 0 \in 0 .. Len(CurrentScreens(d)) - 1
  BY <1>1, <1>2, <1>5 DEF CurrentScreens, Menu
<1>. QED
  BY <1>1, <1>2, <1>3, <1>5, <1>6, DefaultsAre DEF Seated, Placed

\* Left and right on a row of the display menu, which is on the first screen.
LEMMA RowSeats ==
  ASSUME NEW c, Seated(c), c.screen = 0, NEW row \in RowKinds, NEW by \in Int,
         NEW d, d = StepRow(c, row, by)
  PROVE  Seated(d) /\ d.screen = 0
<1>0. c.saved \in Settings /\ c.saved.font \in Int /\ c.saved.brightness \in Int
      /\ BrightnessTop \in Nat /\ Shaped(c)
  <2>1. c.saved \in Settings /\ Shaped(c)
    BY DEF Seated, Placed
  <2>2. c.saved.font \in 0 .. Fonts - 1 /\ c.saved.brightness \in 0 .. BrightnessTop
    BY <2>1 DEF Settings
  <2>. QED
    BY <2>1, <2>2, Starts
<1>1. ASSUME NEW s \in Settings, d = [c EXCEPT !.saved = s]
      PROVE  Seated(d) /\ d.screen = 0
  BY <1>1, SavedSeats
<1>2. ASSUME NEW k \in FlowKinds \ {"display"}, NEW at \in Int, NEW alt \in Int,
             d = [c EXCEPT !.flow = Flow(k, at, alt)]
      PROVE  Seated(d) /\ d.screen = 0
  <2>1. PICK f : f = Flow(k, at, alt)
    OBVIOUS
  <2>2. f \in Flows /\ f.kind # "display"
    BY <2>1 DEF Flow, Flows
  <2>3. Seated(d) /\ Keeps(c, d, Place)
    BY <1>2, <2>1, <2>2, FlowSeats
  <2>. QED
    BY <2>3 DEF Keeps, Place
<1>3. CASE row = "boot"
  <2>1. PICK x \in Ids : x = NextBoot(c, by)
    BY NextBootIs
  <2>2. PICK s : s = [c.saved EXCEPT !.boot = x]
    OBVIOUS
  <2>3. s \in Settings
    BY <2>2, <1>0, SettingsOn
  <2>4. d = [c EXCEPT !.saved = s]
    BY <2>1, <2>2, <1>3 DEF StepRow
  <2>. QED
    BY <2>3, <2>4, <1>1
<1>4. CASE row = "font"
  <2>1. d = [c EXCEPT !.flow = Flow("font", c.saved.font, 0)]
    BY <1>4 DEF StepRow
  <2>. QED
    BY <2>1, <1>0, <1>2 DEF FlowKinds
<1>5. CASE row = "speed"
  <2>1. d = [c EXCEPT !.flow = Flow("speed", 0, 0)]
    BY <1>5 DEF StepRow
  <2>. QED
    BY <2>1, <1>2 DEF FlowKinds
<1>6. CASE row = "brightness"
  <2>1. PICK x : x = Brighter(c.saved.brightness, by)
    OBVIOUS
  <2>2. x \in 0 .. BrightnessTop
    BY <2>1, <1>0 DEF Brighter, MaxOf, MinOf
  <2>3. PICK s : s = [c.saved EXCEPT !.brightness = x]
    OBVIOUS
  <2>4. s \in Settings
    BY <2>2, <2>3, <1>0, SettingsOn
  <2>5. PICK w : w = [c EXCEPT !.saved = s]
    OBVIOUS
  <2>6. d = [w EXCEPT !.panel = x]
    BY <2>1, <2>3, <2>5, <1>6, <1>0 DEF StepRow, Shaped, Fields
  <2>7. Seated(w) /\ w.screen = 0
    BY <2>4, <2>5, SavedSeats
  <2>8. /\ Shaped(d) /\ Keeps(w, d, Place \ {"panel"}) /\ d.flow = w.flow /\ d.panel = x
    BY <2>6, <2>7 DEF Seated, Shaped, Animator, Keeps, Fields, Place
  <2>9. /\ d.saved = w.saved /\ d.categories = w.categories /\ d.category = w.category
        /\ d.screen = w.screen /\ d.page = w.page
    BY <2>8 DEF Keeps, Place
  <2>. QED
    BY <2>2, <2>7, <2>8, <2>9 DEF Seated, Placed, CurrentScreens
<1>7. CASE row = "dim"
  <2>1. PICK s : s = [c.saved EXCEPT !.dim = ~@]
    OBVIOUS
  <2>2. s \in Settings
    BY <2>1, <1>0, SettingsOn
  <2>3. d = [c EXCEPT !.saved = s]
    BY <2>1, <1>7 DEF StepRow
  <2>. QED
    BY <2>2, <2>3, <1>1
<1>8. CASE row = "saver"
  <2>1. PICK s : s = [c.saved EXCEPT !.saverOff = ~@]
    OBVIOUS
  <2>2. s \in Settings
    BY <2>1, <1>0, SettingsOn
  <2>3. d = [c EXCEPT !.saved = s]
    BY <2>1, <1>8 DEF StepRow
  <2>. QED
    BY <2>2, <2>3, <1>1
<1>9. CASE row = "wifi"
  <2>1. PICK s : s = [c.saved EXCEPT !.wifi = ~@]
    OBVIOUS
  <2>2. s \in Settings
    BY <2>1, <1>0, SettingsOn
  <2>3. d = [c EXCEPT !.saved = s]
    BY <2>1, <1>9 DEF StepRow
  <2>. QED
    BY <2>2, <2>3, <1>1
<1>10. CASE row = "demo"
  <2>1. d = [c EXCEPT !.flow = Flow("demo", 0, 1)]
    BY <1>10 DEF StepRow
  <2>. QED
    BY <2>1, <1>2 DEF FlowKinds
<1>11. CASE row = "reset"
  <2>1. d = ResetDefaults(c)
    BY <1>11 DEF StepRow
  <2>. QED
    BY <2>1, ResetSeats
<1>12. CASE row = "about"
  <2>1. d = [c EXCEPT !.flow = Flow("about", 0, 0)]
    BY <1>12 DEF StepRow
  <2>. QED
    BY <2>1, <1>2 DEF FlowKinds
<1>13. CASE row = "other"
  BY <1>13 DEF StepRow
<1>. QED
  BY <1>3, <1>4, <1>5, <1>6, <1>7, <1>8, <1>9, <1>10, <1>11, <1>12, <1>13 DEF RowKinds

\* A press in the display menu.
LEMMA DisplaySeats ==
  ASSUME NEW c, Seated(c), c.flow.kind = "display", NEW P, NEW d, d = DisplayButtons(c, P)
  PROVE  Placed(d)
<1>. DEFINE n == Len(Rows)
            m == Moved(c, Along(P), n)
            row == Rows[m.flow.at + 1]
            l == IF "A" \in P THEN StepRow(m, row, -1) ELSE m
            r == IF "C" \in P THEN StepRow(l, row, 1) ELSE l
<1>0. n \in Nat \ {0} /\ Along(P) \in Int /\ c.flow # None
  BY Starts, Steps, FlowsAre DEF Seated
<1>1. d = IF r.flow.kind = "display" THEN Confirmed(r, P) ELSE r
  BY DEF DisplayButtons
<1>. HIDE DEF n
<1>2. Seated(m) /\ m.flow.at \in 0 .. n - 1 /\ Keeps(c, m, Place)
  BY <1>0, MovedSeats
<1>3. m.screen = 0
  BY <1>0, <1>2 DEF Seated, Placed, Keeps, Place
<1>4. row \in RowKinds
  <2>1. m.flow.at + 1 \in 1 .. n
    BY <1>0, <1>2
  <2>. QED
    BY <2>1, ScreensAssumption DEF RowKinds, n
<1>. HIDE DEF m, row
<1>5. Seated(l) /\ l.screen = 0
  BY <1>2, <1>3, <1>4, RowSeats
<1>. HIDE DEF l
<1>6. Seated(r) /\ r.screen = 0
  BY <1>4, <1>5, RowSeats
<1>. HIDE DEF r
<1>. QED
  BY <1>1, <1>6, ConfirmedSeats DEF Seated

\* A press in the list of screens.
LEMMA ScreensSeats ==
  ASSUME NEW c, Seated(c), NEW P, NEW d, d = ScreensButtons(c, P)
  PROVE  Placed(d)
<1>. DEFINE n == Len(DataList)
            m == Moved(c, Along(P), n)
            t == IF {"A", "C"} \cap P = {} THEN m ELSE Toggle(m, DataList[m.flow.at + 1])
<1>0. n \in Nat \ {0} /\ Along(P) \in Int
  BY DataListIs, Steps
<1>1. d = Confirmed(t, P)
  BY DEF ScreensButtons
<1>. HIDE DEF n
<1>2. Seated(m) /\ m.flow.at \in 0 .. n - 1
  BY <1>0, MovedSeats
<1>3. DataList[m.flow.at + 1] \in Ids \ Options
  <2>1. m.flow.at + 1 \in 1 .. n
    BY <1>0, <1>2
  <2>. QED
    BY <2>1, DataListIs DEF n
<1>. HIDE DEF m
<1>4. Seated(t)
  <2>1. CASE {"A", "C"} \cap P = {}
    BY <2>1, <1>2
  <2>2. CASE {"A", "C"} \cap P # {}
    <3>1. PICK id \in Ids \ Options : id = DataList[m.flow.at + 1]
      BY <1>3
    <3>2. PICK x : x = IF id \in m.saved.hidden THEN m.saved.hidden \ {id}
                       ELSE m.saved.hidden \cup {id}
      OBVIOUS
    <3>3. m.saved \in Settings /\ m.saved.hidden \in SUBSET (Ids \ Options)
      BY <1>2 DEF Seated, Placed, Settings
    <3>4. x \in SUBSET (Ids \ Options)
      BY <3>2, <3>3
    <3>5. PICK s : s = [m.saved EXCEPT !.hidden = x]
      OBVIOUS
    <3>6. s \in Settings
      BY <3>3, <3>4, <3>5, SettingsOn
    <3>7. t = [m EXCEPT !.saved = s]
      BY <2>2, <3>1, <3>2, <3>5 DEF Toggle
    <3>. HIDE DEF t
    <3>. QED
      BY <1>2, <3>6, <3>7, SavedSeats
  <2>. QED
    BY <2>1, <2>2
<1>. HIDE DEF t
<1>. QED
  BY <1>1, <1>4, ConfirmedSeats DEF Seated

\* A press in any open flow.
LEMMA FlowButtonsSeat ==
  ASSUME NEW c, Seated(c), NEW P, NEW d, d = FlowButtons(c, P)
  PROVE  Placed(d)
<1>0. /\ c.flow.kind \in FlowKinds /\ Across(P) \in Int /\ Along(P) \in Int /\ Cycled(P) \in Int
      /\ Across(P) + 5 * Along(P) \in Int /\ c.flow \in Flows
  BY FlowsAre, Steps DEF Seated
<1>1. ASSUME NEW by \in Int, NEW n \in Nat \ {0}, d = Confirmed(Moved(c, by, n), P)
      PROVE  Placed(d)
  <2>1. PICK m : m = Moved(c, by, n)
    OBVIOUS
  <2>2. Seated(m) /\ d = Confirmed(m, P)
    BY <1>1, <2>1, MovedSeats
  <2>. QED
    BY <2>2, ConfirmedSeats DEF Seated
<1>2. CASE c.flow.kind = "display"
  BY <1>2, DisplaySeats DEF FlowButtons
<1>3. CASE c.flow.kind = "screens"
  BY <1>3, ScreensSeats DEF FlowButtons
<1>4. CASE c.flow.kind = "palettes"
  <2>1. d = Confirmed(Moved(c, Cycled(P), Palettes), P)
    BY <1>4 DEF FlowButtons, PaletteButtons
  <2>. QED
    BY <2>1, <1>0, <1>1, Starts
<1>5. CASE c.flow.kind = "font"
  <2>1. d = Confirmed(Moved(c, Cycled(P), Fonts), P)
    BY <1>5 DEF FlowButtons, FontButtons
  <2>. QED
    BY <2>1, <1>0, <1>1, Starts
<1>6. CASE c.flow.kind = "avatar"
  <2>1. PICK m : m = Moved(c, Across(P), Sprites + 1)
    OBVIOUS
  <2>2. Seated(m)
    <3>1. PICK n \in Nat \ {0} : n = Sprites + 1
      BY Starts
    <3>. QED
      BY <2>1, <3>1, <1>0, MovedSeats
  <2>3. PICK t : t = IF m.flow.at # Sprites THEN m
                     ELSE [m EXCEPT !.flow.alt = Off(@ - 1, Along(P), Len(Intervals)) + 1]
    OBVIOUS
  <2>4. d = Confirmed(t, P)
    BY <2>1, <2>3, <1>6 DEF FlowButtons, AvatarButtons
  <2>5. Seated(t)
    <3>1. CASE m.flow.at # Sprites
      BY <3>1, <2>2, <2>3
    <3>2. CASE m.flow.at = Sprites
      <4>1. PICK x : x = Off(m.flow.alt - 1, Along(P), Len(Intervals)) + 1
        OBVIOUS
      <4>2. m.flow \in Flows /\ m.flow.alt \in Int
        BY <2>2 DEF Seated, Flows
      <4>3. x \in Int
        <5>1. PICK y, n : y = m.flow.alt - 1 /\ n = Len(Intervals) /\ n \in Nat \ {0}
          BY Starts
        <5>2. y \in Int
          BY <5>1, <4>2
        <5>3. Off(y, Along(P), n) \in 0 .. n - 1
          BY <5>1, <5>2, <1>0, OffIn
        <5>. QED
          BY <5>1, <5>3, <4>1
      <4>4. PICK f : f = [m.flow EXCEPT !.alt = x]
        OBVIOUS
      <4>5. f \in Flows /\ f.kind = m.flow.kind
        BY <4>2, <4>3, <4>4 DEF Flows
      <4>6. t = [m EXCEPT !.flow = f]
        BY <3>2, <2>3, <4>1, <4>4
      <4>. QED
        BY <2>2, <4>5, <4>6, FlowSeats
    <3>. QED
      BY <3>1, <3>2
  <2>. QED
    BY <2>4, <2>5, ConfirmedSeats DEF Seated
<1>7. CASE c.flow.kind = "speed"
  BY <1>7, ConfirmedSeats DEF FlowButtons, Seated
<1>8. CASE c.flow.kind = "explain"
  <2>1. d = Confirmed(Moved(c, Across(P) + 5 * Along(P), Trophies), P)
    BY <1>8 DEF FlowButtons
  <2>. QED
    BY <2>1, <1>0, <1>1, Starts
<1>9. CASE c.flow.kind \in {"demo", "about"}
  <2>0. (P # {}) \in BOOLEAN
    OBVIOUS
  <2>1. PICK x \in BOOLEAN : x = (P # {})
    BY <2>0, Zenon
  <2>2. PICK f : f = [c.flow EXCEPT !.finished = x]
    OBVIOUS
  <2>3. f \in Flows /\ f.kind = c.flow.kind
    BY <2>2, <1>0 DEF Flows
  <2>4. d = [c EXCEPT !.flow = f]
    BY <2>1, <2>2, <1>9 DEF FlowButtons
  <2>. QED
    BY <2>3, <2>4, FlowSeats DEF Seated
<1>. QED
  BY <1>0, <1>2, <1>3, <1>4, <1>5, <1>6, <1>7, <1>8, <1>9 DEF FlowKinds

\* Showing a screen closes the flow on an index of the menu: where the screen is,
\* or where the badge was.
LEMMA ShowPlaces ==
  ASSUME NEW c, NEW id, NEW d, d = ShowScreen(c, id), Shaped(c), Menu(c.categories),
         c.saved \in Settings, c.panel \in 0 .. BrightnessTop,
         \/ /\ c.category \in 0 .. Len(c.categories) - 1
            /\ c.screen \in 0 .. Len(CurrentScreens(c)) - 1
         \/ \E k \in 1 .. Len(c.categories) : Contains(c.categories[k], id)
  PROVE  Placed(d)
<1>. DEFINE there == {k \in 1 .. Len(c.categories) : Contains(c.categories[k], id)}
            k == CHOOSE k \in there : TRUE
            shut == [c EXCEPT !.flow = None, !.page = 0]
<1>1. /\ d.flow = None /\ d.page = 0 /\ d.saved = c.saved /\ d.categories = c.categories
      /\ d.panel = c.panel
  BY DEF ShowScreen, Shaped, Fields
<1>2. CASE there = {}
  <2>1. d = shut
    BY <1>2 DEF ShowScreen
  <2>2. d.category = c.category /\ d.screen = c.screen
    BY <2>1 DEF Shaped, Fields
  <2>. QED
    BY <1>1, <1>2, <2>2, Starts DEF Placed, CurrentScreens
<1>3. CASE there # {}
  <2>1. k \in there
    BY <1>3
  <2>2. PICK x, i : x = k /\ i = At(c.categories[k], id)
    OBVIOUS
  <2>3. /\ x \in 1 .. Len(c.categories) /\ i \in 1 .. Len(c.categories[x])
    BY <2>1, <2>2 DEF At, Contains
  <2>4. d = [shut EXCEPT !.category = x - 1, !.screen = i - 1]
    BY <1>3, <2>2 DEF ShowScreen
  <2>5. d.category = x - 1 /\ d.screen = i - 1
    BY <2>4 DEF Shaped, Fields
  <2>6. x - 1 + 1 = x /\ Len(c.categories) \in Nat /\ Len(c.categories[x]) \in Nat
    BY <2>3 DEF Menu
  <2>. QED
    BY <1>1, <2>3, <2>5, <2>6, Starts DEF Placed, CurrentScreens
<1>. QED
  BY <1>2, <1>3

\* A flow that ends leaves settings, and the badge on an index of its menu.
LEMMA FinishPlaces ==
  ASSUME NEW c, Seated(c), InFlow(c), NEW d,
         d = [OnFinish(c) EXCEPT !.flow = None, !.dimmed = None, !.dirty = TRUE]
  PROVE  Placed(d)
<1>0. /\ c.flow.kind \in FlowKinds /\ c.flow.at \in Int /\ c.saved \in Settings /\ Shaped(c)
      /\ Placed(c)
  BY FlowsAre DEF Seated, Placed
<1>. DEFINE e == OnFinish(c)
<1>1. ASSUME NEW f, Keeps(f, d, Place), d.flow = None, Placed(f)
      PROVE  Placed(d)
  BY <1>1, PlacedOn
<1>2. ASSUME Shaped(e) PROVE Keeps(e, d, Place) /\ d.flow = None
  BY <1>2 DEF Shaped, Keeps, Fields, Place
<1>3. ASSUME NEW s \in Settings, Shaped(e), e.saved = s, Keeps(c, e, Place \ {"saved"})
      PROVE  Placed(d)
  <2>1. /\ d.saved = s /\ d.categories = c.categories /\ d.category = c.category
        /\ d.screen = c.screen /\ d.page = c.page /\ d.panel = c.panel /\ d.flow = None
    BY <1>2, <1>3 DEF Keeps, Place
  <2>. QED
    BY <2>1, <1>0 DEF Placed, CurrentScreens
<1>4. CASE c.flow.kind = "screens"
  <2>1. PICK M : M = Categories(c.saved.hidden)
    OBVIOUS
  <2>2. Menu(M)
    BY <2>1, <1>0, MenuIs DEF Settings
  <2>3. PICK f : f = [c EXCEPT !.categories = M]
    OBVIOUS
  <2>4. /\ Shaped(f) /\ f.categories = M /\ f.saved = c.saved /\ f.panel = c.panel
    BY <2>3, <1>0 DEF Shaped, Animator, Fields
  <2>5. e = ShowScreen(f, "options_screens")
    BY <1>4, <2>1, <2>3 DEF OnFinish
  <2>. HIDE DEF e
  <2>6. Shaped(e) /\ e.flow = None
    BY <2>4, <2>5, ShowScreenKeeps
  <2>7. Placed(e)
    <3>1. \E k \in 1 .. Len(f.categories) : Contains(f.categories[k], "options_screens")
      BY <2>2, <2>4 DEF Menu
    <3>2. Menu(f.categories) /\ f.saved \in Settings /\ f.panel \in 0 .. BrightnessTop
      BY <2>2, <2>4, <1>0 DEF Placed
    <3>. QED
      BY <3>1, <3>2, <2>4, <2>5, ShowPlaces
  <2>. QED
    BY <2>6, <2>7, <1>1, <1>2
<1>5. CASE c.flow.kind = "palettes"
  <2>1. PICK s : s = [c.saved EXCEPT !.palette = c.flow.at]
    OBVIOUS
  <2>2. s \in Settings
    BY <2>1, <1>0, <1>5, SettingsOn DEF InFlow, InRange
  <2>3. e = [c EXCEPT !.saved = s, !.theme = c.flow.at]
    BY <1>5, <2>1, <1>0 DEF OnFinish, Shaped, Fields
  <2>4. /\ e.saved = s /\ Keeps(c, e, Place \ {"saved"}) /\ Shaped(e)
    BY <2>2, <2>3, <1>0 DEF Shaped, Animator, Keeps, Fields, Place, Settings, SavedFields
  <2>. QED
    BY <2>2, <2>4, <1>3
<1>6. CASE c.flow.kind = "font"
  <2>1. PICK s : s = [c.saved EXCEPT !.font = c.flow.at]
    OBVIOUS
  <2>2. s \in Settings
    BY <2>1, <1>0, <1>6, SettingsOn DEF InFlow, InRange
  <2>3. e = [c EXCEPT !.saved = s, !.scale = c.flow.at]
    BY <1>6, <2>1, <1>0 DEF OnFinish, Shaped, Fields
  <2>4. /\ e.saved = s /\ Keeps(c, e, Place \ {"saved"}) /\ Shaped(e)
    BY <2>2, <2>3, <1>0 DEF Shaped, Animator, Keeps, Fields, Place, Settings, SavedFields
  <2>. QED
    BY <2>2, <2>4, <1>3
<1>7. CASE c.flow.kind = "avatar" /\ c.flow.at = Sprites
  <2>1. PICK i, s : i = c.flow.alt /\ s = [c.saved EXCEPT !.cycle = Intervals[i]]
    OBVIOUS
  <2>2. i \in 1 .. Len(Intervals)
    BY <2>1, <1>7 DEF InFlow, InRange
  <2>3. s \in Settings
    BY <2>1, <2>2, <1>0, SettingsOn
  <2>4. e = [c EXCEPT !.saved = s, !.cycled = 0]
    BY <1>7, <2>1, <1>0 DEF OnFinish, Shaped, Fields
  <2>5. /\ e.saved = s /\ Keeps(c, e, Place \ {"saved"}) /\ Shaped(e)
    BY <2>3, <2>4, <1>0 DEF Shaped, Animator, Keeps, Fields, Place, Settings, SavedFields
  <2>. QED
    BY <2>3, <2>5, <1>3
<1>8. CASE c.flow.kind = "avatar" /\ c.flow.at # Sprites
  <2>1. c.flow.at \in 0 .. Sprites - 1
    BY <1>8, <1>0, Starts DEF InFlow, InRange
  <2>2. PICK x, s : x = c.flow.at /\ s = [c.saved EXCEPT !.sprite = x, !.cycle = 0]
    OBVIOUS
  <2>3. s \in Settings
    BY <2>1, <2>2, <1>0, SettingsOn
  <2>4. PICK a : a = [c.avatar EXCEPT !.sprite = x]
    OBVIOUS
  <2>5. e = [c EXCEPT !.saved = s, !.avatar = a]
    BY <1>8, <2>2, <2>4, <1>0 DEF OnFinish, Shaped, Fields
  <2>6. Animator(a)
    BY <2>4, <1>0 DEF Shaped, Animator, AvatarFields
  <2>7. /\ e.saved = s /\ Keeps(c, e, Place \ {"saved"}) /\ Shaped(e)
    BY <2>3, <2>5, <2>6, <1>0 DEF Shaped, Keeps, Fields, Place, Settings, SavedFields
  <2>. QED
    BY <2>3, <2>7, <1>3
<1>9. CASE c.flow.kind \in {"display", "speed", "demo", "about", "explain"}
  <2>1. e = c
    BY <1>9 DEF OnFinish
  <2>. QED
    BY <2>1, <1>0, <1>1, <1>2
<1>. QED
  BY <1>0, <1>4, <1>5, <1>6, <1>7, <1>8, <1>9 DEF FlowKinds

\* Where a placed badge is in its menu.
LEMMA IndicesIn ==
  ASSUME NEW c, Placed(c)
  PROVE  /\ Len(c.categories) \in Nat \ {0} /\ c.category \in Int /\ c.screen \in Int
         /\ c.category + 1 \in 1 .. Len(c.categories)
         /\ Len(CurrentScreens(c)) \in Nat \ {0}
         /\ c.screen + 1 \in 1 .. Len(CurrentScreens(c))
<1>1. Menu(c.categories) /\ c.category \in 0 .. Len(c.categories) - 1
  BY DEF Placed
<1>2. PICK n : n = Len(c.categories)
  OBVIOUS
<1>3. n \in Nat \ {0}
  BY <1>1, <1>2 DEF Menu
<1>4. c.category \in Int /\ c.category + 1 \in 1 .. n
  BY <1>1, <1>2, <1>3
<1>5. PICK k, m : k = c.category + 1 /\ m = Len(CurrentScreens(c))
  OBVIOUS
<1>6. m \in Nat \ {0}
  <2>1. m = Len(c.categories[k]) /\ k \in 1 .. n
    BY <1>4, <1>5 DEF CurrentScreens
  <2>. QED
    BY <2>1, <1>1, <1>2 DEF Menu
<1>7. c.screen \in 0 .. m - 1
  BY <1>5 DEF Placed
<1>8. c.screen \in Int /\ c.screen + 1 \in 1 .. m
  BY <1>6, <1>7
<1>. QED
  BY <1>2, <1>3, <1>4, <1>5, <1>6, <1>8

\* Turning and stepping end on a screen of the menu.
LEMMA NavigationPlaces ==
  ASSUME NEW c, Shaped(c), Placed(c), c.flow = None, NEW by \in Int
  PROVE  /\ Shaped(Turn(c, by)) /\ Placed(Turn(c, by)) /\ Turn(c, by).flow = None
         /\ Shaped(Step(c, by)) /\ Placed(Step(c, by)) /\ Step(c, by).flow = None
<1>1. /\ Len(c.categories) \in Nat \ {0} /\ c.category + 1 \in 1 .. Len(c.categories)
      /\ Len(CurrentScreens(c)) \in Nat \ {0} /\ c.screen \in Int /\ c.category \in Int
  BY IndicesIn
<1>2. PICK t, n, x : t = Turn(c, by) /\ n = Len(c.categories) /\ x = Off(c.category, by, n)
  OBVIOUS
<1>3. x \in 0 .. n - 1 /\ n \in Nat \ {0} /\ x + 1 \in 1 .. n
  <2>1. x \in 0 .. n - 1
    BY <1>1, <1>2, OffIn
  <2>. QED
    BY <1>1, <1>2, <2>1
<1>4. t = [c EXCEPT !.category = x, !.screen = 0, !.page = 0]
  BY <1>2 DEF Turn
<1>5. /\ Shaped(t) /\ t.saved = c.saved /\ t.categories = c.categories /\ t.panel = c.panel
      /\ t.flow = None /\ t.category = x /\ t.screen = 0 /\ t.page = 0
  BY <1>4 DEF Shaped, Animator, Fields
<1>6. Len(c.categories[x + 1]) \in Nat \ {0}
  BY <1>2, <1>3 DEF Placed, Menu
<1>7. Placed(t)
  BY <1>2, <1>3, <1>5, <1>6, Starts DEF Placed, CurrentScreens
<1>8. PICK s, m, y : s = Step(c, by) /\ m = Len(CurrentScreens(c)) /\ y = Off(c.screen, by, m)
  OBVIOUS
<1>9. y \in 0 .. m - 1
  BY <1>1, <1>8, OffIn
<1>10. s = [c EXCEPT !.screen = y, !.page = 0]
  BY <1>8 DEF Step
<1>11. /\ Shaped(s) /\ s.saved = c.saved /\ s.categories = c.categories /\ s.panel = c.panel
       /\ s.flow = None /\ s.category = c.category /\ s.screen = y /\ s.page = 0
  BY <1>10 DEF Shaped, Animator, Fields
<1>12. Placed(s)
  BY <1>8, <1>9, <1>11, Starts DEF Placed, CurrentScreens
<1>. QED
  BY <1>2, <1>5, <1>7, <1>8, <1>11, <1>12

\* The B outside every flow: the display menu opens on the first screen of its
\* category, where its screen is.
LEMMA PressBPlaces ==
  ASSUME NEW c, Shaped(c), Placed(c), c.flow = None, NEW d, d = PressB(c)
  PROVE  Placed(d)
<1>1. CASE CurrentScreen(c) = "avatar" /\ c.onBattery
  <2>1. Keeps(c, d, Place) /\ d.flow = None
    BY <1>1 DEF PressB, Shaped, Keeps, Fields, Place
  <2>. QED
    BY <2>1, PlacedOn
<1>2. CASE /\ ~(CurrentScreen(c) = "avatar" /\ c.onBattery)
           /\ CurrentScreen(c) = "projects" /\ ProjectPages > 1
  <2>1. PICK x : x = Off(c.page, 1, ProjectPages)
    OBVIOUS
  <2>2. x \in 0 .. ProjectPages - 1
    <3>1. PICK n, by : n = ProjectPages /\ by = 1
      OBVIOUS
    <3>2. n \in Nat \ {0} /\ by \in Int /\ c.page \in Int
      BY <3>1, Starts DEF Placed
    <3>. QED
      BY <2>1, <3>1, <3>2, OffIn
  <2>3. d = [c EXCEPT !.page = x, !.dirty = TRUE]
    BY <1>2, <2>1 DEF PressB
  <2>4. /\ d.saved = c.saved /\ d.categories = c.categories /\ d.category = c.category
        /\ d.screen = c.screen /\ d.page = x /\ d.panel = c.panel /\ d.flow = None
    BY <2>3 DEF Shaped, Fields
  <2>. QED
    BY <2>2, <2>4 DEF Placed, CurrentScreens
<1>3. CASE /\ ~(CurrentScreen(c) = "avatar" /\ c.onBattery)
           /\ ~(CurrentScreen(c) = "projects" /\ ProjectPages > 1)
  <2>1. CASE Opened(c) = None
    BY <1>3, <2>1 DEF PressB
  <2>2. CASE Opened(c) # None
    <3>1. PICK f : f = Opened(c)
      OBVIOUS
    <3>2. d = [c EXCEPT !.flow = f, !.dirty = TRUE]
      BY <1>3, <2>2, <3>1 DEF PressB
    <3>3. Keeps(c, d, Place) /\ d.flow = f /\ d.screen = c.screen
      BY <3>2 DEF Shaped, Keeps, Fields, Place
    <3>4. CASE CurrentScreen(c) = "options_display"
      <4>1. /\ c.category + 1 \in 1 .. Len(c.categories)
            /\ c.screen + 1 \in 1 .. Len(c.categories[c.category + 1]) /\ c.screen \in Int
        BY IndicesIn DEF CurrentScreens
      <4>2. c.categories[c.category + 1][c.screen + 1] = "options_display"
        BY <3>4 DEF CurrentScreen, CurrentScreens
      <4>3. c.screen + 1 = 1
        BY <4>1, <4>2 DEF Placed, Menu
      <4>4. d.screen = 0
        BY <3>3, <4>1, <4>3
      <4>5. /\ d.saved = c.saved /\ d.categories = c.categories /\ d.category = c.category
            /\ d.page = c.page /\ d.panel = c.panel /\ d.screen = c.screen
        BY <3>3 DEF Keeps, Place
      <4>. QED
        BY <4>4, <4>5 DEF Placed, CurrentScreens
    <3>5. CASE CurrentScreen(c) # "options_display"
      <4>1. f.kind # "display"
        BY <3>1, <3>5, <2>2 DEF Opened, AvatarFlow, Flow
      <4>. QED
        BY <3>3, <4>1, PlacedOn
    <3>. QED
      BY <3>4, <3>5
  <2>. QED
    BY <2>1, <2>2
<1>. QED
  BY <1>1, <1>2, <1>3

\* The buttons of a pass.
LEMMA HandlePlaces ==
  ASSUME NEW c, Sound(c), Placed(c), NEW P, NEW d, d = HandleButtons(c, P)
  PROVE  Placed(d)
<1>0. Shaped(c) /\ -1 \in Int /\ 1 \in Int
  BY DEF Sound
<1>1. CASE c.flow = None
  <2>. DEFINE u == IF "UP" \in P THEN Turn(c, -1) ELSE c
              w == IF "DOWN" \in P THEN Turn(u, 1) ELSE u
              l == IF "A" \in P THEN Step(w, -1) ELSE w
              r == IF "C" \in P THEN Step(l, 1) ELSE l
              m == [r EXCEPT !.dirty = @ \/ {"UP", "DOWN", "A", "C"} \cap P # {}]
  <2>1. d = IF "B" \in P THEN PressB(m) ELSE m
    BY <1>1 DEF HandleButtons, NavigationButtons
  <2>2. Shaped(u) /\ Placed(u) /\ u.flow = None
    BY <1>0, <1>1, NavigationPlaces
  <2>. HIDE DEF u
  <2>3. Shaped(w) /\ Placed(w) /\ w.flow = None
    BY <1>0, <2>2, NavigationPlaces
  <2>. HIDE DEF w
  <2>4. Shaped(l) /\ Placed(l) /\ l.flow = None
    BY <1>0, <2>3, NavigationPlaces
  <2>. HIDE DEF l
  <2>5. Shaped(r) /\ Placed(r) /\ r.flow = None
    BY <1>0, <2>4, NavigationPlaces
  <2>. HIDE DEF r
  <2>6. Shaped(m) /\ Keeps(r, m, Place) /\ m.flow = None
    BY <2>5 DEF Shaped, Animator, Keeps, Fields, Place
  <2>. HIDE DEF m
  <2>7. Placed(m)
    BY <2>5, <2>6, PlacedOn
  <2>. QED
    BY <2>1, <2>6, <2>7, PressBPlaces
<1>2. CASE c.flow # None
  <2>. DEFINE f == FlowButtons(c, P)
  <2>1. InFlow(c) /\ Seated(c) /\ Live(c)
    BY <1>2 DEF Sound, Seated, InFlow
  <2>2. Placed(f)
    BY <2>1, FlowButtonsSeat
  <2>3. Pressed(c, f, P)
    BY <1>2, <2>1, <1>0, FlowButtonsKeep
  <2>4. d = IF ~f.flow.finished THEN [f EXCEPT !.dirty = @ \/ Heard(c, P)]
            ELSE [OnFinish(f) EXCEPT !.flow = None, !.dimmed = None, !.dirty = TRUE]
    BY <1>2 DEF HandleButtons
  <2>. HIDE DEF f
  <2>5. Shaped(f) /\ InFlow(f) /\ Seated(f) /\ f.flow # None
    BY <2>2, <2>3, FlowsAre DEF Pressed, InFlow, Seated
  <2>6. CASE ~f.flow.finished
    <3>1. d = [f EXCEPT !.dirty = @ \/ Heard(c, P)]
      BY <2>4, <2>6
    <3>2. Keeps(f, d, Place) /\ d.flow = f.flow
      BY <3>1, <2>5 DEF Shaped, Keeps, Fields, Place
    <3>. QED
      BY <3>2, <2>2, <2>5, PlacedOn
  <2>7. CASE f.flow.finished
    <3>1. d = [OnFinish(f) EXCEPT !.flow = None, !.dimmed = None, !.dirty = TRUE]
      BY <2>4, <2>7
    <3>. QED
      BY <3>1, <2>5, FinishPlaces
  <2>. QED
    BY <2>6, <2>7
<1>. QED
  BY <1>1, <1>2

\* The backlight is as bright as the settings can ask for.
LEMMA BacklightPlaces ==
  ASSUME NEW c, Sound(c), Placed(c), NEW e, NEW d, d = UpdateBacklight(c, e)
  PROVE  Placed(d)
<1>1. CASE d = c
  BY <1>1
<1>2. CASE d # c
  <2>1. PICK now : now = (c.saved.dim /\ ~e.usb)
    OBVIOUS
  <2>2. d = [c EXCEPT !.dimmed = now, !.panel = Panel(c, now)]
    BY <1>2, <2>1 DEF UpdateBacklight
  <2>3. /\ d.saved = c.saved /\ d.categories = c.categories /\ d.category = c.category
        /\ d.screen = c.screen /\ d.page = c.page /\ d.flow = c.flow /\ d.panel = Panel(c, now)
    BY <2>2 DEF Sound, Shaped, Fields
  <2>4. c.saved.brightness \in 0 .. BrightnessTop
    BY DEF Placed, Settings
  <2>5. d.panel \in 0 .. BrightnessTop
    BY <2>3, <2>4, Starts DEF Panel
  <2>. QED
    BY <2>3, <2>5 DEF Placed, CurrentScreens
<1>. QED
  BY <1>1, <1>2

\* A celebration that jumps shows the avatar's screen, if it is in the menu.
LEMMA AvatarPlaces ==
  ASSUME NEW c, Sound(c), Placed(c), NEW e, NEW d, d = UpdateAvatar(c, e)
  PROVE  Placed(d)
<1>1. PICK x, a : x = (c.onBattery /\ ~c.liveOn) /\ a = Heeds(c.avatar, x, e.online, c.payload)
  OBVIOUS
<1>2. PICK q, f : q = [a EXCEPT !.jump = FALSE, !.redraw = FALSE] /\ f = [c EXCEPT !.avatar = q]
  OBVIOUS
<1>3. d = IF a.jump
          THEN [ShowScreen(f, "avatar") EXCEPT
                  !.dirty = TRUE,
                  !.dropped = IF c.flow = None THEN @ ELSE @ \cup {c.flow.kind}]
          ELSE [f EXCEPT !.dirty = @ \/ (a.redraw /\ CurrentScreen(c) = "avatar")]
  BY <1>1, <1>2 DEF UpdateAvatar, Heeds
<1>4. Animator(a)
  BY <1>1, HeedsKeeps DEF Sound, Shaped
<1>5. Shaped(f) /\ Keeps(c, f, Place) /\ f.flow = c.flow
  <2>1. Animator(q)
    BY <1>2, <1>4 DEF Animator
  <2>. QED
    BY <2>1, <1>2 DEF Sound, Shaped, Keeps, Fields, Place
<1>6. Placed(f)
  BY <1>5, PlacedOn
<1>7. CASE a.jump
  <2>1. PICK s : s = ShowScreen(f, "avatar")
    OBVIOUS
  <2>2. Shaped(s) /\ s.flow = None
    BY <2>1, <1>5, ShowScreenKeeps
  <2>3. Placed(s)
    BY <2>1, <1>5, <1>6, ShowPlaces DEF Placed
  <2>4. PICK dropped : dropped = IF c.flow = None THEN s.dropped
                                 ELSE s.dropped \cup {c.flow.kind}
    OBVIOUS
  <2>5. d = [s EXCEPT !.dirty = TRUE, !.dropped = dropped]
    BY <1>3, <1>7, <2>1, <2>2, <2>4 DEF Shaped, Fields
  <2>6. Keeps(s, d, Place) /\ d.flow = None
    BY <2>2, <2>5 DEF Shaped, Keeps, Fields, Place
  <2>. QED
    BY <2>3, <2>6, PlacedOn
<1>8. CASE ~a.jump
  <2>1. Keeps(f, d, Place) /\ d.flow = f.flow
    BY <1>3, <1>5, <1>8 DEF Shaped, Keeps, Fields, Place
  <2>. QED
    BY <2>1, <1>6, PlacedOn
<1>. QED
  BY <1>7, <1>8

\* The sprite that comes next is one of the sprites.
LEMMA AutoCyclePlaces ==
  ASSUME NEW c, Sound(c), Placed(c), NEW d, d = AutoCycle(c)
  PROVE  Placed(d)
<1>1. CASE c.saved.cycle = 0 \/ c.cycled < c.saved.cycle
  BY <1>1 DEF AutoCycle
<1>2. CASE ~(c.saved.cycle = 0 \/ c.cycled < c.saved.cycle)
  <2>1. PICK x, n, by, y : /\ x = Off(y, by, n) /\ n = Sprites /\ by = 1
                           /\ y = c.avatar.sprite
    OBVIOUS
  <2>2. x \in 0 .. Sprites - 1
    <3>1. n \in Nat \ {0} /\ by \in Int /\ y \in Int
      BY <2>1, Starts DEF Sound, Live
    <3>. QED
      BY <2>1, <3>1, OffIn
  <2>3. PICK s, a, again : /\ s = [c.saved EXCEPT !.sprite = x]
                           /\ a = [c.avatar EXCEPT !.sprite = x]
                           /\ again = (c.dirty \/ (CurrentScreen(c) = "avatar" /\ c.flow = None))
    OBVIOUS
  <2>4. s \in Settings
    BY <2>2, <2>3, SettingsOn DEF Placed
  <2>5. d = [c EXCEPT !.cycled = 0, !.avatar = a, !.saved = s, !.dirty = again]
    BY <1>2, <2>1, <2>3 DEF AutoCycle, Sound, Shaped, Fields
  <2>6. /\ d.saved = s /\ d.categories = c.categories /\ d.category = c.category
        /\ d.screen = c.screen /\ d.page = c.page /\ d.flow = c.flow /\ d.panel = c.panel
    BY <2>5 DEF Sound, Shaped, Fields
  <2>. QED
    BY <2>4, <2>6 DEF Placed, CurrentScreens
<1>. QED
  BY <1>1, <1>2

\* The repaint moves nothing but the demo.
LEMMA PaintPlaces ==
  ASSUME NEW c, Sound(c), c.dirty \/ Noted(c), Placed(c), NEW e, NEW dt, NEW d, d = Paint(c, e, dt)
  PROVE  Placed(d)
<1>1. Painted(c, d, e)
  BY PaintKeeps
<1>2. Keeps(c, d, Place) /\ (c.flow = None <=> d.flow = None) /\ (c.dirty => d.flow = c.flow)
  BY <1>1 DEF Painted, Keeps, Fields, Place
<1>3. CASE c.dirty \/ c.flow = None
  BY <1>2, <1>3, PlacedOn
<1>4. CASE ~c.dirty /\ c.flow # None
  <2>1. CASE c.flow.kind = "demo" /\ dt = 1
    <3>1. PICK f : f = [c.flow EXCEPT !.at = Off(c.flow.at, 1, DemoSteps)]
      OBVIOUS
    <3>2. c.flow \in Flows
      BY <1>4 DEF Sound, InFlow
    <3>3. f.kind = "demo"
      BY <3>1, <3>2, <2>1 DEF Flows
    <3>4. PICK m : m = [c EXCEPT !.flow = f]
      OBVIOUS
    <3>5. d = Draw(m, e)
      BY <1>4, <2>1, <3>1, <3>4 DEF Paint, Moved
    <3>6. DOMAIN m = Fields /\ m.flow = f
      BY <3>4 DEF Sound, Shaped, Fields
    <3>7. d.flow = f
      BY <3>5, <3>6 DEF Draw, Fields
    <3>. QED
      BY <1>2, <3>3, <3>7, PlacedOn
  <2>2. CASE ~(c.flow.kind = "demo" /\ dt = 1)
    <3>1. d = c
      BY <1>4, <2>2 DEF Paint
    <3>. QED
      BY <3>1
  <2>. QED
    BY <2>1, <2>2
<1>. QED
  BY <1>3, <1>4

\* A whole pass, every step in the order of the loop.
LEMMA PassPlaces ==
  ASSUME NEW c, Sound(c), Noted(c), Placed(c), NEW e, NEW P, NEW feed, NEW dt,
         NEW d, d = RestOfPass(c, e, P, feed, dt), Feeds(c.payload, feed)
  PROVE  Placed(d) /\ d.gauge = c.gauge
<1>. DEFINE l == UpdateBacklight(c, e)
            h == HandleButtons(l, P)
            r == RefreshFeeds(h, e, feed)
            t == Tick(r, dt)
            u == UpdateAvatar(t, e)
            m == AutoCycle(u)
            w == Paint(m, e, dt)
<1>0. /\ Carries(c, m) /\ Keeps(c, m, Kept \ {"onBattery", "payload", "dropped"})
  BY BeforePaintKeeps DEF BeforePaint
<1>1. d = PaintFooter(w, e)
  BY DEF RestOfPass
<1>2. Sound(l) /\ Placed(l) /\ l.payload = c.payload
  BY BacklightKeeps, BacklightPlaces DEF Carries, Keeps, Fields
<1>. HIDE DEF l
<1>3. Sound(h) /\ Placed(h) /\ h.payload = c.payload
  BY <1>2, HandleCarries, HandlePlaces DEF Carries, Keeps, Kept
<1>. HIDE DEF h
<1>4. Sound(r) /\ Placed(r)
  <2>1. Carries(h, r) /\ Keeps(h, r, Fields \ {"onBattery", "payload", "dirty"})
    BY <1>3, RefreshKeeps
  <2>2. Keeps(h, r, Place) /\ r.flow = h.flow
    BY <2>1 DEF Keeps, Fields, Place
  <2>. QED
    BY <2>1, <2>2, <1>3, PlacedOn DEF Carries
<1>. HIDE DEF r
<1>5. Sound(t) /\ Placed(t)
  <2>1. Carries(r, t) /\ Keeps(r, t, Fields \ {"dirty"})
    BY <1>4, TickKeeps
  <2>2. Keeps(r, t, Place) /\ t.flow = r.flow
    BY <2>1 DEF Keeps, Fields, Place
  <2>. QED
    BY <2>1, <2>2, <1>4, PlacedOn DEF Carries
<1>. HIDE DEF t
<1>6. Sound(u) /\ Placed(u)
  BY <1>5, AvatarUpdates, AvatarPlaces DEF Carries
<1>. HIDE DEF u
<1>7. Placed(m)
  BY <1>6, AutoCyclePlaces
<1>. HIDE DEF m
<1>8. /\ Sound(m) /\ (m.dirty \/ Noted(m)) /\ m.gauge = c.gauge
  <2>1. /\ Sound(m) /\ m.footer = c.footer /\ m.noted = c.noted /\ m.swept = c.swept
        /\ m.dirty \/ (m.flow = None <=> c.flow = None)
        /\ m.gauge = c.gauge
    BY <1>0 DEF Carries, SamePicture, Keeps, Kept
  <2>. QED
    BY <2>1 DEF Noted
<1>9. Placed(w) /\ Painted(m, w, e)
  BY <1>7, <1>8, PaintPlaces, PaintKeeps
<1>. HIDE DEF w
<1>10. Sound(w) /\ Noted(w) /\ w.gauge = m.gauge
  BY <1>9 DEF Painted, Keeps, Fields
<1>11. /\ Keeps(w, d, Fields \ {"footer", "noted", "beat", "swept", "blinked"})
  BY <1>1, <1>10, FooterKeeps
<1>12. Keeps(w, d, Place) /\ d.flow = w.flow /\ d.gauge = w.gauge
  BY <1>11 DEF Keeps, Fields, Place
<1>. QED
  BY <1>8, <1>9, <1>10, <1>12, PlacedOn

-----------------------------------------------------------------------------
\* The rest of the type invariant.

\* The gauge shows one of its levels.
GaugeFields == {"samples", "cells", "latched", "signal"}
Metered(g) == DOMAIN g = GaugeFields /\ g.cells \in 0 .. Full

\* There is a highest level that a median reaches.
LEMMA LevelIs ==
  ASSUME NEW x
  PROVE  Level(x) \in 0 .. Full /\ Full \in Nat
<1>0. Full \in Nat
  BY PowerAssumption DEF Full
<1>1. PICK R : R = {n \in 1 .. Full : x >= 2 * Entry[n]}
  OBVIOUS
<1>2. R \in SUBSET (1 .. Full)
  BY <1>1
<1>3. CASE R = {}
  BY <1>0, <1>1, <1>3 DEF Level
<1>4. CASE R # {}
  <2>. DEFINE Below == {k \in Nat : Full - k \in R}
  <2>1. Below # {}
    <3>1. PICK n \in R : TRUE
      BY <1>4
    <3>2. n \in Int /\ Full - n \in Nat /\ Full - (Full - n) = n
      BY <3>1, <1>0, <1>2
    <3>3. Full - n \in Below
      BY <3>1, <3>2
    <3>. QED
      BY <3>3
  <2>2. PICK k \in Below : \A j \in Below : k <= j
    BY <2>1, LeastNumber
  <2>3. ASSUME NEW m \in R PROVE m <= Full - k
    <3>1. m \in Int /\ Full - m \in Nat /\ Full - (Full - m) = m
      BY <1>0, <1>2
    <3>2. Full - m \in Below
      BY <3>1
    <3>3. k <= Full - m /\ k \in Nat
      BY <2>2, <3>2
    <3>. QED
      BY <3>1, <3>3, <1>0
  <2>4. \E n \in R : \A m \in R : m <= n
    BY <2>2, <2>3
  <2>5. PICK top : top = CHOOSE n \in R : \A m \in R : m <= n
    OBVIOUS
  <2>6. top \in R
    BY <2>4, <2>5
  <2>7. Level(x) = top
    BY <1>1, <1>4, <2>5 DEF Level
  <2>. QED
    BY <2>6, <2>7, <1>0, <1>2
<1>. QED
  BY <1>3, <1>4

\* A sample moves the gauge to one of its levels, from no level at first.
LEMMA SampleMeters ==
  ASSUME NEW g, DOMAIN g = GaugeFields, g.cells = None \/ g.cells \in 0 .. Full,
         NEW volts, NEW rssi, NEW r, r = Sample(g, volts, rssi)
  PROVE  Metered(r)
<1>1. PICK s, z, h : h = [g EXCEPT !.samples = s, !.signal = z] /\ r = Recompute(h)
  BY DEF Sample
<1>2. DOMAIN h = GaugeFields /\ h.cells = g.cells
  BY <1>1 DEF GaugeFields
<1>3. PICK median2, target : median2 = Doubled(h.samples) /\ target = Level(median2)
  OBVIOUS
<1>4. target \in 0 .. Full /\ Full \in Nat
  BY <1>3, LevelIs
<1>5. PICK cells :
        cells = CASE h.cells = None \/ (h.cells # None /\ target < h.cells) -> target
                  [] h.cells # None /\ target > h.cells
                       /\ median2 >= 2 * (Entry[h.cells + 1] + Hysteresis) -> h.cells + 1
                  [] OTHER -> h.cells
  OBVIOUS
<1>6. PICK latched : latched = (h.latched \/ cells = 0)
  OBVIOUS
<1>7. r = [h EXCEPT !.cells = cells, !.latched = latched]
  BY <1>1, <1>2, <1>3, <1>5, <1>6 DEF Recompute, GaugeFields
<1>8. cells \in 0 .. Full
  <2>1. CASE h.cells = None
    BY <2>1, <1>4, <1>5
  <2>2. CASE h.cells # None
    <3>1. h.cells \in 0 .. Full
      BY <2>2, <1>2
    <3>2. cells = target \/ (target > h.cells /\ cells = h.cells + 1) \/ cells = h.cells
      BY <2>2, <1>5
    <3>. QED
      BY <3>1, <3>2, <1>4
  <2>. QED
    BY <2>1, <2>2
<1>. QED
  BY <1>2, <1>7, <1>8 DEF Metered, GaugeFields

\* The gauges at the start of a pass.
LEMMA GaugesMeter ==
  ASSUME NEW c, Sound(c), Metered(c.gauge), NEW e, NEW dt, NEW d, d = Gauges(Elapsed(c, dt), e, dt)
  PROVE  Metered(d.gauge)
<1>1. PICK w : w = Elapsed(c, dt)
  OBVIOUS
<1>2. Sound(w) /\ w.gauge = c.gauge
  BY <1>1, ElapsedKeeps DEF Keeps, Fields
<1>3. PICK g : g = IF dt = 1 THEN Sample(w.gauge, e.volts, e.rssi) ELSE w.gauge
  OBVIOUS
<1>4. Metered(g)
  <2>1. CASE dt = 1
    <3>1. PICK volts, rssi : g = Sample(w.gauge, volts, rssi)
      BY <1>3, <2>1
    <3>2. DOMAIN w.gauge = GaugeFields /\ w.gauge.cells \in 0 .. Full
      BY <1>2 DEF Metered
    <3>. QED
      BY <3>1, <3>2, SampleMeters
  <2>2. CASE dt # 1
    BY <1>2, <1>3, <2>2
  <2>. QED
    BY <2>1, <2>2
<1>5. d.gauge = NotePower(g, e.usb)
  BY <1>1, <1>2, <1>3 DEF Gauges, Sound, Shaped, Fields
<1>. QED
  BY <1>4, <1>5 DEF NotePower, Metered, GaugeFields

\* The avatar's face, and an end to its flourish of DONE!.
Faced(a) ==
  /\ a.visual \in {"working", "idle", "waiting", "done", "standby"}
  /\ a.done = None \/ a.done \in Nat
  /\ a.visual = "done" => a.done # None

\* Time leaves the face and brings the end of the flourish nearer.
LEMMA ElapseFaces ==
  ASSUME NEW a, Animator(a), Faced(a)
  PROVE  Faced(Elapse(a))
<1>1. PICK r : r = Elapse(a)
  OBVIOUS
<1>2. /\ r.visual = a.visual
      /\ r.done = IF a.done = None THEN None ELSE Down(a.done)
  BY <1>1 DEF Elapse, Animator, AvatarFields
<1>3. a.done # None => Down(a.done) \in Nat /\ Down(a.done) # None
  <2>1. \A n \in Nat : Down(n) \in Nat
    BY DEF Down, MaxOf
  <2>. QED
    BY <2>1, BadgeAssumption DEF Faced
<1>. QED
  BY <1>1, <1>2, <1>3 DEF Faced

\* One call of update_state: a face for every status, and DONE! with an end.
LEMMA HeedsFaces ==
  ASSUME NEW a, Animator(a), Faced(a), NEW x, NEW y, NEW p, NEW r, r = Heeds(a, x, y, p)
  PROVE  Faced(r)
<1>. DEFINE a0 == [a EXCEPT !.battery = x, !.online = y]
            u == UpdateCelebration(a0, p)
            o == OnlineEdge(u)
            t == BatteryEdge(o)
            status == Status(a0, p)
            z == DoneEnds(t, status)
<1>0. Animator(a0) /\ Faced(a0)
  BY DEF Animator, Faced, AvatarFields
<1>s. Rest(status) \in {"working", "idle", "waiting", "standby"}
  BY DEF Status, Rest
<1>a. r = UpdateState(a0, p)
  BY DEF Heeds
<1>. HIDE DEF a0
<1>b. r = Follow(z, status)
  BY <1>a DEF UpdateState
<1>1. Animator(u) /\ u.visual = a0.visual /\ u.done = a0.done
  BY <1>0, CelebrationKeeps DEF Keeps, AvatarFields
<1>. HIDE DEF u
<1>2. Animator(o) /\ o.visual = u.visual /\ o.done = u.done
  BY <1>1, OnlineEdgeKeeps DEF Keeps, AvatarFields
<1>. HIDE DEF o
<1>3. Animator(t) /\ Faced(t)
  <2>1. Faced(o)
    BY <1>0, <1>1, <1>2 DEF Faced
  <2>2. Animator(t)
    BY <1>2, BatteryEdgeKeeps
  <2>3. (t.visual = o.visual /\ t.done = o.done) \/ (t.visual = "standby" /\ t.done = None)
    BY <1>2 DEF BatteryEdge, Animator, AvatarFields
  <2>. QED
    BY <2>1, <2>2, <2>3 DEF Faced
<1>. HIDE DEF t, status
<1>4. Animator(z) /\ Faced(z)
  <2>1. Animator(z)
    BY <1>3, DoneEndsKeeps
  <2>2. \/ z.visual = t.visual /\ z.done = t.done
        \/ z.visual = t.visual /\ t.visual # "done" /\ z.done = None
        \/ z.visual = Rest(status) /\ z.done = None
    BY <1>3 DEF DoneEnds, SetVisual, Animator, AvatarFields
  <2>. QED
    BY <2>1, <2>2, <1>3, <1>s DEF Faced
<1>. HIDE DEF z
<1>5. \/ r.visual = z.visual /\ r.done = z.done
      \/ r.visual = Rest(status) /\ r.done = None
      \/ r.visual = "done" /\ r.done = DoneTime
  BY <1>4, <1>b DEF Follow, SetVisual, Animator, AvatarFields
<1>6. DoneTime \in Nat /\ DoneTime # None
  BY AvatarAssumption, BadgeAssumption
<1>. QED
  BY <1>4, <1>5, <1>6, <1>s DEF Faced

\* The badge is placed, its face and its gauge are what they can be.
Typed(c) == Placed(c) /\ Faced(c.avatar) /\ Metered(c.gauge)

\* A whole pass.
LEMMA PassTypes ==
  ASSUME NEW c, Sound(c), Noted(c), ~c.framed, Typed(c), NEW e, NEW P, NEW feed, NEW dt,
         NEW d, d = RestOfPass(c, e, P, feed, dt), Feeds(c.payload, feed)
  PROVE  Typed(d)
<1>1. Placed(d) /\ d.gauge = c.gauge
  BY PassPlaces DEF Typed
<1>2. Asked(c, e, d, {"bubble", "director"})
  BY PassKeeps
<1>3. PICK a, x : LET r == Heeds(a, x, e.online, d.payload)
                  IN /\ Animator(a) /\ Keeps(c.avatar, a, AvatarFields \ {"sprite"})
                     /\ Keeps(r, d.avatar, AvatarFields \ ({"jump", "redraw", "sprite"}
                                                           \cup {"bubble", "director"}))
  BY <1>2 DEF Asked
<1>4. PICK r, y, p : y = e.online /\ p = d.payload /\ r = Heeds(a, x, y, p)
  OBVIOUS
<1>5. Animator(a) /\ a.visual = c.avatar.visual /\ a.done = c.avatar.done
  BY <1>3 DEF Keeps, AvatarFields
<1>6. Faced(a)
  BY <1>5 DEF Typed, Faced
<1>7. Faced(r)
  BY <1>4, <1>5, <1>6, HeedsFaces
<1>8. d.avatar.visual = r.visual /\ d.avatar.done = r.done
  BY <1>3, <1>4 DEF Keeps, AvatarFields
<1>9. Faced(d.avatar)
  BY <1>7, <1>8 DEF Faced
<1>. QED
  BY <1>1, <1>9 DEF Typed

\* The badge starts on a screen of the menu that its settings leave.
LEMMA BootTypes ==
  ASSUME NEW saved \in Settings, NEW payload, NEW e, NEW d, d = Boot(saved, payload, e)
  PROVE  Typed(d)
<1>1. PICK panel, gauge, M :
        /\ panel = IF saved.dim /\ ~e.usb THEN 0 ELSE saved.brightness
        /\ gauge = Sample(Unprimed, e.volts, e.rssi)
        /\ M = Categories(saved.hidden)
  OBVIOUS
<1>. DEFINE c == [saved |-> saved, categories |-> M, category |-> 0, screen |-> 0,
                  page |-> 0, flow |-> None, theme |-> saved.palette, scale |-> saved.font,
                  panel |-> panel, dimmed |-> None,
                  cycled |-> 0, avatar |-> NewAnimator(saved.sprite), gauge |-> gauge,
                  onBattery |-> FALSE, liveOn |-> FALSE, payload |-> payload,
                  dirty |-> FALSE, framed |-> FALSE, blinked |-> FALSE,
                  ticked |-> FALSE, dropped |-> {}, beat |-> FALSE, swept |-> FALSE,
                  shown |-> None, chrome |-> None, footer |-> None, noted |-> None]
            s == ShowScreen(c, saved.boot)
<1>2. d = Redraw(s, e)
  BY <1>1 DEF Boot
<1>3. Animator(NewAnimator(saved.sprite)) /\ Faced(NewAnimator(saved.sprite))
  BY DEF NewAnimator, NewDirector, Animator, AvatarFields, DirectorFields, Faced
<1>4. DOMAIN saved = SavedFields
  BY DEF Settings, SavedFields
<1>5. /\ Shaped(c) /\ c.saved = saved /\ c.categories = M /\ c.category = 0 /\ c.screen = 0
      /\ c.panel = panel /\ c.avatar = NewAnimator(saved.sprite) /\ c.gauge = gauge
  BY <1>3, <1>4 DEF Shaped, Fields
<1>. HIDE DEF c
<1>6. Menu(M)
  BY <1>1, MenuIs DEF Settings
<1>7. panel \in 0 .. BrightnessTop
  <2>1. saved.brightness \in 0 .. BrightnessTop
    BY DEF Settings
  <2>. QED
    BY <1>1, <2>1, Starts
<1>8. 0 \in 0 .. Len(c.categories) - 1 /\ 0 \in 0 .. Len(CurrentScreens(c)) - 1
  <2>1. Len(M) \in Nat \ {0} /\ 0 + 1 \in 1 .. Len(M) /\ 0 + 1 = 1
    BY <1>6 DEF Menu
  <2>2. Len(M[1]) \in Nat \ {0}
    BY <1>6, <2>1 DEF Menu
  <2>. QED
    BY <1>5, <2>1, <2>2 DEF CurrentScreens
<1>9. Placed(s)
  BY <1>5, <1>6, <1>7, <1>8, ShowPlaces
<1>10. /\ Shaped(s) /\ s.flow = None /\ s.avatar = NewAnimator(saved.sprite) /\ s.gauge = gauge
  BY <1>5, ShowScreenKeeps DEF Keeps, Fields
<1>. HIDE DEF s
<1>11. Keeps(s, d, Place) /\ d.flow = None /\ d.avatar = s.avatar /\ d.gauge = s.gauge
  BY <1>2, <1>10 DEF Redraw, Draw, Shaped, Keeps, Fields, Place
<1>12. Metered(gauge)
  <2>1. PICK g, volts, rssi : g = Unprimed /\ volts = e.volts /\ rssi = e.rssi
    OBVIOUS
  <2>2. DOMAIN g = GaugeFields /\ g.cells = None
    BY <2>1 DEF Unprimed, GaugeFields
  <2>. QED
    BY <2>1, <2>2, <1>1, SampleMeters
<1>. QED
  BY <1>3, <1>9, <1>10, <1>11, <1>12, PlacedOn DEF Typed

\* The world stays one that there can be.
LEMMA WorldSteps ==
  ASSUME env \in Worlds, BadgeNext
  PROVE  env' \in Worlds
<1>1. /\ [env EXCEPT !.usb = ~@] \in Worlds
      /\ \A v \in Volts : [env EXCEPT !.volts = v] \in Worlds
      /\ \A v \in Signals : [env EXCEPT !.rssi = v] \in Worlds
      /\ \A v \in BOOLEAN : [env EXCEPT !.online = v] \in Worlds
  BY DEF Worlds
<1>2. ASSUME NEW e \in Worlds, NEW P, NEW feed, NEW dt, Pass(e, P, feed, dt)
      PROVE  env' \in Worlds
  BY <1>2 DEF Pass
<1>3. CASE Idle \/ Press
  BY <1>2, <1>3 DEF Idle, Press
<1>4. CASE Plug
  BY <1>1, <1>4 DEF Plug, Pass
<1>5. CASE Drain
  <2>1. PICK v \in Volts : env' = [env EXCEPT !.volts = v]
    BY <1>5 DEF Drain, Pass
  <2>. QED
    BY <2>1, <1>1
<1>6. CASE Fade
  <2>1. PICK v \in Signals : env' = [env EXCEPT !.rssi = v]
    BY <1>6 DEF Fade, Pass
  <2>. QED
    BY <2>1, <1>1
<1>7. CASE Outage
  <2>1. env' = [env EXCEPT !.online = FALSE]
    BY <1>7 DEF Outage, Pass
  <2>. QED
    BY <2>1, <1>1
<1>8. CASE StatusAnswer \/ CelebrateAnswer \/ LimitsAnswer \/ StatsAnswer
  <2>1. ASSUME NEW kind, NEW p, Answer(kind, p) PROVE env' \in Worlds
    <3>1. env' = [env EXCEPT !.online = TRUE]
      BY <2>1 DEF Answer, Pass
    <3>. QED
      BY <3>1, <1>1
  <2>2. CASE StatusAnswer
    BY <2>1, <2>2 DEF StatusAnswer
  <2>3. CASE CelebrateAnswer
    BY <2>1, <2>3 DEF CelebrateAnswer
  <2>4. CASE LimitsAnswer
    BY <2>1, <2>4 DEF LimitsAnswer
  <2>5. CASE StatsAnswer
    BY <2>1, <2>5 DEF StatsAnswer
  <2>. QED
    BY <1>8, <2>2, <2>3, <2>4, <2>5
<1>9. CASE Abort \/ Countdown \/ PowerOff
  BY <1>9 DEF Abort, Countdown, PowerOff
<1>10. CASE PlugHalted
  BY <1>1, <1>10 DEF PlugHalted
<1>11. CASE Wake \/ Restart
  <2>1. env' = [env EXCEPT !.online = TRUE]
    BY <1>11 DEF Wake, Restart, Start, Answered
  <2>. QED
    BY <2>1, <1>1
<1>12. CASE Loaded
  <2>1. env' = [env EXCEPT !.online = TRUE]
    BY <1>12 DEF Loaded, Answered
  <2>. QED
    BY <2>1, <1>1
<1>. QED
  BY <1>3, <1>4, <1>5, <1>6, <1>7, <1>8, <1>9, <1>10, <1>11, <1>12 DEF BadgeNext, Loop, World

\* The inductive invariant of the types, on top of BadgeInv.
TypedInv == env \in Worlds /\ Typed(b)

\* It holds of the badge as it starts.
LEMMA TypedStarts == BadgeInit => TypedInv
<1>. SUFFICES ASSUME BadgeInit PROVE TypedInv
  OBVIOUS
<1>1. PICK s \in Scenes : env = s.world /\ b = Boot(s.saved, Quiet, s.world)
  BY DEF BadgeInit
<1>2. s.saved \in Settings /\ env \in Worlds
  BY <1>1, BadgeAssumption
<1>. QED
  BY <1>1, <1>2, BootTypes DEF TypedInv

\* Every step of the badge and of its world preserves it.
LEMMA TypedSteps ==
  BadgeInv /\ TypedInv /\ [BadgeNext]_badgeVars => TypedInv'
<1>. SUFFICES ASSUME BadgeInv, TypedInv, [BadgeNext]_badgeVars PROVE TypedInv'
  OBVIOUS
<1>0. CASE UNCHANGED badgeVars
  BY <1>0 DEF badgeVars, TypedInv, Typed, Placed, Faced, Metered, CurrentScreens
<1>a. CASE BadgeNext
  <2>1. env' \in Worlds
    BY <1>a, WorldSteps DEF TypedInv
  <2>2. CASE \E e, P, feed, dt : Passes(e, P, feed, dt)
    <3>1. PICK e, P, feed, dt : Passes(e, P, feed, dt)
      BY <2>2
    <3>. DEFINE c == Gauges(Elapsed(b, dt), e, dt)
    <3>2. IF ShouldPowerOff(c.gauge, ~e.usb)
          THEN b' = [c EXCEPT !.shown = [screen |-> "notice"]]
          ELSE b' = RestOfPass(c, e, P, feed, dt)
      BY <3>1 DEF Passes, Pass
    <3>3. Awakens(b, c, dt) /\ Metered(c.gauge)
      BY PassBegins, GaugesMeter DEF BadgeInv, TypedInv, Typed
    <3>. HIDE DEF c
    <3>4. /\ Sound(c) /\ ~c.framed /\ Keeps(b, c, Place) /\ c.flow = b.flow
          /\ c.footer = b.footer /\ c.noted = b.noted /\ c.swept = b.swept
          /\ c.payload = b.payload
      BY <3>3 DEF Awakens, Keeps, Fields, Place
    <3>5. Noted(c) /\ Placed(c)
      BY <3>4, PlacedOn DEF Noted, BadgeInv, TypedInv, Typed
    <3>6. Faced(c.avatar)
      BY <3>3, ElapseFaces DEF Awakens, BadgeInv, Sound, Shaped, TypedInv, Typed
    <3>7. CASE ShouldPowerOff(c.gauge, ~e.usb)
      <4>1. PICK what : what = [screen |-> "notice"]
        OBVIOUS
      <4>2. b' = [c EXCEPT !.shown = what]
        BY <3>2, <3>7, <4>1
      <4>3. /\ Keeps(c, b', Place) /\ (b').flow = c.flow /\ (b').avatar = c.avatar
            /\ (b').gauge = c.gauge
        BY <4>2, <3>4 DEF Sound, Shaped, Keeps, Fields, Place
      <4>4. Placed(b')
        BY <4>3, <3>5, PlacedOn
      <4>. QED
        BY <2>1, <3>3, <3>6, <4>3, <4>4 DEF TypedInv, Typed
    <3>8. CASE ~ShouldPowerOff(c.gauge, ~e.usb)
      <4>1. b' = RestOfPass(c, e, P, feed, dt)
        BY <3>2, <3>8
      <4>2. Feeds(c.payload, feed)
        BY <3>1, <3>4 DEF Passes
      <4>3. Typed(b')
        BY <4>1, <4>2, <3>3, <3>4, <3>5, <3>6, PassTypes DEF Typed
      <4>. QED
        BY <2>1, <4>3 DEF TypedInv
    <3>. QED
      BY <3>7, <3>8
  <2>3. CASE Abort
    <3>1. PICK P, w, feed, dt :
            /\ P = notice.held /\ feed = None /\ dt = 0 /\ w = RestOfPass(b, env, P, feed, dt)
            /\ b' = [w EXCEPT !.dropped = @ \cup {"notice"}]
      BY <2>3 DEF Abort
    <3>2. Sound(b) /\ Noted(b) /\ ~b.framed /\ Typed(b) /\ Feeds(b.payload, feed)
      BY <2>3, <3>1 DEF Abort, BadgeInv, TypedInv, Feeds
    <3>3. Typed(w) /\ Sound(w)
      BY <3>1, <3>2, PassTypes, PassKeeps
    <3>4. /\ Keeps(w, b', Place) /\ (b').flow = w.flow /\ (b').avatar = w.avatar
          /\ (b').gauge = w.gauge
      BY <3>1, <3>3 DEF Sound, Shaped, Keeps, Fields, Place
    <3>5. Placed(b')
      BY <3>3, <3>4, PlacedOn DEF Typed
    <3>. QED
      BY <2>1, <3>3, <3>4, <3>5 DEF TypedInv, Typed
  <2>4. CASE Countdown
    <3>1. PICK dt : dt = 1 /\ b' = Elapsed(b, dt)
      BY <2>4 DEF Countdown
    <3>2. /\ Keeps(b, b', Fields \ {"dirty", "framed", "blinked", "ticked", "avatar", "beat",
                                    "cycled"})
          /\ (b').avatar = IF dt = 0 THEN b.avatar ELSE Elapse(b.avatar)
      <4>1. PICK d : d = b'
        OBVIOUS
      <4>2. d = Elapsed(b, dt) /\ Sound(b)
        BY <3>1, <4>1 DEF BadgeInv
      <4>3. /\ Keeps(b, d, Fields \ {"dirty", "framed", "blinked", "ticked", "avatar", "beat",
                                     "cycled"})
            /\ d.avatar = IF dt = 0 THEN b.avatar ELSE Elapse(b.avatar)
        BY <4>2, ElapsedKeeps
      <4>. QED
        BY <4>1, <4>3
    <3>3. Keeps(b, b', Place) /\ (b').flow = b.flow /\ (b').gauge = b.gauge
      BY <3>2 DEF Keeps, Fields, Place
    <3>4. Placed(b')
      BY <3>3, PlacedOn DEF TypedInv, Typed
    <3>5. Faced((b').avatar)
      BY <3>2, ElapseFaces DEF BadgeInv, Sound, Shaped, TypedInv, Typed
    <3>. QED
      BY <2>1, <3>3, <3>4, <3>5 DEF TypedInv, Typed
  <2>5. CASE Rests
    BY <2>1, <2>5 DEF Rests, TypedInv, Typed, Placed, Faced, Metered, CurrentScreens
  <2>6. CASE Boots
    <3>1. PICK saved, payload, e, d : /\ saved = b.saved /\ payload = b.payload /\ e = Answered(env)
                                      /\ d = Boot(saved, payload, e)
      OBVIOUS
    <3>2. saved \in Settings /\ b.panel \in 0 .. BrightnessTop
      BY <3>1 DEF TypedInv, Typed, Placed
    <3>3. Typed(d) /\ Sound(d)
      <4>1. Ranged(saved)
        BY <3>1, SavedInRange DEF BadgeInv
      <4>. QED
        BY <3>1, <3>2, <4>1, BootTypes, BootKeeps
    <3>4. CASE b' = [Boot(b.saved, b.payload, Answered(env)) EXCEPT !.shown = [screen |-> "boot"]]
      <4>1. PICK what : what = [screen |-> "boot"]
        OBVIOUS
      <4>2. b' = [d EXCEPT !.shown = what]
        BY <3>1, <3>4, <4>1
      <4>3. /\ Keeps(d, b', Place) /\ (b').flow = d.flow /\ (b').avatar = d.avatar
            /\ (b').gauge = d.gauge
        BY <4>2, <3>3 DEF Sound, Shaped, Keeps, Fields, Place
      <4>4. Placed(b')
        BY <4>3, <3>3, PlacedOn DEF Typed
      <4>. QED
        BY <2>1, <3>3, <4>3, <4>4 DEF TypedInv, Typed
    <3>5. CASE b' = [Boot(b.saved, b.payload, Answered(env)) EXCEPT !.panel = b.panel]
      <4>1. PICK n : n = b.panel
        OBVIOUS
      <4>2. b' = [d EXCEPT !.panel = n]
        BY <3>1, <3>5, <4>1
      <4>3. /\ Keeps(d, b', Place \ {"panel"}) /\ (b').flow = d.flow /\ (b').avatar = d.avatar
            /\ (b').gauge = d.gauge /\ (b').panel = n
        BY <4>2, <3>3 DEF Sound, Shaped, Keeps, Fields, Place
      <4>4. Placed(b')
        BY <4>1, <4>3, <3>2, <3>3 DEF Typed, Placed, Keeps, Place, CurrentScreens
      <4>. QED
        BY <2>1, <3>3, <4>3, <4>4 DEF TypedInv, Typed
    <3>. QED
      BY <2>6, <3>4, <3>5 DEF Boots
  <2>. QED
    BY <1>a, <2>2, <2>3, <2>4, <2>5, <2>6, StepCases DEF BadgeInv
<1>. QED
  BY <1>0, <1>a

\* No press, celebration, reset or restart, and nothing the settings hide or bring
\* back, leaves an index of the loop outside the list it is for, a brightness the
\* panel does not have, a level the gauge does not have or a DONE! with no end.
THEOREM BadgeIsTyped == BadgeSpec => []BadgeTypeOK
<1>1. BadgeInv /\ TypedInv => BadgeTypeOK
  <2>. SUFFICES ASSUME BadgeInv, TypedInv PROVE BadgeTypeOK
    OBVIOUS
  <2>1. env \in Worlds /\ Placed(b) /\ Faced(b.avatar) /\ Metered(b.gauge)
    BY DEF TypedInv, Typed
  <2>2. /\ b.saved \in Settings
        /\ b.category \in 0 .. Len(b.categories) - 1
        /\ b.screen \in 0 .. Len(CurrentScreens(b)) - 1
        /\ b.page \in 0 .. ProjectPages - 1
        /\ b.panel \in 0 .. BrightnessTop
    BY <2>1 DEF Placed
  <2>3. (b.flow # None /\ b.flow.kind = "display") => b.flow.at \in 0 .. Len(Rows) - 1
    BY DEF BadgeInv, Sound, InFlow, InRange
  <2>4. /\ b.avatar.visual \in {"working", "idle", "waiting", "done", "standby"}
        /\ b.avatar.visual = "done" => b.avatar.done # None
    BY <2>1 DEF Faced
  <2>5. b.gauge.cells \in 0 .. Full
    BY <2>1 DEF Metered
  <2>. QED
    BY <2>1, <2>2, <2>3, <2>4, <2>5 DEF BadgeTypeOK
<1>2. BadgeInit => TypedInv
  BY TypedStarts
<1>3. BadgeInv /\ TypedInv /\ [BadgeNext]_badgeVars => TypedInv'
  BY TypedSteps
<1>. QED
  BY <1>1, <1>2, <1>3, BadgeHolds, PTL DEF BadgeSpec

=============================================================================
