---------------------------- MODULE TerminalPanes ----------------------------
(***************************************************************************)
(* The panes of one terminal tab: the tree of src/paneTree.ts and the      *)
(* store actions that keep it beside the focused pane, the zoom and the    *)
(* tab's own terminal id, through splits, removals, moved dividers, shells *)
(* that start and exit, sleep and a restart of the application.            *)
(*                                                                         *)
(* A tree is its root and, by id, the terminals of its leaves and the      *)
(* direction, shares and children of its splits, so that what the code     *)
(* does recursively along the way to one node is a change at that node.    *)
(* Shares are whole numbers in proportion: dividing them by their sum is   *)
(* the normalize of the code, and geometry is exact where the code allows  *)
(* for the rounding of that division.                                      *)
(***************************************************************************)
EXTENDS Integers, SequencesExt

CONSTANTS
  TabId,       \* the tab; the pane of its first terminal has this id
  NewPanes,    \* ids later panes get
  Positions,   \* where a divider is dropped, in units of the split's extent
  MaxMoves,    \* how many times dividers are moved
  MaxStarts,   \* how many terminals are started
  Nobody       \* undefined

Panes == NewPanes \union {TabId}
Dirs == {"left", "right", "up", "down"}

\* A split is called by the pane it was made from and the one it was made for.
ASSUME PanesAssumption ==
  /\ TabId \notin NewPanes /\ Nobody \notin Panes
  /\ (Panes \X Panes) \intersect (Panes \union {Nobody}) = {}
  /\ MaxMoves \in Nat /\ MaxStarts \in Nat

\* PANE_RESIZE_STEP is one of these units, PANE_MIN_SHARE two.
ShareUnits == 20
MinUnits == 2

VARIABLES
  tree,      \* tab.panes, NoTree before the first split
  active,    \* tab.activePaneId
  zoomed,    \* tab.zoomedPaneId
  tabTerm,   \* tab.termId
  starting,  \* panes whose view waits for its shell
  asleep,    \* tab.dormant
  used,      \* pane ids given out
  moves, starts

vars == <<tree, active, zoomed, tabTerm, starting, asleep, used, moves, starts>>

-----------------------------------------------------------------------------
(* Trees. *)

Empty == [x \in {} |-> x]
With(f, x, v) == [y \in DOMAIN f \union {x} |-> IF y = x THEN v ELSE f[y]]
Without(f, x) == Restrict(f, DOMAIN f \ {x})

Leaf(p, term) ==
  [root |-> p, term |-> With(Empty, p, term), vertical |-> Empty,
   shares |-> Empty, children |-> Empty]
NoTree ==
  [root |-> Nobody, term |-> Empty, vertical |-> Empty, shares |-> Empty,
   children |-> Empty]

LeafIds(t) == DOMAIN t.term
Splits(t) == DOMAIN t.children
Ids(t) == LeafIds(t) \union Splits(t)
Kids(t, n) == IF n \in Splits(t) THEN Range(t.children[n]) ELSE {}

\* The split a node is a child of, if there is one, and where.
Parents(t, n) == {s \in Splits(t) : n \in Kids(t, s)}
ParentOf(t, n) == CHOOSE s \in Splits(t) : n \in Kids(t, s)
IndexOf(t, s, n) == CHOOSE i \in DOMAIN t.children[s] : t.children[s][i] = n

\* A node and all that is below it.
Descendants(t) ==
  LET below[n \in Ids(t)] == {n} \union UNION {below[c] : c \in Kids(t, n)}
  IN below

\* The order panes are read in: at the split where their ways part, q is below
\* an earlier child than p.
Before(t, q, p) ==
  LET below == Descendants(t)
  IN \E s \in Splits(t) : \E i \in DOMAIN t.children[s] :
       /\ p \in below[t.children[s][i]]
       /\ \E j \in 1 .. i - 1 : q \in below[t.children[s][j]]
FirstIn(t, ps) == CHOOSE p \in ps : \A q \in ps \ {p} : ~Before(t, q, p)
FirstLeaf(t) == FirstIn(t, LeafIds(t))

\* replaceLeaf and removePane put another node where one was.
Replace(t, id, next) ==
  LET put(n) == IF n = id THEN next ELSE n
  IN [t EXCEPT !.root = put(@),
               !.children = [s \in Splits(t) |->
                 [i \in DOMAIN t.children[s] |-> put(t.children[s][i])]]]

SumTo(shares, n) ==
  LET sum[i \in 0 .. n] == IF i = 0 THEN 0 ELSE sum[i - 1] + shares[i]
  IN sum[n]
Total(shares) == SumTo(shares, Len(shares))
Even(n) == [i \in 1 .. n |-> 1]
Positive(shares) == \A i \in DOMAIN shares : shares[i] > 0
Lowest(shares) ==
  LET g == Max({d \in 1 .. shares[1] : \A i \in DOMAIN shares : shares[i] % d = 0})
  IN [i \in DOMAIN shares |-> shares[i] \div g]
Normalize(shares, n) ==
  IF Len(shares) = n /\ Positive(shares) THEN shares ELSE Even(n)
Shares(t, s) == Normalize(t.shares[s], Len(t.children[s]))

SplitNested(t, p, vertical, new) ==
  LET s == <<p, new>>
      u == Replace(t, p, s)
  IN [root |-> u.root,
      term |-> With(t.term, new, Nobody),
      vertical |-> With(t.vertical, s, vertical),
      shares |-> With(t.shares, s, Even(2)),
      children |-> With(u.children, s, <<p, new>>)]

\* splitPane: beside its siblings when the parent runs the same way, else in a
\* split of its own.
SplitPane(t, p, vertical, new) ==
  IF \E s \in Parents(t, p) : t.vertical[s] = vertical
  THEN LET s == ParentOf(t, p)
           kids == InsertAt(t.children[s], IndexOf(t, s, p) + 1, new)
       IN [t EXCEPT !.term = With(@, new, Nobody),
                    !.shares[s] = Even(Len(kids)),
                    !.children[s] = kids]
  ELSE SplitNested(t, p, vertical, new)

\* A split left with one child gives way to it.
GiveWay(t, p, s, only) ==
  LET u == Replace(t, s, only)
  IN [root |-> u.root,
      term |-> Without(t.term, p),
      vertical |-> Without(t.vertical, s),
      shares |-> Without(t.shares, s),
      children |-> Without(u.children, s)]

RemovePane(t, p) ==
  IF Parents(t, p) = {} THEN t
  ELSE LET s == ParentOf(t, p)
           i == IndexOf(t, s, p)
           kids == RemoveAt(t.children[s], i)
       IN IF Len(kids) = 1 THEN GiveWay(t, p, s, kids[1])
          ELSE [t EXCEPT !.term = Without(@, p),
                         !.shares[s] = Lowest(Normalize(RemoveAt(@, i), Len(kids))),
                         !.children[s] = kids]

-----------------------------------------------------------------------------
(* Geometry, on a grid fine enough for every split to divide evenly. *)

Extent(t, vertical) ==
  FoldSet(LAMBDA s, size : size * Total(Shares(t, s)), 1,
          {s \in Splits(t) : t.vertical[s] = vertical})

\* layout, scaled by k horizontally and m vertically: each child has its part
\* of what its split has.
LayoutAt(t, k, m) ==
  LET whole == [x |-> 0, y |-> 0,
                w |-> k * Extent(t, FALSE), h |-> m * Extent(t, TRUE)]
      at[n \in Ids(t)] ==
        IF n = t.root THEN whole
        ELSE LET s == ParentOf(t, n)
                 i == IndexOf(t, s, n)
                 r == at[s]
                 unit == (IF t.vertical[s] THEN r.h ELSE r.w)
                           \div Total(Shares(t, s))
                 along == unit * SumTo(Shares(t, s), i - 1)
                 part == unit * Shares(t, s)[i]
             IN IF t.vertical[s] THEN [r EXCEPT !.y = @ + along, !.h = part]
                ELSE [r EXCEPT !.x = @ + along, !.w = part]
  IN [p \in LeafIds(t) |-> at[p]]
Layout(t) == LayoutAt(t, 1, 1)

Lesser(a, b) == IF a < b THEN a ELSE b
Greater(a, b) == IF a > b THEN a ELSE b
OverlapX(r, q) == Lesser(r.x + r.w, q.x + q.w) - Greater(r.x, q.x)
OverlapY(r, q) == Lesser(r.y + r.h, q.y + q.h) - Greater(r.y, q.y)

TouchesAway(from, r, dir) ==
  CASE dir = "right" -> r.x = from.x + from.w
    [] dir = "left" -> r.x = from.x
    [] dir = "down" -> r.y = from.y + from.h
    [] dir = "up" -> r.y + r.h = from.y

Touches(from, r, dir) ==
  CASE dir = "right" -> r.x = from.x + from.w
    [] dir = "left" -> r.x + r.w = from.x
    [] dir = "down" -> r.y = from.y + from.h
    [] dir = "up" -> r.y + r.h = from.y

\* The pane with the largest positive score, the first in reading order of
\* several; Nobody when there is none.
Best(t, score) ==
  LET able == {p \in LeafIds(t) : score[p] > 0}
      best == {p \in able : \A q \in able : score[q] <= score[p]}
  IN IF best = {} THEN Nobody ELSE FirstIn(t, best)

Facing(from, r, dir) ==
  IF ~Touches(from, r, dir) THEN 0
  ELSE IF dir \in {"left", "right"} THEN OverlapY(from, r) ELSE OverlapX(from, r)

\* neighbor: the pane on that side that shares the most of the edge.
NeighborIn(t, rects, p, dir) ==
  Best(t, [q \in LeafIds(t) |->
             IF q = p THEN 0 ELSE Facing(rects[p], rects[q], dir)])
Neighbor(t, p, dir) == NeighborIn(t, Layout(t), p, dir)

\* paneTakingOver: who covers most of the room the pane had.
PaneTakingOver(before, after, p) ==
  LET gone == LayoutAt(before, Extent(after, FALSE), Extent(after, TRUE))[p]
      rects == LayoutAt(after, Extent(before, FALSE), Extent(before, TRUE))
  IN Best(after, [q \in LeafIds(after) |->
       IF OverlapX(gone, rects[q]) <= 0 \/ OverlapY(gone, rects[q]) <= 0 THEN 0
       ELSE OverlapX(gone, rects[q]) * OverlapY(gone, rects[q])])

-----------------------------------------------------------------------------
(* Dividers. *)

\* Shares on a grid on which a unit is a whole number.
InUnits(shares) == [i \in DOMAIN shares |-> ShareUnits * shares[i]]
Clamp(want, pair, least) == Lesser(pair - least, Greater(least, want))

\* Children i and j of a split share what they had: i takes "first".
Moved(t, s, i, j, first) ==
  LET shares == InUnits(Shares(t, s))
      pair == shares[i] + shares[j]
      given == Clamp(first, pair, MinUnits * Total(Shares(t, s)))
      after == [shares EXCEPT ![i] = given, ![j] = pair - given]
  IN [t EXCEPT !.shares[s] = IF Positive(after) THEN Lowest(after) ELSE after]

\* The child of a split that a pane is below.
Toward(t, s, p) ==
  CHOOSE i \in DOMAIN t.children[s] : p \in Descendants(t)[t.children[s][i]]
Beside(i, dir) == IF dir \in {"right", "down"} THEN i + 1 ELSE i - 1

\* resizePane: the deepest split around the pane that runs along the direction
\* and has a child on that side.
Seams(t, p, dir) ==
  {s \in Splits(t) :
     /\ t.vertical[s] = (dir \in {"up", "down"})
     /\ p \in Descendants(t)[s]
     /\ Beside(Toward(t, s, p), dir) \in DOMAIN t.children[s]}

Seam(t, p, dir) ==
  CHOOSE s \in Seams(t, p, dir) : \A o \in Seams(t, p, dir) : s \in Descendants(t)[o]

ResizeShrinks(t, p, dir) ==
  IF Seams(t, p, dir) = {} THEN t
  ELSE LET s == Seam(t, p, dir)
           i == Toward(t, s, p)
           j == Beside(i, dir)
           total == Total(Shares(t, s))
       IN Moved(t, s, i, j, ShareUnits * Shares(t, s)[i]
                              + (IF j > i THEN total ELSE 0 - total))

ResizePane(t, p, dir) ==
  IF Seams(t, p, dir) = {} THEN t
  ELSE LET s == Seam(t, p, dir)
           i == Toward(t, s, p)
       IN Moved(t, s, i, Beside(i, dir),
                ShareUnits * Shares(t, s)[i] + Total(Shares(t, s)))

\* setPaneBoundary: the boundary after child i, put at a position.
SetPaneBoundary(t, s, i, position) ==
  Moved(t, s, i, i + 1,
        position * Total(Shares(t, s))
          - ShareUnits * SumTo(Shares(t, s), i - 1))

-----------------------------------------------------------------------------
(* What a tree becomes on disk and is read back as. *)

PaneTreeSnapshot(t) == [t EXCEPT !.term = [p \in LeafIds(t) |-> Nobody]]

\* readPaneTree: a split of one is read as its child.
ReadPaneTree(t) ==
  LET kept == {s \in Splits(t) : Len(t.children[s]) > 1}
      through[n \in Ids(t)] ==
        IF n \in Splits(t) \ kept THEN through[t.children[n][1]] ELSE n
  IN [root |-> through[t.root],
      term |-> [p \in LeafIds(t) |-> Nobody],
      vertical |-> Restrict(t.vertical, kept),
      shares |-> [s \in kept |-> Shares(t, s)],
      children |-> [s \in kept |->
        [i \in DOMAIN t.children[s] |-> through[t.children[s][i]]]]]

-----------------------------------------------------------------------------
(* The store. *)

Unsplit == tree.root = Nobody

Init ==
  /\ tree = NoTree /\ active = Nobody /\ zoomed = Nobody /\ tabTerm = Nobody
  /\ starting = {TabId} /\ asleep = FALSE /\ used = {TabId}
  /\ moves = 0 /\ starts = 0

Focus == IF active # Nobody THEN active ELSE FirstLeaf(tree)

\* setPaneTermId: the shell of a pane is up.
Started(p) ==
  /\ p \in starting /\ starts < MaxStarts
  /\ starts' = starts + 1 /\ starting' = starting \ {p}
  /\ tree' = IF p \in LeafIds(tree) THEN [tree EXCEPT !.term[p] = starts'] ELSE tree
  /\ tabTerm' = IF Unsplit \/ p = TabId THEN starts' ELSE tabTerm
  /\ UNCHANGED <<active, zoomed, asleep, used, moves>>

\* splitTerminalPane: the first split wraps the running terminal in a leaf that
\* has the tab's id.
Split(vertical, new) ==
  /\ ~asleep /\ new \notin used
  /\ LET base == IF Unsplit THEN Leaf(TabId, tabTerm) ELSE tree
         from == IF active # Nobody THEN active ELSE FirstLeaf(base)
     IN from \in LeafIds(base) /\ tree' = SplitPane(base, from, vertical, new)
  /\ active' = new /\ zoomed' = Nobody
  /\ starting' = starting \union {new} /\ used' = used \union {new}
  /\ UNCHANGED <<tabTerm, asleep, moves, starts>>

Awake == ~Unsplit /\ ~asleep

FocusPaneDir(dir) ==
  /\ Awake /\ Neighbor(tree, Focus, dir) # Nobody
  /\ active' = Neighbor(tree, Focus, dir) /\ zoomed' = Nobody
  /\ UNCHANGED <<tree, tabTerm, starting, asleep, used, moves, starts>>

\* A click in a pane that is on the screen.
FocusPane(p) ==
  /\ Awake /\ p \in LeafIds(tree) /\ p # active
  /\ zoomed # Nobody => p = zoomed
  /\ active' = p
  /\ UNCHANGED <<tree, zoomed, tabTerm, starting, asleep, used, moves, starts>>

TogglePaneZoom ==
  /\ Awake
  /\ active' = Focus
  /\ zoomed' = IF zoomed = Nobody THEN Focus ELSE Nobody
  /\ UNCHANGED <<tree, tabTerm, starting, asleep, used, moves, starts>>

ResizePaneDir(dir) ==
  /\ Awake /\ moves < MaxMoves
  /\ tree' = ResizePane(tree, Focus, dir)
  /\ moves' = moves + 1
  /\ UNCHANGED <<active, zoomed, tabTerm, starting, asleep, used, starts>>

\* setPaneRatio: a divider is dragged.
SetPaneRatio(s, i, position) ==
  /\ Awake /\ zoomed = Nobody /\ moves < MaxMoves
  /\ tree' = SetPaneBoundary(tree, s, i, position)
  /\ moves' = moves + 1
  /\ UNCHANGED <<active, zoomed, tabTerm, starting, asleep, used, starts>>

ZoomStays(p) == UNCHANGED zoomed

ZoomAfter(p) == zoomed' = IF zoomed = p THEN Nobody ELSE zoomed

\* removeTerminalPane, by the user or by a shell that exits while the tab has
\* other panes: the focus goes to who took the room, and down to one pane the
\* tab is pointed at its terminal.
RemoveTerminalPane(p) ==
  /\ Awake /\ p \in LeafIds(tree) /\ Parents(tree, p) # {}
  /\ tree' = RemovePane(tree, p)
  /\ LET heir == PaneTakingOver(tree, tree', p)
     IN IF tree'.root \in LeafIds(tree')
        THEN active' = tree'.root /\ tabTerm' = tree'.term[tree'.root]
        ELSE /\ active' = IF active # p THEN active
                          ELSE IF heir # Nobody THEN heir ELSE FirstLeaf(tree')
             /\ UNCHANGED tabTerm
  /\ ZoomAfter(p)
  /\ starting' = starting \ {p}
  /\ UNCHANGED <<asleep, used, moves, starts>>

\* paneFields of a tree.
Adopt(t) ==
  /\ tree' = t /\ zoomed' = Nobody
  /\ active' = IF t.root = Nobody THEN Nobody ELSE FirstLeaf(t)

\* sleepTab: the layout is kept, every terminal is let go.
Sleep ==
  /\ ~asleep /\ asleep' = TRUE
  /\ Adopt(IF Unsplit THEN tree ELSE PaneTreeSnapshot(tree))
  /\ tabTerm' = Nobody /\ starting' = {}
  /\ UNCHANGED <<used, moves, starts>>

Mounted == IF Unsplit THEN {TabId} ELSE LeafIds(tree)

\* wakeTab: every pane mounts and starts a terminal.
Wake ==
  /\ asleep /\ asleep' = FALSE
  /\ starting' = Mounted
  /\ UNCHANGED <<tree, active, zoomed, tabTerm, used, moves, starts>>

\* The application quits and restores the session: restoreSession.
Restart ==
  /\ Adopt(IF Unsplit THEN tree ELSE ReadPaneTree(PaneTreeSnapshot(tree)))
  /\ tabTerm' = Nobody
  /\ starting' = IF asleep THEN {} ELSE Mounted
  /\ UNCHANGED <<asleep, used, moves, starts>>

Next ==
  \/ TogglePaneZoom \/ Sleep \/ Wake \/ Restart
  \/ \E p \in Panes : Started(p) \/ FocusPane(p) \/ RemoveTerminalPane(p)
  \/ \E new \in NewPanes, vertical \in BOOLEAN : Split(vertical, new)
  \/ \E dir \in Dirs : FocusPaneDir(dir) \/ ResizePaneDir(dir)
  \/ /\ Awake
     /\ \E s \in Splits(tree) : \E i \in 1 .. Len(tree.children[s]) - 1 :
          \E position \in Positions : SetPaneRatio(s, i, position)

Spec == Init /\ [][Next]_vars

-----------------------------------------------------------------------------
(* Properties. *)

\* A tree the rest of the code can work with: its nodes hang together below the
\* root, each is one child of one split, and a split has several.
WellFormed(t) ==
  /\ LeafIds(t) \intersect Splits(t) = {}
  /\ t.root \in Ids(t) /\ Parents(t, t.root) = {}
  /\ \A s \in Splits(t) :
       /\ Kids(t, s) \subseteq Ids(t) /\ IsInjective(t.children[s])
       /\ Len(t.children[s]) >= 2 /\ Len(t.shares[s]) = Len(t.children[s])
       /\ \A o \in Splits(t) \ {s} : Kids(t, s) \intersect Kids(t, o) = {}
  /\ Descendants(t)[t.root] = Ids(t)

\* The keyboard is in a pane of the tree, and in the one on screen when one is
\* zoomed.
FocusShown ==
  /\ active \in LeafIds(tree)
  /\ zoomed \in {Nobody, active}

\* The state of a tab is consistent in every layout it can be brought to, and a
\* shell that starts has a pane to appear in.
TypeOK ==
  /\ used \subseteq Panes /\ LeafIds(tree) \union {TabId} \subseteq used
  /\ starting \subseteq Mounted /\ asleep \in BOOLEAN
  /\ starts \in 0 .. MaxStarts /\ moves \in 0 .. MaxMoves
  /\ tabTerm \in 1 .. MaxStarts \union {Nobody}
  /\ tree.term \in [LeafIds(tree) -> 1 .. MaxStarts \union {Nobody}]
  /\ IF Unsplit THEN tree = NoTree /\ active = Nobody /\ zoomed = Nobody
     ELSE WellFormed(tree) /\ FocusShown

\* Every pane has room of its own.
Roomy(rects) == \A p \in DOMAIN rects : rects[p].w > 0 /\ rects[p].h > 0

\* layout: the panes tile the tab's content area.
Tiled ==
  LET rects == Layout(tree)
  IN /\ Roomy(rects)
     /\ \A p, q \in LeafIds(tree) :
          p # q => OverlapX(rects[p], rects[q]) <= 0
                   \/ OverlapY(rects[p], rects[q]) <= 0
     /\ FoldFunction(+, 0, [p \in LeafIds(tree) |-> rects[p].w * rects[p].h])
          = Extent(tree, FALSE) * Extent(tree, TRUE)

Opposite(dir) ==
  CASE dir = "left" -> "right" [] dir = "right" -> "left"
    [] dir = "up" -> "down" [] dir = "down" -> "up"

\* neighbor: a jump can be taken back, in as far as there is a pane to jump to
\* on the way back, and the two panes face each other.
JumpsBack(t, rects) ==
  \A p \in LeafIds(t), dir \in Dirs :
    LET q == NeighborIn(t, rects, p, dir)
    IN q # Nobody => q # p /\ NeighborIn(t, rects, q, Opposite(dir)) # Nobody

\* What the keys do on the screen follows the layout on the screen.
ScreenFollowsTree == ~Unsplit => Tiled /\ JumpsBack(tree, Layout(tree))

\* resizePane: a press grows the focused pane or leaves the layout alone, and
\* what is moved keeps the least share.
Area(t, u, p) ==
  LET r == LayoutAt(t, Extent(u, FALSE), Extent(u, TRUE))[p]
  IN r.w * r.h
ResizeGrows ==
  [][\A dir \in Dirs : ResizePaneDir(dir) /\ tree' # tree =>
       Area(tree', tree, Focus) > Area(tree, tree', Focus)]_vars

-----------------------------------------------------------------------------
(* What comments say and the code does not do. *)

\* store.ts, removeTerminalPane: "sharing comes back the moment the count is
\* one again".  Sharing reads the tab's own terminal id.
ShareComesBack ==
  ~Unsplit /\ tree.root \in LeafIds(tree) /\ starting = {} =>
    tabTerm = tree.term[tree.root]

\* paneTree.ts, splitPane: "The tree stays as flat as the screen looks."
Flat ==
  \A s \in Splits(tree) : \A n \in Kids(tree, s) \intersect Splits(tree) :
    tree.vertical[n] # tree.vertical[s]
=============================================================================
