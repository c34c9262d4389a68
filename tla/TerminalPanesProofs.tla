------------------------- MODULE TerminalPanesProofs -------------------------
(***************************************************************************)
(* The state of a tab is consistent for any number of panes: its tree      *)
(* stays a tree whatever is split, removed, slept or restored, and the     *)
(* keyboard stays in a pane of it.  And for every layout that gives each   *)
(* pane room a jump of the focus can be taken back.                        *)
(***************************************************************************)
EXTENDS TerminalPanes, SequenceTheorems, WellFoundedInduction, TLAPS

-----------------------------------------------------------------------------
(* The inductive invariant.  WellFormed says that all nodes are below the  *)
(* root with the help of a recursive function.  The proof says it of sets  *)
(* of nodes instead: a set that holds the root, and with a node what is    *)
(* below it, is all of the tree; and going down one ends at a leaf, so     *)
(* that every set of nodes has one with no child in the set.               *)

\* A sequence, whatever of.
IsList(f, n) == f = [i \in 1 .. n |-> f[i]]

Closed(t, S) == \A n \in S : Kids(t, n) \subseteq S

Connected(t) == \A S \in SUBSET Ids(t) : t.root \in S /\ Closed(t, S) => S = Ids(t)

Grounded(t) ==
  \A S \in SUBSET Ids(t) : S # {} => \E n \in S : Kids(t, n) \intersect S = {}

Values == 1 .. MaxStarts \union {Nobody}

IsRecord(t) ==
  t = [root |-> t.root, term |-> t.term, vertical |-> t.vertical,
       shares |-> t.shares, children |-> t.children]

\* The fields of a tree with these leaves and splits.
Fields(t, leaves, splits) ==
  /\ IsRecord(t)
  /\ t.term \in [leaves -> Values]
  /\ t.vertical \in [splits -> BOOLEAN]
  /\ t.shares = [s \in splits |-> t.shares[s]]
  /\ t.children \in [splits -> Seq(leaves \union splits)]

\* Each node but the root is one child of one split.
OneParent(t) ==
  /\ Parents(t, t.root) = {}
  /\ \A s \in Splits(t) : IsInjective(t.children[s])
  /\ \A s, o \in Splits(t) : s # o => Kids(t, s) \intersect Kids(t, o) = {}

Several(t) ==
  \A s \in Splits(t) : /\ Len(t.children[s]) >= 2
                       /\ IsList(t.shares[s], Len(t.children[s]))

TreeOK(t, given) ==
  /\ Fields(t, LeafIds(t), Splits(t))
  /\ LeafIds(t) \subseteq given /\ Splits(t) \subseteq given \X given
  /\ t.root \in Ids(t)
  /\ OneParent(t) /\ Several(t) /\ Connected(t) /\ Grounded(t)

Counts ==
  /\ used \subseteq Panes /\ TabId \in used
  /\ starting \subseteq Mounted /\ asleep \in BOOLEAN
  /\ starts \in 0 .. MaxStarts /\ moves \in 0 .. MaxMoves
  /\ tabTerm \in Values

Shown ==
  IF Unsplit THEN tree = NoTree /\ active = Nobody /\ zoomed = Nobody
  ELSE TreeOK(tree, used) /\ FocusShown

IInv == Counts /\ Shown

-----------------------------------------------------------------------------
(* What is below a node: the least set with the node that is closed.       *)

Reach(t, n) ==
  {m \in Ids(t) : \A S \in SUBSET Ids(t) : n \in S /\ Closed(t, S) => m \in S}

Inside(t) == \A n \in Ids(t) : Kids(t, n) \subseteq Ids(t)

LEMMA ReachClosed ==
  ASSUME NEW t, Inside(t), NEW n \in Ids(t)
  PROVE  n \in Reach(t, n) /\ Reach(t, n) \subseteq Ids(t) /\ Closed(t, Reach(t, n))
<1>1. \A m \in Reach(t, n) : \A c \in Kids(t, m) : c \in Reach(t, n)
  BY DEF Reach, Closed, Inside
<1> QED BY <1>1 DEF Reach, Closed

LEMMA ReachLeast ==
  ASSUME NEW t, NEW n, NEW S \in SUBSET Ids(t), n \in S, Closed(t, S)
  PROVE  Reach(t, n) \subseteq S
BY DEF Reach

LEMMA ReachWithin ==
  ASSUME NEW t, Inside(t), NEW n \in Ids(t), NEW m \in Reach(t, n)
  PROVE  Reach(t, m) \subseteq Reach(t, n)
<1>1. Reach(t, n) \in SUBSET Ids(t) /\ Closed(t, Reach(t, n))
  BY ReachClosed
<1> QED BY <1>1, ReachLeast

LEMMA ReachUnfolds ==
  ASSUME NEW t, Inside(t), NEW n \in Ids(t)
  PROVE  Reach(t, n) = {n} \union UNION {Reach(t, c) : c \in Kids(t, n)}
<1> DEFINE all == {n} \union UNION {Reach(t, c) : c \in Kids(t, n)}
<1>1. \A c \in Kids(t, n) : c \in Ids(t) /\ c \in Reach(t, n)
  BY ReachClosed DEF Inside, Closed
<1>2. all \subseteq Reach(t, n)
  BY <1>1, ReachWithin, ReachClosed
<1>3. all \in SUBSET Ids(t)
  BY <1>2, ReachClosed
<1>4. ASSUME NEW m \in all, NEW c \in Kids(t, m) PROVE c \in all
  <2>1. CASE m = n
    <3>1. c \in Reach(t, c)
      BY <2>1, <1>1, ReachClosed
    <3> QED BY <2>1, <3>1
  <2>2. CASE \E k \in Kids(t, n) : m \in Reach(t, k)
    <3>1. PICK k \in Kids(t, n) : m \in Reach(t, k)
      BY <2>2
    <3>2. c \in Reach(t, k)
      BY <3>1, <1>1, ReachClosed DEF Closed
    <3> QED BY <3>1, <3>2
  <2> QED BY <2>1, <2>2
<1>5. Closed(t, all)
  BY <1>4 DEF Closed
<1>6. Reach(t, n) \subseteq all
  <2> HIDE DEF all
  <2>1. n \in all
    BY DEF all
  <2> QED BY <2>1, <1>3, <1>5, ReachLeast
<1> QED BY <1>2, <1>6

\* Descendants is defined, and is that.
LEMMA DescendantsReach ==
  ASSUME NEW t, Inside(t), Grounded(t), NEW n \in Ids(t)
  PROVE  Descendants(t)[n] = Reach(t, n)
<1> DEFINE Defines(f) ==
      f = [m \in Ids(t) |-> {m} \union UNION {f[c] : c \in Kids(t, m)}]
<1>1. Descendants(t) = CHOOSE f : Defines(f)
  BY DEF Descendants
<1>2. Defines([m \in Ids(t) |-> Reach(t, m)])
  <2> DEFINE r == [m \in Ids(t) |-> Reach(t, m)]
  <2>1. ASSUME NEW m \in Ids(t)
        PROVE  r[m] = {m} \union UNION {r[c] : c \in Kids(t, m)}
    <3>1. \A c \in Kids(t, m) : r[c] = Reach(t, c)
      BY DEF Inside
    <3>2. {r[c] : c \in Kids(t, m)} = {Reach(t, c) : c \in Kids(t, m)}
      BY <3>1
    <3> QED BY <3>2, ReachUnfolds
  <2> QED BY <2>1
<1> DEFINE d == Descendants(t)
<1> HIDE DEF Defines
<1>3. Defines(d)
  BY <1>1, <1>2
<1> HIDE DEF d
<1>4. \A m \in Ids(t) : d[m] = {m} \union UNION {d[c] : c \in Kids(t, m)}
  BY <1>3 DEF Defines
<1> DEFINE other == {m \in Ids(t) : d[m] # Reach(t, m)}
<1>5. SUFFICES ASSUME other # {} PROVE FALSE
  BY DEF d
<1>6. PICK m \in other : Kids(t, m) \intersect other = {}
  BY <1>5 DEF Grounded
<1>7. \A c \in Kids(t, m) : d[c] = Reach(t, c)
  BY <1>6 DEF Inside
<1>8. {d[c] : c \in Kids(t, m)} = {Reach(t, c) : c \in Kids(t, m)}
  BY <1>7
<1> QED BY <1>4, <1>6, <1>8, ReachUnfolds

-----------------------------------------------------------------------------
(* How what is below one node lies to what is below another.               *)

Related(t) ==
  \A s, o \in Ids(t) : s # o => Kids(t, s) \intersect Kids(t, o) = {}

\* With a node below m, unless it is m, its parent is below m.
LEMMA ParentWithin ==
  ASSUME NEW t, Inside(t), Related(t), NEW m \in Ids(t), NEW s \in Ids(t),
         NEW c \in Kids(t, s), c \in Reach(t, m), c # m
  PROVE  s \in Reach(t, m)
<1> SUFFICES ASSUME s \notin Reach(t, m) PROVE FALSE
  OBVIOUS
<1> DEFINE rest == Reach(t, m) \ {c}
<1>1. Reach(t, m) \subseteq Ids(t) /\ Closed(t, Reach(t, m)) /\ m \in rest
  BY ReachClosed
<1>2. \A n \in rest : Kids(t, n) \subseteq rest
  BY <1>1 DEF Closed, Related
<1>3. Closed(t, rest) /\ rest \in SUBSET Ids(t)
  BY <1>1, <1>2 DEF Closed
<1> HIDE DEF rest
<1>4. Reach(t, m) \subseteq rest
  BY <1>1, <1>3, ReachLeast
<1> QED BY <1>4 DEF rest

LEMMA NoWayBack ==
  ASSUME NEW t, Inside(t), Grounded(t), NEW s \in Ids(t), NEW c \in Kids(t, s)
  PROVE  s \notin Reach(t, c)
<1> SUFFICES ASSUME s \in Reach(t, c) PROVE FALSE
  OBVIOUS
<1> DEFINE circle == {n \in Reach(t, c) : s \in Reach(t, n)}
<1>1. c \in Ids(t)
  BY DEF Inside
<1>2. circle \subseteq Ids(t) /\ c \in circle
  BY <1>1, ReachClosed
<1>3. PICK n \in circle : Kids(t, n) \intersect circle = {}
  BY <1>2 DEF Grounded
<1>4. \A k \in Kids(t, n) : k \in Reach(t, c) /\ s \notin Reach(t, k)
  BY <1>1, <1>2, <1>3, ReachClosed DEF Closed
<1>5. s = n
  BY <1>2, <1>3, <1>4, ReachUnfolds
<1> QED BY <1>2, <1>3, <1>5

\* Two nodes with something below both are one below the other.
LEMMA Nested ==
  ASSUME NEW t, Inside(t), Related(t), NEW m \in Ids(t), NEW n \in Ids(t),
         NEW p, p \in Reach(t, m), p \in Reach(t, n), n \notin Reach(t, m)
  PROVE  m \in Reach(t, n)
<1> SUFFICES ASSUME m \notin Reach(t, n) PROVE FALSE
  OBVIOUS
<1> DEFINE rest == Reach(t, n) \ Reach(t, m)
<1>1. /\ Reach(t, n) \subseteq Ids(t) /\ Closed(t, Reach(t, n)) /\ n \in rest
  BY ReachClosed
<1>2. ASSUME NEW x \in rest, NEW c \in Kids(t, x) PROVE c \in rest
  <2>1. c \in Reach(t, n) /\ x \in Ids(t)
    BY <1>1 DEF Closed
  <2>2. c \notin Reach(t, m)
    BY <2>1, ParentWithin
  <2> QED BY <2>1, <2>2
<1>3. Closed(t, rest) /\ rest \in SUBSET Ids(t)
  BY <1>1, <1>2 DEF Closed
<1> HIDE DEF rest
<1>4. Reach(t, n) \subseteq rest
  BY <1>1, <1>3, ReachLeast
<1> QED BY <1>4 DEF rest

LEMMA SiblingsApart ==
  ASSUME NEW t, Inside(t), Related(t), Grounded(t), NEW s \in Ids(t),
         NEW c \in Kids(t, s), NEW d \in Kids(t, s), c # d
  PROVE  Reach(t, c) \intersect Reach(t, d) = {}
<1>1. c \in Ids(t) /\ d \in Ids(t)
  BY DEF Inside
<1>2. c \notin Reach(t, d)
  BY <1>1, ParentWithin, NoWayBack
<1>3. d \notin Reach(t, c)
  BY <1>1, ParentWithin, NoWayBack
<1> QED BY <1>1, <1>2, <1>3, Nested

-----------------------------------------------------------------------------
(* The first of several leaves.                                            *)

LEMMA LessThan ==
  \E less : IsWellFoundedOn(less, Nat) /\ \A j \in Nat, k \in Nat : j < k => <<j, k>> \in less
<1>1. \A j \in Nat, k \in Nat : j < k => <<j, k>> \in OpToRel(<, Nat)
  BY DEF OpToRel
<1> QED BY <1>1, NatLessThanWellFounded, Zenon

LEMMA LeastNumber ==
  ASSUME NEW ns, ns \subseteq Nat, ns # {}
  PROVE  \E i \in ns : \A j \in ns : i <= j
<1>1. PICK less : IsWellFoundedOn(less, Nat) /\ \A j \in Nat, k \in Nat : j < k => <<j, k>> \in less
  BY LessThan
<1>2. IsWellFoundedOn(less, Nat)
  BY <1>1
<1>3. \E i \in ns : \A j \in ns : ~(<<j, i>> \in less)
  BY <1>2, WFMin, ZenonT(30)
<1>4. PICK i \in ns : \A j \in ns : ~(<<j, i>> \in less)
  BY <1>3
<1>5. \A j \in ns : ~(j < i)
  BY <1>1, <1>4
<1> QED BY <1>5

Lists(t) == \A s \in Splits(t) : t.children[s] \in Seq(Ids(t)) /\ IsInjective(t.children[s])

LEMMA KidsOf ==
  ASSUME NEW t, Lists(t)
  PROVE  /\ \A s \in Splits(t) : DOMAIN t.children[s] = 1 .. Len(t.children[s])
         /\ \A n : n \in Splits(t) =>
              /\ \A i \in DOMAIN t.children[n] : t.children[n][i] \in Kids(t, n)
              /\ \A c \in Kids(t, n) : \E i \in DOMAIN t.children[n] : c = t.children[n][i]
         /\ \A n : n \notin Splits(t) => Kids(t, n) = {}
<1>1. \A s \in Splits(t) : DOMAIN t.children[s] = 1 .. Len(t.children[s])
  BY DEF Lists
<1> QED BY <1>1 DEF Kids, Range

LEMMA ListsInside ==
  ASSUME NEW t, Lists(t) PROVE Inside(t)
BY KidsOf, ElementOfSeq DEF Inside, Lists, Kids, Range

LEMMA BeforeReach ==
  ASSUME NEW t, Lists(t), Grounded(t), NEW q, NEW p
  PROVE  Before(t, q, p) <=>
           \E s \in Splits(t) : \E i \in DOMAIN t.children[s] :
             /\ p \in Reach(t, t.children[s][i])
             /\ \E j \in 1 .. i - 1 : q \in Reach(t, t.children[s][j])
<1>1. \A s \in Splits(t) : \A i \in DOMAIN t.children[s] :
        /\ Descendants(t)[t.children[s][i]] = Reach(t, t.children[s][i])
        /\ \A j \in 1 .. i - 1 :
             Descendants(t)[t.children[s][j]] = Reach(t, t.children[s][j])
  <2>1. ASSUME NEW s \in Splits(t), NEW i \in DOMAIN t.children[s]
        PROVE  Descendants(t)[t.children[s][i]] = Reach(t, t.children[s][i])
    <3>1. t.children[s][i] \in Ids(t)
      BY KidsOf, ElementOfSeq DEF Lists
    <3> QED BY <3>1, DescendantsReach, ListsInside
  <2>2. \A s \in Splits(t) : \A i \in DOMAIN t.children[s] : \A j \in 1 .. i - 1 :
          j \in DOMAIN t.children[s]
    BY KidsOf
  <2> QED BY <2>1, <2>2
<1> QED BY <1>1 DEF Before

\* Some leaf below n is read before the others of the set that are below n.
HasFirst(t, ps, n) ==
  \E p \in ps \intersect Reach(t, n) :
    \A q \in (ps \intersect Reach(t, n)) \ {p} : ~Before(t, q, p)

LEMMA FirstBelow ==
  ASSUME NEW t, Lists(t), Related(t), Grounded(t),
         NEW ps \in SUBSET LeafIds(t), LeafIds(t) \intersect Splits(t) = {},
         NEW n \in Ids(t), ps \intersect Reach(t, n) # {},
         \A c \in Kids(t, n) : ps \intersect Reach(t, c) # {} => HasFirst(t, ps, c)
  PROVE  HasFirst(t, ps, n)
<1>1. Inside(t)
  BY ListsInside
<1>2. CASE n \notin Splits(t)
  <2>1. Reach(t, n) = {n}
    BY <1>1, <1>2, KidsOf, ReachUnfolds
  <2> QED BY <2>1 DEF HasFirst
<1>3. CASE n \in Splits(t)
  <2> DEFINE kids == t.children[n]
             holding == {i \in DOMAIN kids : ps \intersect Reach(t, kids[i]) # {}}
  <2>1. n \notin ps
    BY <1>3
  <2>2. \A x \in ps \intersect Reach(t, n) : \E i \in holding : x \in Reach(t, kids[i])
    <3>1. SUFFICES ASSUME NEW x \in ps \intersect Reach(t, n)
                   PROVE  \E i \in holding : x \in Reach(t, kids[i])
      OBVIOUS
    <3>2. PICK c \in Kids(t, n) : x \in Reach(t, c)
      BY <1>1, <2>1, <3>1, ReachUnfolds
    <3>3. PICK i \in DOMAIN kids : c = kids[i]
      BY <1>3, KidsOf
    <3> QED BY <3>1, <3>2, <3>3
  <2>3. holding \subseteq Nat /\ holding # {} /\ DOMAIN kids = 1 .. Len(kids)
    BY <1>3, <2>2, KidsOf DEF Lists
  <2>4. PICK i \in holding : \A j \in holding : i <= j
    <3> HIDE DEF holding
    <3> QED BY <2>3, LeastNumber
  <2>5. kids[i] \in Kids(t, n) /\ i \in DOMAIN kids
    BY <1>3, KidsOf
  <2>6. PICK p \in ps \intersect Reach(t, kids[i]) :
          \A q \in (ps \intersect Reach(t, kids[i])) \ {p} : ~Before(t, q, p)
    BY <2>5 DEF HasFirst
  <2>7. kids[i] \in Ids(t) /\ p \in Reach(t, n)
    BY <1>1, <2>5, ReachUnfolds DEF Inside
  <2>8. ASSUME NEW q \in (ps \intersect Reach(t, n)) \ {p}, Before(t, q, p)
        PROVE  FALSE
    <3>0. PICK s \in Splits(t) : \E a \in DOMAIN t.children[s] :
            /\ p \in Reach(t, t.children[s][a])
            /\ \E b \in 1 .. a - 1 : q \in Reach(t, t.children[s][b])
      BY <2>8, BeforeReach
    <3>1. PICK a \in DOMAIN t.children[s] :
            /\ p \in Reach(t, t.children[s][a])
            /\ \E b \in 1 .. a - 1 : q \in Reach(t, t.children[s][b])
      BY <3>0
    <3>2. PICK b \in 1 .. a - 1 : q \in Reach(t, t.children[s][b])
      BY <3>1
    <3> DEFINE x == t.children[s][a]
               y == t.children[s][b]
    <3>3. b \in DOMAIN t.children[s] /\ b # a /\ a \in Nat /\ b < a
      BY KidsOf DEF Lists
    <3>4. x \in Kids(t, s) /\ y \in Kids(t, s) /\ x # y /\ s \in Ids(t)
      BY <3>3, KidsOf DEF Lists, IsInjective, Ids
    <3>5. x \in Ids(t) /\ y \in Ids(t)
      BY <1>1, <3>4 DEF Inside
    <3>6. PICK j \in holding : q \in Reach(t, kids[j])
      BY <2>2, <2>8
    <3>7. j # i /\ i < j
      <4>1. j # i
        BY <2>6, <2>8, <3>6
      <4> QED BY <4>1, <2>3, <2>4
    <3>8. kids[j] \in Kids(t, n) /\ kids[j] # kids[i] /\ kids[j] \in Ids(t)
      <4>1. kids[j] \in Kids(t, n) /\ kids[j] # kids[i]
        BY <1>3, <3>7, KidsOf DEF Lists, IsInjective
      <4> QED BY <4>1, <1>1 DEF Inside
    <3>9. q \notin Reach(t, kids[i])
      BY <1>1, <2>5, <3>6, <3>8, SiblingsApart
    <3>10. q \notin Reach(t, x)
      BY <1>1, <3>2, <3>4, SiblingsApart
    <3>11. CASE x = kids[i]
      <4>1. s = n
        BY <3>4, <3>11, <2>5 DEF Related
      <4>2. a = i
        BY <4>1, <3>11, <2>5 DEF Lists, IsInjective
      <4>3. b \notin holding
        BY <4>2, <3>3, <2>3, <2>4
      <4> QED BY <4>1, <4>3, <3>2, <3>3, <2>8
    <3>12. CASE x \in Reach(t, kids[i]) /\ x # kids[i]
      <4>1. s \in Reach(t, kids[i])
        BY <3>4, <3>12, <2>7, <1>1, ParentWithin
      <4>2. y \in Reach(t, kids[i])
        BY <4>1, <3>4, <2>7, <1>1, ReachClosed DEF Closed
      <4>3. q \in Reach(t, kids[i])
        BY <4>2, <3>2, <2>7, <1>1, ReachWithin
      <4> QED BY <4>3, <3>9
    <3>13. CASE kids[i] \in Reach(t, x) /\ x # kids[i]
      <4>1. n \in Reach(t, x)
        BY <3>13, <2>5, <3>5, <1>1, ParentWithin
      <4>2. q \in Reach(t, x)
        BY <4>1, <3>5, <1>1, <2>8, ReachWithin
      <4> QED BY <4>2, <3>10
    <3> QED BY <3>11, <3>12, <3>13, <3>1, <3>5, <2>6, <2>7, <1>1, Nested
  <2> QED BY <2>6, <2>7, <2>8 DEF HasFirst
<1> QED BY <1>2, <1>3

LEMMA FirstInIsIn ==
  ASSUME NEW t, Lists(t), Related(t), Grounded(t), Connected(t), t.root \in Ids(t),
         NEW ps \in SUBSET LeafIds(t), LeafIds(t) \intersect Splits(t) = {}, ps # {}
  PROVE  FirstIn(t, ps) \in ps
<1>1. Inside(t)
  BY ListsInside
<1>2. Reach(t, t.root) = Ids(t)
  BY <1>1, ReachClosed DEF Connected
<1> DEFINE without == {n \in Ids(t) : ps \intersect Reach(t, n) # {} /\ ~HasFirst(t, ps, n)}
<1>3. without = {}
  <2>1. SUFFICES ASSUME without # {} PROVE FALSE
    OBVIOUS
  <2>2. PICK n \in without : Kids(t, n) \intersect without = {}
    BY <2>1 DEF Grounded
  <2>3. \A c \in Kids(t, n) : ps \intersect Reach(t, c) # {} => HasFirst(t, ps, c)
    BY <1>1, <2>2 DEF Inside
  <2> QED BY <2>2, <2>3, FirstBelow
<1>4. HasFirst(t, ps, t.root)
  BY <1>2, <1>3 DEF Ids
<1>5. \E p \in ps : \A q \in ps \ {p} : ~Before(t, q, p)
  BY <1>2, <1>4 DEF HasFirst, Ids
<1> QED BY <1>5 DEF FirstIn

-----------------------------------------------------------------------------
(* Sequences with one element more and one less.                           *)

Join(s, t) == s \o t

LEMMA Joined ==
  ASSUME NEW S, NEW s \in Seq(S), NEW t \in Seq(S)
  PROVE  /\ Join(s, t) \in Seq(S) /\ Len(Join(s, t)) = Len(s) + Len(t)
         /\ \A i \in 1 .. Len(s) : Join(s, t)[i] = s[i]
         /\ \A i \in Len(s) + 1 .. Len(s) + Len(t) : Join(s, t)[i] = t[i - Len(s)]
<1>1. /\ s \o t \in Seq(S) /\ Len(s \o t) = Len(s) + Len(t)
      /\ \A i \in 1 .. Len(s) + Len(t) :
           (s \o t)[i] = IF i <= Len(s) THEN s[i] ELSE t[i - Len(s)]
  BY ConcatProperties
<1>2. /\ Join(s, t) \in Seq(S) /\ Len(Join(s, t)) = Len(s) + Len(t)
      /\ \A i \in 1 .. Len(s) + Len(t) :
           Join(s, t)[i] = IF i <= Len(s) THEN s[i] ELSE t[i - Len(s)]
  BY <1>1, Zenon DEF Join
<1>3. \A i \in 1 .. Len(s) : Join(s, t)[i] = s[i]
  BY <1>2
<1>4. \A i \in Len(s) + 1 .. Len(s) + Len(t) : Join(s, t)[i] = t[i - Len(s)]
  BY <1>2
<1> QED BY <1>2, <1>3, <1>4

LEMMA Part ==
  ASSUME NEW S, NEW s \in Seq(S), NEW m \in 1 .. Len(s) + 1, NEW n \in m - 1 .. Len(s),
         NEW r, r = SubSeq(s, m, n)
  PROVE  /\ r \in Seq(S) /\ Len(r) = n - m + 1
         /\ \A i \in 1 .. n - m + 1 : r[i] = s[m + i - 1]
BY SubSeqProperties

LEMMA InsertAtIndex ==
  ASSUME NEW S, NEW s \in Seq(S), NEW e \in S, NEW i \in 1 .. Len(s) + 1
  PROVE  /\ InsertAt(s, i, e) \in Seq(S) /\ Len(InsertAt(s, i, e)) = Len(s) + 1
         /\ \A j \in 1 .. i - 1 : InsertAt(s, i, e)[j] = s[j]
         /\ InsertAt(s, i, e)[i] = e
         /\ \A j \in i + 1 .. Len(s) + 1 : InsertAt(s, i, e)[j] = s[j - 1]
<1>1. PICK a : a = SubSeq(s, 1, i - 1)
  OBVIOUS
<1>2. PICK b : b = <<e>>
  OBVIOUS
<1>3. PICK c : c = SubSeq(s, i, Len(s))
  OBVIOUS
<1>4. InsertAt(s, i, e) = Join(Join(a, b), c)
  BY <1>1, <1>2, <1>3, Zenon DEF InsertAt, Join
<1>5. Len(s) \in Nat /\ i \in Nat /\ i >= 1 /\ i - 1 <= Len(s)
  OBVIOUS
<1>6. a \in Seq(S) /\ Len(a) = i - 1 /\ \A j \in 1 .. i - 1 : a[j] = s[j]
  <2>1. /\ a \in Seq(S) /\ Len(a) = i - 1 - 1 + 1
        /\ \A j \in 1 .. i - 1 - 1 + 1 : a[j] = s[1 + j - 1]
    BY <1>1, <1>5, Part
  <2> QED BY <2>1, <1>5
<1>7. b \in Seq(S) /\ Len(b) = 1 /\ b[1] = e
  BY <1>2
<1>8. /\ c \in Seq(S) /\ Len(c) = Len(s) - i + 1
      /\ \A j \in 1 .. Len(s) - i + 1 : c[j] = s[i + j - 1]
  BY <1>3, <1>5, Part
<1>9. /\ Join(a, b) \in Seq(S) /\ Len(Join(a, b)) = i
      /\ \A j \in 1 .. i - 1 : Join(a, b)[j] = s[j]
      /\ Join(a, b)[i] = e
  <2>1. /\ Join(a, b) \in Seq(S) /\ Len(Join(a, b)) = Len(a) + Len(b)
        /\ \A k \in 1 .. Len(a) : Join(a, b)[k] = a[k]
        /\ \A k \in Len(a) + 1 .. Len(a) + Len(b) :
             Join(a, b)[k] = b[k - Len(a)]
    BY <1>6, <1>7, Joined
  <2> QED BY <2>1, <1>5, <1>6, <1>7
<1>10. /\ Join(Join(a, b), c) \in Seq(S) /\ Len(Join(Join(a, b), c)) = Len(s) + 1
       /\ \A j \in 1 .. i : Join(Join(a, b), c)[j] = Join(a, b)[j]
       /\ \A j \in i + 1 .. Len(s) + 1 : Join(Join(a, b), c)[j] = c[j - i]
  <2> DEFINE d == Join(a, b)
  <2>0. d \in Seq(S) /\ Len(d) = i
    BY <1>9
  <2> HIDE DEF d
  <2>1. /\ Join(d, c) \in Seq(S) /\ Len(Join(d, c)) = Len(d) + Len(c)
        /\ \A k \in 1 .. Len(d) : Join(d, c)[k] = d[k]
        /\ \A k \in Len(d) + 1 .. Len(d) + Len(c) :
             Join(d, c)[k] = c[k - Len(d)]
    BY <2>0, <1>8, Joined
  <2> QED BY <2>0, <2>1, <1>5, <1>8 DEF d
<1>11. \A j \in i + 1 .. Len(s) + 1 :
         j - i \in 1 .. Len(s) - i + 1 /\ i + (j - i) - 1 = j - 1
  BY <1>5
<1> QED BY <1>4, <1>5, <1>8, <1>9, <1>10, <1>11

LEMMA RemoveAtIndex ==
  ASSUME NEW S, NEW s \in Seq(S), NEW i \in 1 .. Len(s)
  PROVE  /\ RemoveAt(s, i) \in Seq(S) /\ Len(RemoveAt(s, i)) = Len(s) - 1
         /\ \A j \in 1 .. i - 1 : RemoveAt(s, i)[j] = s[j]
         /\ \A j \in i .. Len(s) - 1 : RemoveAt(s, i)[j] = s[j + 1]
<1>1. PICK a : a = SubSeq(s, 1, i - 1)
  OBVIOUS
<1>2. PICK c : c = SubSeq(s, i + 1, Len(s))
  OBVIOUS
<1>3. RemoveAt(s, i) = Join(a, c)
  BY <1>1, <1>2, Zenon DEF RemoveAt, Join
<1>4. Len(s) \in Nat /\ i \in Nat /\ i >= 1 /\ i <= Len(s)
  OBVIOUS
<1>5. a \in Seq(S) /\ Len(a) = i - 1 /\ \A j \in 1 .. i - 1 : a[j] = s[j]
  <2>1. /\ a \in Seq(S) /\ Len(a) = i - 1 - 1 + 1
        /\ \A j \in 1 .. i - 1 - 1 + 1 : a[j] = s[1 + j - 1]
    BY <1>1, <1>4, Part
  <2> QED BY <2>1, <1>4
<1>6. /\ c \in Seq(S) /\ Len(c) = Len(s) - i
      /\ \A j \in 1 .. Len(s) - i : c[j] = s[i + j]
  <2>1. /\ c \in Seq(S) /\ Len(c) = Len(s) - (i + 1) + 1
        /\ \A j \in 1 .. Len(s) - (i + 1) + 1 : c[j] = s[i + 1 + j - 1]
    BY <1>2, <1>4, Part
  <2> QED BY <2>1, <1>4
<1>7. /\ Join(a, c) \in Seq(S) /\ Len(Join(a, c)) = Len(s) - 1
      /\ \A j \in 1 .. i - 1 : Join(a, c)[j] = a[j]
      /\ \A j \in i .. Len(s) - 1 : Join(a, c)[j] = c[j - (i - 1)]
  <2>1. /\ Join(a, c) \in Seq(S) /\ Len(Join(a, c)) = Len(a) + Len(c)
        /\ \A k \in 1 .. Len(a) : Join(a, c)[k] = a[k]
        /\ \A k \in Len(a) + 1 .. Len(a) + Len(c) :
             Join(a, c)[k] = c[k - Len(a)]
    BY <1>5, <1>6, Joined
  <2>2. Len(a) = i - 1 /\ Len(a) + 1 = i /\ Len(a) + Len(c) = Len(s) - 1
    BY <1>4, <1>5, <1>6
  <2> QED BY <2>1, <2>2, Zenon
<1>8. \A j \in i .. Len(s) - 1 :
        j - (i - 1) \in 1 .. Len(s) - i /\ i + (j - (i - 1)) = j + 1
  BY <1>4
<1> QED BY <1>3, <1>4, <1>5, <1>6, <1>7, <1>8

LEMMA InsertAtKids ==
  ASSUME NEW S, NEW s \in Seq(S), NEW e \in S, NEW i \in 1 .. Len(s) + 1,
         IsInjective(s), e \notin Range(s)
  PROVE  /\ InsertAt(s, i, e) \in Seq(S) /\ Len(InsertAt(s, i, e)) = Len(s) + 1
         /\ Range(InsertAt(s, i, e)) = Range(s) \union {e}
         /\ IsInjective(InsertAt(s, i, e))
<1>0. PICK r : r = InsertAt(s, i, e)
  OBVIOUS
<1>1. /\ r \in Seq(S) /\ Len(r) = Len(s) + 1
      /\ \A j \in 1 .. i - 1 : r[j] = s[j]
      /\ r[i] = e
      /\ \A j \in i + 1 .. Len(s) + 1 : r[j] = s[j - 1]
  <2>1. /\ InsertAt(s, i, e) \in Seq(S) /\ Len(InsertAt(s, i, e)) = Len(s) + 1
        /\ \A j \in 1 .. i - 1 : InsertAt(s, i, e)[j] = s[j]
        /\ InsertAt(s, i, e)[i] = e
        /\ \A j \in i + 1 .. Len(s) + 1 : InsertAt(s, i, e)[j] = s[j - 1]
    BY InsertAtIndex
  <2> QED BY <1>0, <2>1
<1>2. DOMAIN r = 1 .. Len(s) + 1 /\ DOMAIN s = 1 .. Len(s) /\ Len(s) \in Nat /\ i \in Nat
  BY <1>1
<1>3. \A k \in 1 .. Len(s) : s[k] = IF k < i THEN r[k] ELSE r[k + 1]
  BY <1>1, <1>2
<1>4. r[i] = e /\ i \in DOMAIN r
  BY <1>1, <1>2
<1>5. \A j \in DOMAIN r : r[j] \in Range(s) \union {e}
  <2>1. SUFFICES ASSUME NEW j \in DOMAIN r PROVE r[j] \in Range(s) \union {e}
    OBVIOUS
  <2>2. CASE j < i
    <3>1. r[j] = s[j] /\ j \in DOMAIN s
      BY <2>2, <1>1, <1>2
    <3> QED BY <3>1 DEF Range
  <2>3. CASE j > i
    <3>1. r[j] = s[j - 1] /\ j - 1 \in DOMAIN s
      BY <2>3, <1>1, <1>2
    <3> QED BY <3>1 DEF Range
  <2>4. j < i \/ j > i \/ j = i
    BY <1>2
  <2> QED BY <2>2, <2>3, <2>4, <1>1
<1>6. \A k \in DOMAIN s : s[k] \in Range(r)
  BY <1>2, <1>3 DEF Range
<1>7. Range(r) = Range(s) \union {e}
  BY <1>4, <1>5, <1>6 DEF Range
<1>8. ASSUME NEW j \in DOMAIN r, NEW k \in DOMAIN r, r[j] = r[k] PROVE j = k
  <2> DEFINE at(x) == IF x < i THEN x ELSE x - 1
  <2>1. \A x \in DOMAIN r : x # i => at(x) \in DOMAIN s /\ r[x] = s[at(x)] /\ r[x] # e
    BY <1>1, <1>2 DEF Range
  <2>2. CASE j = i \/ k = i
    BY <2>1, <2>2, <1>4, <1>8
  <2>3. CASE j # i /\ k # i
    <3>1. at(j) = at(k)
      BY <2>1, <2>3, <1>8 DEF IsInjective
    <3> QED BY <3>1, <2>3, <1>2
  <2> QED BY <2>2, <2>3
<1>9. IsInjective(r)
  BY <1>8 DEF IsInjective
<1> QED BY <1>0, <1>1, <1>7, <1>9

LEMMA RemoveAtKids ==
  ASSUME NEW S, NEW s \in Seq(S), NEW i \in 1 .. Len(s), IsInjective(s)
  PROVE  /\ RemoveAt(s, i) \in Seq(S) /\ Len(RemoveAt(s, i)) = Len(s) - 1
         /\ Range(RemoveAt(s, i)) = Range(s) \ {s[i]}
         /\ IsInjective(RemoveAt(s, i))
<1>0. PICK r : r = RemoveAt(s, i)
  OBVIOUS
<1>1. /\ r \in Seq(S) /\ Len(r) = Len(s) - 1
      /\ \A j \in 1 .. i - 1 : r[j] = s[j]
      /\ \A j \in i .. Len(s) - 1 : r[j] = s[j + 1]
  BY <1>0, RemoveAtIndex
<1>2. DOMAIN r = 1 .. Len(s) - 1 /\ DOMAIN s = 1 .. Len(s) /\ Len(s) \in Nat /\ i \in Nat
  BY <1>1
<1> DEFINE from(x) == IF x < i THEN x ELSE x + 1
<1>3. \A x \in DOMAIN r : from(x) \in DOMAIN s /\ from(x) # i /\ r[x] = s[from(x)]
  BY <1>1, <1>2
<1>4. \A k \in DOMAIN s : k # i => \E x \in DOMAIN r : k = from(x)
  <2>1. ASSUME NEW k \in DOMAIN s, k < i PROVE k \in DOMAIN r /\ k = from(k)
    BY <2>1, <1>2
  <2>2. ASSUME NEW k \in DOMAIN s, k > i PROVE k - 1 \in DOMAIN r /\ k = from(k - 1)
    BY <2>2, <1>2
  <2>3. \A k \in DOMAIN s : k # i => k < i \/ k > i
    BY <1>2
  <2> QED BY <2>1, <2>2, <2>3
<1>5. \A x \in DOMAIN r : r[x] \in Range(s) \ {s[i]}
  BY <1>2, <1>3 DEF Range, IsInjective
<1>6. \A k \in DOMAIN s : k # i => s[k] \in Range(r)
  BY <1>3, <1>4 DEF Range
<1>7. Range(r) = Range(s) \ {s[i]}
  BY <1>5, <1>6 DEF Range
<1>8. \A x \in DOMAIN r, y \in DOMAIN r : from(x) = from(y) => x = y
  BY <1>2
<1>9. IsInjective(r)
  BY <1>3, <1>8 DEF IsInjective
<1> QED BY <1>0, <1>1, <1>7, <1>9

-----------------------------------------------------------------------------
(* What a tree is good for.                                                *)

LEMMA TreeFacts ==
  ASSUME NEW given \in SUBSET Panes, NEW t, TreeOK(t, given)
  PROVE  /\ Lists(t) /\ Inside(t) /\ Related(t)
         /\ LeafIds(t) \intersect Splits(t) = {} /\ Nobody \notin Ids(t)
         /\ LeafIds(t) # {}
<1>1. LeafIds(t) \intersect Splits(t) = {} /\ Nobody \notin Ids(t)
  BY PanesAssumption DEF TreeOK, Ids
<1>2. Lists(t)
  BY DEF TreeOK, Fields, OneParent, Lists, Ids
<1>3. Inside(t)
  BY <1>2, ListsInside
<1>4. Related(t)
  BY DEF TreeOK, OneParent, Related, Kids
<1>5. LeafIds(t) # {}
  <2>1. PICK n \in Ids(t) : Kids(t, n) \intersect Ids(t) = {}
    BY DEF TreeOK, Grounded
  <2>2. n \notin Splits(t)
    <3>1. SUFFICES ASSUME n \in Splits(t) PROVE FALSE
      OBVIOUS
    <3>2. 1 \in DOMAIN t.children[n]
      BY <3>1, <1>2, KidsOf DEF TreeOK, Several, Lists
    <3>3. t.children[n][1] \in Kids(t, n)
      BY <3>1, <3>2, <1>2, KidsOf
    <3> QED BY <3>3, <1>3, <2>1 DEF Inside
  <2> QED BY <2>1, <2>2 DEF Ids
<1> QED BY <1>1, <1>2, <1>3, <1>4, <1>5

LEMMA FirstIsLeaf ==
  ASSUME NEW given \in SUBSET Panes, NEW t, TreeOK(t, given)
  PROVE  FirstLeaf(t) \in LeafIds(t)
<1>1. FirstIn(t, LeafIds(t)) \in LeafIds(t)
  BY TreeFacts, FirstInIsIn DEF TreeOK
<1> QED BY <1>1 DEF FirstLeaf

LEMMA BestIsLeaf ==
  ASSUME NEW given \in SUBSET Panes, NEW t, TreeOK(t, given), NEW score
  PROVE  Best(t, score) \in LeafIds(t) \union {Nobody}
<1> DEFINE able == {p \in LeafIds(t) : score[p] > 0}
           best == {p \in able : \A q \in able : score[q] <= score[p]}
<1>1. Best(t, score) = IF best = {} THEN Nobody ELSE FirstIn(t, best)
  BY DEF Best
<1>2. best \in SUBSET LeafIds(t)
  OBVIOUS
<1> HIDE DEF best
<1>3. best # {} => FirstIn(t, best) \in best
  BY <1>2, TreeFacts, FirstInIsIn DEF TreeOK
<1> QED BY <1>1, <1>2, <1>3

LEMMA LoneLeaf ==
  ASSUME NEW given \in SUBSET Panes, NEW t, TreeOK(t, given), t.root \in LeafIds(t)
  PROVE  LeafIds(t) = {t.root}
<1>1. Kids(t, t.root) = {}
  BY TreeFacts DEF Kids
<1>2. {t.root} \in SUBSET Ids(t) /\ Closed(t, {t.root})
  BY <1>1 DEF Closed, Ids
<1>3. {t.root} = Ids(t)
  BY <1>2 DEF TreeOK, Connected
<1> QED BY <1>3 DEF Ids

LEMMA ListLen ==
  ASSUME NEW n \in Nat, NEW f, IsList(f, n)
  PROVE  f \in Seq(Range(f)) /\ Len(f) = n /\ DOMAIN f = 1 .. n
<1>1. DOMAIN f = 1 .. n
  BY Zenon DEF IsList
<1>2. f \in [1 .. n -> Range(f)]
  BY <1>1, Zenon DEF IsList, Range
<1> QED BY <1>1, <1>2

LEMMA TreeWellFormed ==
  ASSUME NEW given \in SUBSET Panes, NEW t, TreeOK(t, given)
  PROVE  WellFormed(t)
<1>1. ASSUME NEW s \in Splits(t)
      PROVE  /\ Kids(t, s) \subseteq Ids(t) /\ IsInjective(t.children[s])
             /\ Len(t.children[s]) >= 2 /\ Len(t.shares[s]) = Len(t.children[s])
             /\ \A o \in Splits(t) \ {s} : Kids(t, s) \intersect Kids(t, o) = {}
  <2>1. Len(t.children[s]) \in Nat
    BY TreeFacts DEF Lists
  <2>2. Len(t.shares[s]) = Len(t.children[s])
    BY <2>1, ListLen DEF TreeOK, Several
  <2> QED BY <2>2, TreeFacts DEF TreeOK, OneParent, Several, Inside, Ids
<1>2. Descendants(t)[t.root] = Ids(t)
  <2>1. Descendants(t)[t.root] = Reach(t, t.root)
    BY TreeFacts, DescendantsReach DEF TreeOK
  <2>2. Reach(t, t.root) = Ids(t)
    BY TreeFacts, ReachClosed DEF TreeOK, Connected
  <2> QED BY <2>1, <2>2
<1> QED BY <1>1, <1>2, TreeFacts DEF WellFormed, TreeOK, OneParent

LEMMA LeafTree ==
  ASSUME NEW given \in SUBSET Panes, NEW p \in given, NEW v \in Values
  PROVE  TreeOK(Leaf(p, v), given)
<1> DEFINE t == Leaf(p, v)
<1>1. Empty \in [{} -> Values] /\ Empty = [s \in {} |-> Empty[s]]
      /\ Empty \in [{} -> BOOLEAN] /\ Empty \in [{} -> Seq({p} \union {})]
  BY DEF Empty
<1>2. With(Empty, p, v) \in [{p} -> Values]
  BY DEF Empty, With
<1>3. t = [root |-> p, term |-> With(Empty, p, v), vertical |-> Empty,
           shares |-> Empty, children |-> Empty]
  BY DEF Leaf
<1> HIDE DEF t
<1>4. t.root = p /\ LeafIds(t) = {p} /\ Splits(t) = {} /\ Ids(t) = {p}
  BY <1>1, <1>2, <1>3 DEF LeafIds, Splits, Ids
<1>8. Fields(t, LeafIds(t), Splits(t))
  <2>1. /\ t.term \in [{p} -> Values] /\ t.vertical = Empty /\ t.shares = Empty
        /\ t.children = Empty
    BY <1>2, <1>3
  <2>2. IsRecord(t)
    BY <1>3 DEF IsRecord
  <2> QED BY <1>1, <1>4, <2>1, <2>2 DEF Fields
<1>5. \A n : Kids(t, n) = {}
  BY <1>4 DEF Kids
<1>6. OneParent(t) /\ Several(t)
  BY <1>4 DEF OneParent, Several, Parents
<1>7. Connected(t) /\ Grounded(t)
  BY <1>4, <1>5 DEF Connected, Grounded
<1> QED BY <1>4, <1>6, <1>7, <1>8 DEF t, TreeOK

\* Other shares, other terminals.
LEMMA SameShape ==
  ASSUME NEW given \in SUBSET Panes, NEW t, TreeOK(t, given), NEW u,
         NEW term \in [LeafIds(t) -> Values], NEW shares,
         shares = [s \in Splits(t) |-> shares[s]],
         \A s \in Splits(t) : IsList(shares[s], Len(t.children[s])),
         u = [root |-> t.root, term |-> term, vertical |-> t.vertical,
              shares |-> shares, children |-> t.children]
  PROVE  TreeOK(u, given) /\ LeafIds(u) = LeafIds(t) /\ u.root = t.root /\ Splits(u) = Splits(t)
<1>1. /\ u.root = t.root /\ u.term = term /\ u.vertical = t.vertical
      /\ u.children = t.children /\ u.shares = shares
  OBVIOUS
<1>2. LeafIds(u) = LeafIds(t) /\ Splits(u) = Splits(t) /\ Fields(u, LeafIds(u), Splits(u))
  <2>1. LeafIds(u) = LeafIds(t) /\ Splits(u) = Splits(t)
    BY <1>1 DEF LeafIds, Splits
  <2>2. /\ t.vertical \in [Splits(t) -> BOOLEAN]
        /\ t.children \in [Splits(t) -> Seq(LeafIds(t) \union Splits(t))]
    BY DEF TreeOK, Fields
  <2>3. IsRecord(u)
    BY <1>1 DEF IsRecord
  <2> QED BY <1>1, <2>1, <2>2, <2>3 DEF Fields
<1>3. Ids(u) = Ids(t) /\ \A n : Kids(u, n) = Kids(t, n)
  BY <1>1, <1>2 DEF Ids, Kids
<1>4. Parents(u, u.root) = Parents(t, t.root)
  BY <1>1, <1>2, <1>3 DEF Parents
<1>5. OneParent(u)
  BY <1>1, <1>2, <1>3, <1>4 DEF OneParent, TreeOK
<1>6. Several(u)
  BY <1>1, <1>2 DEF Several, TreeOK
<1>7. Connected(u) /\ Grounded(u)
  BY <1>1, <1>2, <1>3 DEF Connected, Grounded, Closed, TreeOK
<1> QED BY <1>1, <1>2, <1>3, <1>5, <1>6, <1>7 DEF TreeOK

-----------------------------------------------------------------------------
(* A pane more: in a split of its own.                                     *)

Put(n, id, next) == IF n = id THEN next ELSE n

Image(nodes, id, next) == {Put(x, id, next) : x \in nodes}

\* Both kinds of change put a node where another was, and all the splits that
\* remain have the children they had but for that.
LEMMA ReplaceKids ==
  ASSUME NEW t, Lists(t), NEW id, NEW next, NEW T,
         NEW s \in Splits(t), next \notin Kids(t, s), Image(Kids(t, s), id, next) \subseteq T,
         IsRecord(t)
  PROVE  /\ Replace(t, id, next).children[s] \in Seq(T)
         /\ Len(Replace(t, id, next).children[s]) = Len(t.children[s])
         /\ IsInjective(Replace(t, id, next).children[s])
         /\ Range(Replace(t, id, next).children[s]) = Image(Kids(t, s), id, next)
<1>1. PICK c : c = t.children[s]
  OBVIOUS
<1>2. PICK r : r = Replace(t, id, next).children[s]
  OBVIOUS
<1>3. r = [i \in DOMAIN c |-> Put(c[i], id, next)]
  BY <1>1, <1>2 DEF Replace, Put, IsRecord
<1>4. Kids(t, s) = Range(c)
  BY <1>1 DEF Kids
<1>5. c \in Seq(Ids(t)) /\ IsInjective(c) /\ next \notin Range(c)
  BY <1>1, <1>4 DEF Lists
<1>6. DOMAIN c = 1 .. Len(c) /\ Len(c) \in Nat
  BY <1>5
<1>7. \A i \in DOMAIN c : c[i] \in Range(c) /\ r[i] = Put(c[i], id, next) /\ r[i] \in T
  BY <1>3, <1>4 DEF Range, Image
<1>8. r \in [1 .. Len(c) -> T] /\ DOMAIN r = DOMAIN c
  BY <1>3, <1>6, <1>7
<1>9. r \in Seq(T) /\ Len(r) = Len(c)
  BY <1>6, <1>8
<1>10. IsInjective(r)
  BY <1>5, <1>7, <1>8 DEF IsInjective, Put
<1>11. Range(r) = Image(Kids(t, s), id, next)
  BY <1>4, <1>7, <1>8 DEF Range, Image
<1> QED BY <1>1, <1>2, <1>9, <1>10, <1>11

NestedIn(t, u, s, p, new) ==
  /\ s \notin Ids(t) /\ new \notin Ids(t) /\ s # new
  /\ u.root = Put(t.root, p, s)
  /\ LeafIds(u) = LeafIds(t) \union {new} /\ Splits(u) = Splits(t) \union {s}
  /\ Fields(u, LeafIds(u), Splits(u))
  /\ \A o \in Splits(u) : IsInjective(u.children[o])
  /\ Several(u)
  /\ Kids(u, s) = {p, new}
  /\ \A o \in Splits(t) : Kids(u, o) = Image(Kids(t, o), p, s)

LEMMA NestedShape ==
  ASSUME NEW given \in SUBSET Panes, NEW t, TreeOK(t, given),
         NEW p \in LeafIds(t), NEW new \in Panes \ given, NEW vertical \in BOOLEAN
  PROVE  NestedIn(t, SplitNested(t, p, vertical, new), <<p, new>>, p, new)
<1>a. PICK s : s = <<p, new>>
  OBVIOUS
<1>b. PICK u : u = SplitNested(t, p, vertical, new)
  OBVIOUS
<1>1. p \in given /\ s \in Panes \X Panes /\ s \notin given \X given
  BY <1>a DEF TreeOK
<1>2. s \notin Ids(t) /\ new \notin Ids(t) /\ s # new
  BY <1>1, PanesAssumption DEF TreeOK, Ids
<1>3. /\ IsRecord(t)
      /\ t.term \in [LeafIds(t) -> Values] /\ t.vertical \in [Splits(t) -> BOOLEAN]
      /\ t.shares = [o \in Splits(t) |-> t.shares[o]]
      /\ t.children \in [Splits(t) -> Seq(LeafIds(t) \union Splits(t))]
  BY DEF TreeOK, Fields
<1> DEFINE v == Replace(t, p, s)
<1>4. v.root = Put(t.root, p, s)
  BY <1>3 DEF Replace, Put, IsRecord
<1>5. DOMAIN v.children = Splits(t)
  BY <1>3 DEF Replace, Splits, IsRecord
<1>6. /\ u.root = v.root
      /\ u.term = With(t.term, new, Nobody) /\ u.vertical = With(t.vertical, s, vertical)
      /\ u.shares = With(t.shares, s, Even(2)) /\ u.children = With(v.children, s, <<p, new>>)
      /\ IsRecord(u)
  BY <1>a, <1>b DEF SplitNested, IsRecord
<1> HIDE DEF v
<1>7. LeafIds(u) = LeafIds(t) \union {new} /\ Splits(u) = Splits(t) \union {s}
  BY <1>5, <1>6 DEF LeafIds, Splits, With
<1> DEFINE T == LeafIds(u) \union Splits(u)
<1>8. ASSUME NEW o \in Splits(t)
      PROVE  /\ u.children[o] = v.children[o] /\ u.children[o] \in Seq(T)
             /\ Len(u.children[o]) = Len(t.children[o]) /\ IsInjective(u.children[o])
             /\ Range(u.children[o]) = Image(Kids(t, o), p, s)
             /\ u.shares[o] = t.shares[o]
  <2>1. o # s
    BY <1>2 DEF Ids
  <2>2. u.children[o] = v.children[o] /\ u.shares[o] = t.shares[o]
    BY <1>3, <1>5, <1>6, <2>1 DEF With
  <2>3. Lists(t) /\ Inside(t)
    BY TreeFacts
  <2>4. Image(Kids(t, o), p, s) \subseteq T
    BY <2>3, <1>7 DEF Inside, Image, Put, Ids
  <2>5. s \notin Kids(t, o)
    BY <2>3, <1>2 DEF Inside, Ids
  <2> HIDE DEF T
  <2>6. /\ v.children[o] \in Seq(T) /\ Len(v.children[o]) = Len(t.children[o])
        /\ IsInjective(v.children[o])
        /\ Range(v.children[o]) = Image(Kids(t, o), p, s)
    <3>1. IsRecord(t) /\ Lists(t)
      BY <1>3, <2>3
    <3>2. \A q \in Splits(t) :
            s \notin Kids(t, q) /\ Image(Kids(t, q), p, s) \subseteq T =>
              /\ v.children[q] \in Seq(T) /\ Len(v.children[q]) = Len(t.children[q])
              /\ IsInjective(v.children[q])
              /\ Range(v.children[q]) = Image(Kids(t, q), p, s)
      BY <3>1, ReplaceKids DEF v
    <3> QED BY <2>4, <2>5, <3>2
  <2> QED BY <2>2, <2>6
<1>9. /\ u.children[s] = <<p, new>> /\ u.children[s] \in Seq(T) /\ Len(u.children[s]) = 2
      /\ IsInjective(u.children[s]) /\ Range(u.children[s]) = {p, new}
      /\ u.shares[s] = Even(2)
  <2>1. u.children[s] = <<p, new>> /\ u.shares[s] = Even(2)
    BY <1>6, <1>a DEF With
  <2>2. p \in T /\ new \in T /\ p # new
    BY <1>2, <1>7 DEF Ids
  <2>3. DOMAIN <<p, new>> = {1, 2}
    OBVIOUS
  <2>4. IsInjective(<<p, new>>)
    BY <2>2, <2>3 DEF IsInjective
  <2>5. Range(<<p, new>>) = {p, new}
    BY <2>3 DEF Range
  <2> HIDE DEF T
  <2> QED BY <2>1, <2>2, <2>4, <2>5
<1>10. Fields(u, LeafIds(u), Splits(u))
  <2>1. u.term \in [LeafIds(u) -> Values]
    BY <1>3, <1>6, <1>7 DEF With, Values
  <2>2. u.vertical \in [Splits(u) -> BOOLEAN]
    BY <1>3, <1>6, <1>7 DEF With
  <2>3. u.shares = [o \in Splits(u) |-> u.shares[o]]
    BY <1>3, <1>6, <1>7 DEF With
  <2>4. u.children \in [Splits(u) -> Seq(T)]
    <3>1. DOMAIN u.children = Splits(u) /\ u.children = [o \in DOMAIN u.children |-> u.children[o]]
      BY <1>6 DEF Splits, With
    <3>2. \A o \in Splits(u) : u.children[o] \in Seq(T)
      BY <1>7, <1>8, <1>9
    <3> HIDE DEF T
    <3> QED BY <3>1, <3>2
  <2> QED BY <1>6, <2>1, <2>2, <2>3, <2>4 DEF Fields
<1>11. Several(u)
  <2>1. IsList(Even(2), 2)
    BY DEF IsList, Even
  <2>2. Len(u.children[s]) >= 2 /\ IsList(u.shares[s], Len(u.children[s]))
    BY <1>9, <2>1
  <2>3. \A o \in Splits(t) :
          Len(u.children[o]) >= 2 /\ IsList(u.shares[o], Len(u.children[o]))
    BY <1>8 DEF Several, TreeOK
  <2> QED BY <2>2, <2>3, <1>7 DEF Several
<1>12. \A o \in Splits(u) : IsInjective(u.children[o]) /\ Kids(u, o) = Range(u.children[o])
  BY <1>7, <1>8, <1>9 DEF Kids
<1>13. NestedIn(t, u, s, p, new)
  BY <1>2, <1>4, <1>6, <1>7, <1>8, <1>9, <1>10, <1>11, <1>12 DEF NestedIn
<1> QED BY <1>a, <1>b, <1>13

LEMMA NestedTree ==
  ASSUME NEW given \in SUBSET Panes, NEW t, TreeOK(t, given),
         NEW p \in LeafIds(t), NEW new \in Panes \ given, NEW vertical \in BOOLEAN
  PROVE  /\ TreeOK(SplitNested(t, p, vertical, new), given \union {new})
         /\ LeafIds(SplitNested(t, p, vertical, new)) = LeafIds(t) \union {new}
<1>0. PICK s : s = <<p, new>>
  OBVIOUS
<1>1. PICK u : u = SplitNested(t, p, vertical, new)
  OBVIOUS
<1>2. /\ s \notin Ids(t) /\ new \notin Ids(t) /\ s # new
      /\ u.root = Put(t.root, p, s)
      /\ LeafIds(u) = LeafIds(t) \union {new} /\ Splits(u) = Splits(t) \union {s}
      /\ Fields(u, LeafIds(u), Splits(u))
      /\ \A o \in Splits(u) : IsInjective(u.children[o])
      /\ Several(u)
      /\ Kids(u, s) = {p, new}
      /\ \A o \in Splits(t) : Kids(u, o) = Image(Kids(t, o), p, s)
  <2>1. NestedIn(t, u, s, p, new)
    BY <1>0, <1>1, NestedShape
  <2> QED BY <2>1 DEF NestedIn
<1>3. /\ Inside(t) /\ Related(t) /\ LeafIds(t) \intersect Splits(t) = {}
      /\ \A n : n \notin Splits(t) => Kids(t, n) = {}
      /\ \A o \in Splits(t) : Kids(t, o) \subseteq Ids(t)
      /\ p \in Ids(t) /\ t.root \in Ids(t)
      /\ \A o \in Splits(t) : t.root \notin Kids(t, o)
  BY TreeFacts DEF Kids, TreeOK, OneParent, Parents, Inside, Ids
<1>4. Ids(u) = Ids(t) \union {s, new} /\ \A n : n \notin Splits(u) => Kids(u, n) = {}
  BY <1>2 DEF Ids, Kids
<1>5. \A o \in Splits(t) : \A x :
        x \in Kids(u, o) <=> (x # p /\ x \in Kids(t, o)) \/ (x = s /\ p \in Kids(t, o))
  BY <1>2, <1>3 DEF Image, Put
<1>6. Parents(u, u.root) = {}
  <2>1. SUFFICES ASSUME NEW o \in Splits(u), u.root \in Kids(u, o) PROVE FALSE
    BY DEF Parents
  <2>2. CASE o = s
    BY <2>1, <2>2, <1>2, <1>3 DEF Put
  <2>3. CASE o \in Splits(t)
    BY <2>1, <2>3, <1>2, <1>3, <1>5 DEF Put
  <2> QED BY <2>2, <2>3, <1>2
<1>7. ASSUME NEW o \in Splits(u), NEW q \in Splits(u), o # q, NEW x \in Kids(u, o), x \in Kids(u, q)
      PROVE  FALSE
  <2>1. CASE o \in Splits(t) /\ q \in Splits(t)
    <3>1. Kids(t, o) \intersect Kids(t, q) = {}
      BY <2>1, <1>3, <1>7 DEF Related, Ids
    <3>2. s \notin Kids(t, o) /\ s \notin Kids(t, q)
      BY <2>1, <1>2, <1>3
    <3> QED BY <2>1, <1>7, <1>5, <3>1, <3>2
  <2>2. CASE o = s \/ q = s
    BY <2>2, <1>7, <1>2, <1>3, <1>5
  <2> QED BY <2>1, <2>2, <1>2
<1>8. OneParent(u)
  BY <1>2, <1>6, <1>7 DEF OneParent
<1>9. Connected(u)
  <2>1. SUFFICES ASSUME NEW S \in SUBSET Ids(u), u.root \in S, Closed(u, S) PROVE S = Ids(u)
    BY DEF Connected
  <2> DEFINE T == {n \in Ids(t) : IF n = p THEN s \in S ELSE n \in S}
  <2>2. t.root \in T
    BY <2>1, <1>2, <1>3 DEF Put
  <2>3. ASSUME NEW n \in T, NEW c \in Kids(t, n) PROVE c \in T
    <3>1. n \in Splits(t) /\ n # p
      BY <2>3, <1>3
    <3>2. Kids(u, n) \subseteq S /\ c \in Ids(t)
      BY <2>1, <2>3, <3>1, <1>3 DEF Closed
    <3> QED BY <2>3, <3>1, <3>2, <1>5
  <2>4. T = Ids(t)
    <3>1. T \in SUBSET Ids(t) /\ Closed(t, T)
      BY <2>3 DEF Closed
    <3> HIDE DEF T
    <3> QED BY <3>1, <2>2 DEF TreeOK, Connected
  <2>5. s \in S
    BY <2>4, <1>3
  <2>6. p \in S /\ new \in S
    BY <2>1, <2>5, <1>2 DEF Closed
  <2> QED BY <2>1, <2>4, <2>5, <2>6, <1>4
<1>10. Grounded(u)
  <2>1. SUFFICES ASSUME NEW S \in SUBSET Ids(u), S # {}
                 PROVE  \E n \in S : Kids(u, n) \intersect S = {}
    BY DEF Grounded
  <2>2. CASE \E n \in {p, new} : n \in S
    <3>1. Kids(u, p) = {} /\ Kids(u, new) = {}
      <4>1. p \notin Splits(u) /\ new \notin Splits(u)
        BY <1>2, <1>3 DEF Ids
      <4> QED BY <4>1, <1>4
    <3> QED BY <2>2, <3>1
  <2>3. CASE s \in S /\ p \notin S /\ new \notin S
    BY <2>3, <1>2
  <2>4. CASE s \notin S /\ p \notin S /\ new \notin S
    <3>1. S \in SUBSET Ids(t)
      BY <2>1, <2>4, <1>4
    <3>2. PICK n \in S : Kids(t, n) \intersect S = {}
      BY <3>1, <2>1 DEF TreeOK, Grounded
    <3>3. Kids(u, n) \intersect S = {}
      BY <3>1, <3>2, <2>4, <1>2, <1>3, <1>4, <1>5
    <3> QED BY <3>3
  <2> QED BY <2>2, <2>3, <2>4
<1>11. LeafIds(u) \subseteq given \union {new}
       /\ Splits(u) \subseteq (given \union {new}) \X (given \union {new})
  BY <1>0, <1>2 DEF TreeOK
<1>12. u.root \in Ids(u)
  BY <1>2, <1>3, <1>4 DEF Put
<1> QED BY <1>1, <1>2, <1>8, <1>9, <1>10, <1>11, <1>12 DEF TreeOK

\* A pane more: beside its siblings.
LEMMA ParentIs ==
  ASSUME NEW t, Lists(t), NEW p, Parents(t, p) # {}
  PROVE  /\ ParentOf(t, p) \in Splits(t) /\ p \in Kids(t, ParentOf(t, p))
         /\ IndexOf(t, ParentOf(t, p), p) \in 1 .. Len(t.children[ParentOf(t, p)])
         /\ t.children[ParentOf(t, p)][IndexOf(t, ParentOf(t, p), p)] = p
<1>1. PICK s : s = ParentOf(t, p)
  OBVIOUS
<1>2. \E o \in Splits(t) : p \in Kids(t, o)
  BY DEF Parents
<1>3. s \in Splits(t) /\ p \in Kids(t, s)
  BY <1>1, <1>2 DEF ParentOf
<1>4. \E i \in DOMAIN t.children[s] : t.children[s][i] = p
  BY <1>3, KidsOf
<1>5. IndexOf(t, s, p) \in DOMAIN t.children[s] /\ t.children[s][IndexOf(t, s, p)] = p
  BY <1>4 DEF IndexOf
<1> QED BY <1>1, <1>3, <1>5, KidsOf

\* The tree with other children and shares in one split, and another set of
\* terminals.
Changed(t, u, s, term, shares, kids) ==
  u = [root |-> t.root, term |-> term, vertical |-> t.vertical,
       shares |-> [t.shares EXCEPT ![s] = shares],
       children |-> [t.children EXCEPT ![s] = kids]]

Fits(t, s, leaves, term, shares, kids) ==
  /\ term \in [leaves -> Values]
  /\ kids \in Seq(leaves \union Splits(t)) /\ IsInjective(kids) /\ Len(kids) >= 2
  /\ IsList(shares, Len(kids))
  /\ \A o \in Splits(t) \ {s} : Kids(t, o) \subseteq leaves \union Splits(t)

ChangedIn(t, u, s, leaves, kids) ==
  /\ u.root = t.root /\ LeafIds(u) = leaves /\ Splits(u) = Splits(t)
  /\ Fields(u, LeafIds(u), Splits(u))
  /\ \A o \in Splits(u) : IsInjective(u.children[o])
  /\ Several(u)
  /\ Kids(u, s) = Range(kids)
  /\ \A o : o # s => Kids(u, o) = Kids(t, o)

LEMMA ChangedShape ==
  ASSUME NEW given, NEW t, TreeOK(t, given), NEW s \in Splits(t),
         NEW leaves, NEW term, NEW shares, NEW kids, Fits(t, s, leaves, term, shares, kids),
         NEW u, Changed(t, u, s, term, shares, kids)
  PROVE  ChangedIn(t, u, s, leaves, kids)
<1>0. /\ term \in [leaves -> Values]
      /\ kids \in Seq(leaves \union Splits(t)) /\ IsInjective(kids) /\ Len(kids) >= 2
      /\ IsList(shares, Len(kids))
      /\ \A o \in Splits(t) \ {s} : Kids(t, o) \subseteq leaves \union Splits(t)
  BY DEF Fits
<1>1. /\ IsRecord(t) /\ t.vertical \in [Splits(t) -> BOOLEAN]
      /\ t.shares = [o \in Splits(t) |-> t.shares[o]]
      /\ t.children \in [Splits(t) -> Seq(LeafIds(t) \union Splits(t))]
  BY DEF TreeOK, Fields
<1>2. /\ u.root = t.root /\ u.term = term /\ u.vertical = t.vertical
      /\ u.shares = [t.shares EXCEPT ![s] = shares]
      /\ u.children = [t.children EXCEPT ![s] = kids]
      /\ IsRecord(u)
  BY DEF Changed, IsRecord
<1>3. LeafIds(u) = leaves /\ Splits(u) = Splits(t)
  BY <1>0, <1>2 DEF LeafIds, Splits
<1>4. /\ u.children[s] = kids /\ u.shares[s] = shares
      /\ \A o \in Splits(t) \ {s} : u.children[o] = t.children[o] /\ u.shares[o] = t.shares[o]
  BY <1>1, <1>2 DEF Splits
<1>5. \A o \in Splits(u) : IsInjective(u.children[o])
  BY <1>0, <1>3, <1>4 DEF TreeOK, OneParent
<1>6. Several(u)
  <2>1. Len(u.children[s]) >= 2 /\ IsList(u.shares[s], Len(u.children[s]))
    BY <1>0, <1>4
  <2>2. \A o \in Splits(t) \ {s} :
          Len(u.children[o]) >= 2 /\ IsList(u.shares[o], Len(u.children[o]))
    BY <1>4 DEF TreeOK, Several
  <2> QED BY <2>1, <2>2, <1>3 DEF Several
<1>7. Kids(u, s) = Range(kids) /\ \A o : o # s => Kids(u, o) = Kids(t, o)
  BY <1>3, <1>4 DEF Kids
<1>8. Fields(u, LeafIds(u), Splits(u))
  <2> DEFINE T == leaves \union Splits(t)
  <2>1. ASSUME NEW o \in Splits(t) \ {s} PROVE t.children[o] \in Seq(T)
    <3>1. PICK c : c = t.children[o]
      OBVIOUS
    <3>2. c \in Seq(LeafIds(t) \union Splits(t)) /\ Range(c) \subseteq T
      BY <1>0, <3>1, <1>1 DEF Kids
    <3>3. \A i \in 1 .. Len(c) : c[i] \in T
      BY <3>2 DEF Range
    <3>4. c \in [1 .. Len(c) -> T] /\ Len(c) \in Nat
      BY <3>2, <3>3
    <3> QED BY <3>1, <3>4
  <2>2. u.children \in [Splits(u) -> Seq(T)]
    <3>1. \A o \in Splits(t) : u.children[o] \in Seq(T)
      BY <1>0, <2>1, <1>4
    <3>2. u.children = [o \in Splits(t) |-> u.children[o]]
      BY <1>1, <1>2
    <3> HIDE DEF T
    <3> QED BY <1>3, <3>1, <3>2
  <2>3. u.shares = [o \in Splits(u) |-> u.shares[o]]
    BY <1>1, <1>2, <1>3
  <2> QED BY <1>0, <1>1, <1>2, <1>3, <2>2, <2>3 DEF Fields
<1> QED BY <1>2, <1>3, <1>5, <1>6, <1>7, <1>8 DEF ChangedIn

LEMMA EvenIsList ==
  ASSUME NEW n \in Nat PROVE IsList(Even(n), n)
BY DEF IsList, Even

Inserted(t, u, s, i, new) ==
  LET kids == InsertAt(t.children[s], i + 1, new)
  IN Changed(t, u, s, With(t.term, new, Nobody), Even(Len(kids)), kids)

LEMMA BesideTree ==
  ASSUME NEW given \in SUBSET Panes, NEW t, TreeOK(t, given),
         NEW new \in Panes \ given,
         NEW s \in Splits(t), NEW i \in 1 .. Len(t.children[s]),
         NEW u, Inserted(t, u, s, i, new)
  PROVE  TreeOK(u, given \union {new})
<1>a. PICK kids : kids = InsertAt(t.children[s], i + 1, new)
  OBVIOUS
<1>b. PICK term : term = With(t.term, new, Nobody)
  OBVIOUS
<1>c. PICK shares : shares = Even(Len(kids))
  OBVIOUS
<1>d. Changed(t, u, s, term, shares, kids)
  BY <1>a, <1>b, <1>c, Zenon DEF Inserted
<1>1. /\ Lists(t) /\ Inside(t) /\ Related(t) /\ LeafIds(t) \intersect Splits(t) = {}
      /\ t.root \in Ids(t) /\ \A o \in Splits(t) : t.root \notin Kids(t, o)
      /\ \A n : n \notin Splits(t) => Kids(t, n) = {}
      /\ \A o \in Splits(t) : Kids(t, o) \subseteq Ids(t)
  BY TreeFacts DEF TreeOK, OneParent, Parents, Kids, Inside, Ids
<1>2. new \notin Ids(t)
  BY PanesAssumption DEF TreeOK, Ids
<1> DEFINE leaves == LeafIds(t) \union {new}
           T == leaves \union Splits(t)
<1>3. T = Ids(t) \union {new}
  BY DEF Ids
<1>4. /\ kids \in Seq(T) /\ Len(kids) = Len(t.children[s]) + 1
      /\ Range(kids) = Kids(t, s) \union {new} /\ IsInjective(kids)
  <2>1. PICK c : c = t.children[s]
    OBVIOUS
  <2>2. c \in Seq(Ids(t)) /\ IsInjective(c) /\ Range(c) = Kids(t, s) /\ i \in 1 .. Len(c)
    BY <2>1, <1>1 DEF Lists, Kids
  <2>3. \A j \in 1 .. Len(c) : c[j] \in T
    BY <2>2, <1>3, ElementOfSeq
  <2>4. c \in Seq(T) /\ new \in T /\ i + 1 \in 1 .. Len(c) + 1 /\ Len(c) \in Nat
    <3>1. c \in [1 .. Len(c) -> T] /\ Len(c) \in Nat
      BY <2>2, <2>3
    <3> QED BY <2>2, <3>1
  <2>5. new \notin Range(c)
    BY <2>2, <1>1, <1>2
  <2> HIDE DEF T
  <2>6. kids = InsertAt(c, i + 1, new)
    BY <2>1, <1>a
  <2>7. /\ InsertAt(c, i + 1, new) \in Seq(T) /\ Len(InsertAt(c, i + 1, new)) = Len(c) + 1
        /\ Range(InsertAt(c, i + 1, new)) = Range(c) \union {new}
        /\ IsInjective(InsertAt(c, i + 1, new))
    BY <2>2, <2>4, <2>5, InsertAtKids
  <2> QED BY <2>1, <2>2, <2>6, <2>7
<1>5. Len(kids) \in Nat /\ Len(kids) >= 2
  BY <1>1, <1>4 DEF Lists, TreeOK, Several
<1>6. term \in [leaves -> Values]
  BY <1>b DEF TreeOK, Fields, With, Values
<1>7. \A o \in Splits(t) \ {s} : Kids(t, o) \subseteq T
  BY <1>1, <1>3
<1>8. /\ u.root = t.root /\ LeafIds(u) = leaves /\ Splits(u) = Splits(t)
      /\ Fields(u, LeafIds(u), Splits(u))
      /\ \A o \in Splits(u) : IsInjective(u.children[o])
      /\ Several(u)
      /\ Kids(u, s) = Range(kids)
      /\ \A o : o # s => Kids(u, o) = Kids(t, o)
  <2>1. IsList(shares, Len(kids))
    BY <1>c, <1>5, EvenIsList
  <2>2. kids \in Seq(leaves \union Splits(t)) /\ IsInjective(kids)
    BY <1>4
  <2>3. \A o \in Splits(t) \ {s} : Kids(t, o) \subseteq leaves \union Splits(t)
    BY <1>7
  <2> HIDE DEF leaves
  <2>4. Fits(t, s, leaves, term, shares, kids)
    BY <1>5, <1>6, <2>1, <2>2, <2>3 DEF Fits
  <2>5. ChangedIn(t, u, s, leaves, kids)
    BY <1>d, <2>4, ChangedShape
  <2> QED BY <2>5 DEF ChangedIn
<1>9. Kids(u, s) = Kids(t, s) \union {new} /\ Ids(u) = Ids(t) \union {new}
  BY <1>4, <1>8, <1>3 DEF Ids
<1>10. OneParent(u)
  <2>1. Parents(u, u.root) = {}
    BY <1>1, <1>2, <1>8, <1>9 DEF Parents
  <2>2. \A o, q \in Splits(u) : o # q => Kids(u, o) \intersect Kids(u, q) = {}
    BY <1>1, <1>2, <1>8, <1>9 DEF Related, Ids
  <2> QED BY <1>8, <2>1, <2>2 DEF OneParent
<1>11. Connected(u)
  <2>1. SUFFICES ASSUME NEW S \in SUBSET Ids(u), u.root \in S, Closed(u, S) PROVE S = Ids(u)
    BY DEF Connected
  <2>2. S \intersect Ids(t) \in SUBSET Ids(t) /\ t.root \in S \intersect Ids(t)
    BY <2>1, <1>1, <1>8
  <2>3. Closed(t, S \intersect Ids(t))
    BY <2>1, <1>1, <1>8, <1>9 DEF Closed, Inside
  <2>4. S \intersect Ids(t) = Ids(t)
    BY <2>2, <2>3 DEF TreeOK, Connected
  <2>5. s \in S
    BY <2>4 DEF Ids
  <2> QED BY <2>1, <2>4, <2>5, <1>9 DEF Closed
<1>12. Grounded(u)
  <2>1. SUFFICES ASSUME NEW S \in SUBSET Ids(u), S # {}
                 PROVE  \E n \in S : Kids(u, n) \intersect S = {}
    BY DEF Grounded
  <2>2. CASE new \in S
    <3>1. Kids(u, new) = {}
      BY <1>2, <1>8 DEF Kids, Ids
    <3> QED BY <2>2, <3>1
  <2>3. CASE new \notin S
    <3>1. PICK n \in S : Kids(t, n) \intersect S = {}
      BY <2>1, <2>3, <1>9 DEF TreeOK, Grounded
    <3> QED BY <2>3, <3>1, <1>8, <1>9
  <2> QED BY <2>2, <2>3
<1> QED BY <1>1, <1>8, <1>9, <1>10, <1>11, <1>12 DEF TreeOK

LEMMA SplitTree ==
  ASSUME NEW given \in SUBSET Panes, NEW t, TreeOK(t, given),
         NEW p \in LeafIds(t), NEW new \in Panes \ given, NEW vertical \in BOOLEAN
  PROVE  /\ TreeOK(SplitPane(t, p, vertical, new), given \union {new})
         /\ LeafIds(SplitPane(t, p, vertical, new)) = LeafIds(t) \union {new}
<1>1. CASE \E s \in Parents(t, p) : t.vertical[s] = vertical
  <2>1. PICK s : s = ParentOf(t, p)
    OBVIOUS
  <2>2. PICK i : i = IndexOf(t, s, p)
    OBVIOUS
  <2>3. s \in Splits(t) /\ i \in 1 .. Len(t.children[s])
    BY <1>1, <2>1, <2>2, TreeFacts, ParentIs
  <2>4. PICK kids : kids = InsertAt(t.children[s], i + 1, new)
    OBVIOUS
  <2>5. PICK u : u = SplitPane(t, p, vertical, new)
    OBVIOUS
  <2>6. u = [t EXCEPT !.term = With(@, new, Nobody), !.shares[s] = Even(Len(kids)),
                      !.children[s] = kids]
    BY <1>1, <2>1, <2>2, <2>4, <2>5 DEF SplitPane
  <2>7. Changed(t, u, s, With(t.term, new, Nobody), Even(Len(kids)), kids)
    <3>1. IsRecord(t)
      BY DEF TreeOK, Fields
    <3> QED BY <2>6, <3>1 DEF Changed, IsRecord
  <2>8. TreeOK(u, given \union {new}) /\ LeafIds(u) = LeafIds(t) \union {new}
    <3>1. Inserted(t, u, s, i, new)
      BY <2>4, <2>7, Zenon DEF Inserted
    <3>2. TreeOK(u, given \union {new})
      BY <2>3, <3>1, BesideTree
    <3>3. LeafIds(u) = LeafIds(t) \union {new}
      BY <2>7 DEF Changed, With, LeafIds
    <3> QED BY <3>2, <3>3
  <2> QED BY <2>5, <2>8
<1>2. CASE ~\E s \in Parents(t, p) : t.vertical[s] = vertical
  <2>1. SplitPane(t, p, vertical, new) = SplitNested(t, p, vertical, new)
    BY <1>2 DEF SplitPane
  <2>2. /\ TreeOK(SplitNested(t, p, vertical, new), given \union {new})
        /\ LeafIds(SplitNested(t, p, vertical, new)) = LeafIds(t) \union {new}
    BY NestedTree
  <2> QED BY <2>1, <2>2, Zenon
<1> QED BY <1>1, <1>2

\* A pane less, its siblings stay beside each other.
LEMMA LowestIsList ==
  ASSUME NEW n \in Nat, NEW f, DOMAIN f = 1 .. n
  PROVE  IsList(Lowest(f), n)
BY DEF IsList, Lowest

LEMMA SharesLeft ==
  ASSUME NEW n \in Nat, NEW f, IsList(f, n + 1), NEW i \in 1 .. n + 1
  PROVE  IsList(Lowest(Normalize(RemoveAt(f, i), n)), n)
<1>1. f \in Seq(Range(f)) /\ Len(f) = n + 1
  BY ListLen
<1>2. RemoveAt(f, i) \in Seq(Range(f)) /\ Len(RemoveAt(f, i)) = n
  BY <1>1, RemoveAtIndex
<1>3. DOMAIN RemoveAt(f, i) = 1 .. n
  BY <1>2
<1>4. DOMAIN Even(n) = 1 .. n
  BY DEF Even
<1>5. DOMAIN Normalize(RemoveAt(f, i), n) = 1 .. n
  BY <1>3, <1>4 DEF Normalize
<1> QED BY <1>5, LowestIsList

Shrunk(t, u, s, i, p) ==
  LET kids == RemoveAt(t.children[s], i)
  IN Changed(t, u, s, Without(t.term, p),
             Lowest(Normalize(RemoveAt(t.shares[s], i), Len(kids))), kids)

LEMMA ShrunkTree ==
  ASSUME NEW given \in SUBSET Panes, NEW t, TreeOK(t, given), NEW p \in LeafIds(t),
         NEW s \in Splits(t), NEW i \in 1 .. Len(t.children[s]), t.children[s][i] = p,
         Len(RemoveAt(t.children[s], i)) # 1, NEW u, Shrunk(t, u, s, i, p)
  PROVE  TreeOK(u, given)
<1>a. PICK kids : kids = RemoveAt(t.children[s], i)
  OBVIOUS
<1>b. PICK term : term = Without(t.term, p)
  OBVIOUS
<1>c. PICK shares : shares = Lowest(Normalize(RemoveAt(t.shares[s], i), Len(kids)))
  OBVIOUS
<1>d. Changed(t, u, s, term, shares, kids)
  BY <1>a, <1>b, <1>c, Zenon DEF Shrunk
<1>1. /\ Lists(t) /\ Inside(t) /\ Related(t) /\ LeafIds(t) \intersect Splits(t) = {}
      /\ t.root \in Ids(t) /\ \A o \in Splits(t) : t.root \notin Kids(t, o)
      /\ \A n : n \notin Splits(t) => Kids(t, n) = {}
      /\ \A o \in Splits(t) : Kids(t, o) \subseteq Ids(t)
  BY TreeFacts DEF TreeOK, OneParent, Parents, Kids, Inside, Ids
<1> DEFINE leaves == LeafIds(t) \ {p}
           T == leaves \union Splits(t)
<1>2. T = Ids(t) \ {p} /\ p \in Ids(t)
  BY <1>1 DEF Ids
<1>3. p \in Kids(t, s) /\ \A o \in Splits(t) \ {s} : p \notin Kids(t, o)
  BY <1>1, KidsOf DEF Related, Ids
<1>4. /\ kids \in Seq(T) /\ Len(kids) = Len(t.children[s]) - 1
      /\ Range(kids) = Kids(t, s) \ {p} /\ IsInjective(kids)
  <2>1. PICK c : c = t.children[s]
    OBVIOUS
  <2>2. /\ c \in Seq(Ids(t)) /\ IsInjective(c) /\ Range(c) = Kids(t, s) /\ i \in 1 .. Len(c)
        /\ c[i] = p
    BY <2>1, <1>1 DEF Lists, Kids
  <2>3. PICK r : r = RemoveAt(c, i)
    OBVIOUS
  <2>4. /\ r \in Seq(Ids(t)) /\ Len(r) = Len(c) - 1 /\ Range(r) = Range(c) \ {p}
        /\ IsInjective(r)
    <3>1. /\ RemoveAt(c, i) \in Seq(Ids(t)) /\ Len(RemoveAt(c, i)) = Len(c) - 1
          /\ Range(RemoveAt(c, i)) = Range(c) \ {c[i]}
          /\ IsInjective(RemoveAt(c, i))
      BY <2>2, RemoveAtKids
    <3> QED BY <2>2, <2>3, <3>1
  <2>5. \A j \in 1 .. Len(r) : r[j] \in T
    <3>1. \A j \in 1 .. Len(r) : r[j] \in Range(r) /\ r[j] \in Ids(t)
      BY <2>4 DEF Range
    <3> QED BY <3>1, <2>4, <1>2
  <2>6. r \in Seq(T)
    <3>1. r \in [1 .. Len(r) -> T] /\ Len(r) \in Nat
      BY <2>4, <2>5
    <3> QED BY <3>1
  <2> HIDE DEF T
  <2> QED BY <1>a, <2>1, <2>2, <2>3, <2>4, <2>6
<1>5. Len(kids) \in Nat /\ Len(kids) >= 2
  BY <1>a, <1>1, <1>4 DEF Lists, TreeOK, Several
<1>6. term \in [leaves -> Values]
  BY <1>b DEF TreeOK, Fields, Without, Restrict, LeafIds
<1>7. Fits(t, s, leaves, term, shares, kids)
  <2>1. IsList(shares, Len(kids))
    <3>1. IsList(t.shares[s], Len(kids) + 1) /\ i \in 1 .. Len(kids) + 1
      BY <1>1, <1>4 DEF TreeOK, Several, Lists
    <3> QED BY <1>c, <1>5, <3>1, SharesLeft
  <2>2. kids \in Seq(leaves \union Splits(t)) /\ IsInjective(kids)
    BY <1>4
  <2>3. \A o \in Splits(t) \ {s} : Kids(t, o) \subseteq leaves \union Splits(t)
    BY <1>1, <1>2, <1>3
  <2> HIDE DEF leaves
  <2> QED BY <1>5, <1>6, <2>1, <2>2, <2>3 DEF Fits
<1>8. /\ u.root = t.root /\ LeafIds(u) = leaves /\ Splits(u) = Splits(t)
      /\ Fields(u, LeafIds(u), Splits(u))
      /\ \A o \in Splits(u) : IsInjective(u.children[o])
      /\ Several(u)
      /\ Kids(u, s) = Range(kids)
      /\ \A o : o # s => Kids(u, o) = Kids(t, o)
  <2> HIDE DEF leaves
  <2>1. ChangedIn(t, u, s, leaves, kids)
    BY <1>d, <1>7, ChangedShape
  <2> QED BY <2>1 DEF ChangedIn
<1>9. Ids(u) = Ids(t) \ {p} /\ \A o : Kids(u, o) = Kids(t, o) \ {p}
  <2>1. Ids(u) = Ids(t) \ {p}
    BY <1>8, <1>2 DEF Ids
  <2>2. \A o : o # s => p \notin Kids(t, o)
    BY <1>1, <1>3
  <2> QED BY <2>1, <2>2, <1>4, <1>8
<1>10. OneParent(u)
  <2>1. Parents(u, u.root) = {}
    BY <1>1, <1>8, <1>9 DEF Parents
  <2>2. \A o, q \in Splits(u) : o # q => Kids(u, o) \intersect Kids(u, q) = {}
    BY <1>1, <1>8, <1>9 DEF Related, Ids
  <2> QED BY <1>8, <2>1, <2>2 DEF OneParent
<1>11. u.root \in Ids(u)
  BY <1>1, <1>3, <1>8, <1>9
<1>12. Connected(u)
  <2>1. SUFFICES ASSUME NEW S \in SUBSET Ids(u), u.root \in S, Closed(u, S) PROVE S = Ids(u)
    BY DEF Connected
  <2>2. S \union {p} \in SUBSET Ids(t) /\ t.root \in S \union {p}
    BY <2>1, <1>2, <1>8, <1>9
  <2>3. Closed(t, S \union {p})
    BY <2>1, <1>1, <1>9 DEF Closed
  <2>4. S \union {p} = Ids(t)
    BY <2>2, <2>3 DEF TreeOK, Connected
  <2> QED BY <2>1, <2>4, <1>9
<1>13. Grounded(u)
  BY <1>9 DEF TreeOK, Grounded
<1> QED BY <1>8, <1>10, <1>11, <1>12, <1>13 DEF TreeOK

\* The two children of a split.
BothKids(t, s, p, only) == Kids(t, s) = {p, only} /\ p # only

\* A pane less, and its only sibling in the place of the split.
LEMMA TwoKids ==
  ASSUME NEW given \in SUBSET Panes, NEW t, TreeOK(t, given),
         NEW s \in Splits(t), NEW i \in 1 .. Len(t.children[s]),
         Len(RemoveAt(t.children[s], i)) = 1
  PROVE  BothKids(t, s, t.children[s][i], RemoveAt(t.children[s], i)[1])
<1>1. PICK c : c = t.children[s]
  OBVIOUS
<1>2. Lists(t)
  BY TreeFacts
<1>3. c \in Seq(Ids(t)) /\ IsInjective(c) /\ Range(c) = Kids(t, s) /\ i \in 1 .. Len(c)
  BY <1>1, <1>2 DEF Lists, Kids
<1>4. /\ RemoveAt(c, i) \in Seq(Ids(t)) /\ Range(RemoveAt(c, i)) = Range(c) \ {c[i]}
  BY <1>3, RemoveAtKids
<1>5. PICK r : r = RemoveAt(c, i)
  OBVIOUS
<1>6. r \in Seq(Ids(t)) /\ Range(r) = Range(c) \ {c[i]} /\ Len(r) = 1
  BY <1>1, <1>4, <1>5
<1>7. Range(r) = {r[1]}
  BY <1>6 DEF Range
<1>8. c[i] \in Range(c)
  BY <1>3 DEF Range
<1>9. Range(c) = {c[i], r[1]} /\ c[i] # r[1]
  BY <1>6, <1>7, <1>8
<1>10. BothKids(t, s, c[i], r[1])
  BY <1>3, <1>9 DEF BothKids
<1> QED BY <1>1, <1>5, <1>10

GivenWay(t, u, s, p, only) ==
  /\ u.root = Put(t.root, s, only)
  /\ LeafIds(u) = LeafIds(t) \ {p} /\ Splits(u) = Splits(t) \ {s}
  /\ Fields(u, LeafIds(u), Splits(u))
  /\ \A o \in Splits(u) : IsInjective(u.children[o])
  /\ Several(u)
  /\ \A o \in Splits(u) : Kids(u, o) = Image(Kids(t, o), s, only)

LEMMA GiveWayShape ==
  ASSUME NEW given \in SUBSET Panes, NEW t, TreeOK(t, given), NEW p \in LeafIds(t),
         NEW s \in Splits(t), NEW only, Kids(t, s) = {p, only}, p # only
  PROVE  GivenWay(t, GiveWay(t, p, s, only), s, p, only)
<1>1. PICK u : u = GiveWay(t, p, s, only)
  OBVIOUS
<1>2. /\ Lists(t) /\ Inside(t) /\ Related(t) /\ LeafIds(t) \intersect Splits(t) = {}
      /\ only \in Ids(t) /\ only # s
  <2>1. Lists(t) /\ Inside(t) /\ Related(t) /\ LeafIds(t) \intersect Splits(t) = {} /\ s \in Ids(t)
    BY TreeFacts DEF Ids
  <2>2. only \in Ids(t)
    BY <2>1 DEF Inside
  <2>3. only # s
    BY <2>1, <2>2, NoWayBack, ReachClosed DEF TreeOK
  <2> QED BY <2>1, <2>2, <2>3
<1>3. /\ IsRecord(t)
      /\ t.term \in [LeafIds(t) -> Values] /\ t.vertical \in [Splits(t) -> BOOLEAN]
      /\ t.shares = [o \in Splits(t) |-> t.shares[o]]
      /\ t.children \in [Splits(t) -> Seq(LeafIds(t) \union Splits(t))]
  BY DEF TreeOK, Fields
<1> DEFINE v == Replace(t, s, only)
<1>4. v.root = Put(t.root, s, only)
  BY <1>3 DEF Replace, Put, IsRecord
<1>5. DOMAIN v.children = Splits(t)
  BY <1>3 DEF Replace, Splits, IsRecord
<1>6. /\ u.root = v.root
      /\ u.term = Without(t.term, p) /\ u.vertical = Without(t.vertical, s)
      /\ u.shares = Without(t.shares, s) /\ u.children = Without(v.children, s)
      /\ IsRecord(u)
  BY <1>1 DEF GiveWay, IsRecord
<1> HIDE DEF v
<1>7. LeafIds(u) = LeafIds(t) \ {p} /\ Splits(u) = Splits(t) \ {s}
  BY <1>3, <1>5, <1>6 DEF LeafIds, Splits, Without, Restrict
<1> DEFINE T == LeafIds(u) \union Splits(u)
<1>8. ASSUME NEW o \in Splits(u)
      PROVE  /\ u.children[o] = v.children[o] /\ u.children[o] \in Seq(T)
             /\ Len(u.children[o]) = Len(t.children[o]) /\ IsInjective(u.children[o])
             /\ Range(u.children[o]) = Image(Kids(t, o), s, only)
             /\ u.shares[o] = t.shares[o]
  <2>1. o # s /\ o \in Splits(t)
    BY <1>7
  <2>2. u.children[o] = v.children[o] /\ u.shares[o] = t.shares[o]
    BY <1>3, <1>5, <1>6, <2>1 DEF Without, Restrict
  <2>3. p \notin Kids(t, o) /\ only \notin Kids(t, o)
    BY <1>2, <2>1 DEF Related, Ids
  <2>4. Image(Kids(t, o), s, only) \subseteq T
    <3>1. Kids(t, o) \subseteq Ids(t)
      BY <1>2, <2>1 DEF Inside, Ids
    <3>2. only # p /\ only # s /\ only \in Ids(t)
      BY <1>2
    <3>3. \A x \in Kids(t, o) : Put(x, s, only) \in T
      BY <1>7, <2>3, <3>1, <3>2 DEF Put, Ids
    <3> HIDE DEF T
    <3> QED BY <3>3 DEF Image
  <2> HIDE DEF T
  <2>5. IsRecord(t) /\ Lists(t)
    BY <1>2, <1>3
  <2>6. /\ v.children[o] \in Seq(T) /\ Len(v.children[o]) = Len(t.children[o])
        /\ IsInjective(v.children[o])
        /\ Range(v.children[o]) = Image(Kids(t, o), s, only)
    <3>1. \A q \in Splits(t) :
            only \notin Kids(t, q) /\ Image(Kids(t, q), s, only) \subseteq T =>
              /\ v.children[q] \in Seq(T) /\ Len(v.children[q]) = Len(t.children[q])
              /\ IsInjective(v.children[q])
              /\ Range(v.children[q]) = Image(Kids(t, q), s, only)
      BY <2>5, ReplaceKids DEF v
    <3> QED BY <2>1, <2>3, <2>4, <3>1
  <2> QED BY <2>2, <2>6
<1>9. Fields(u, LeafIds(u), Splits(u))
  <2>1. u.term \in [LeafIds(u) -> Values]
    BY <1>3, <1>6, <1>7 DEF Without, Restrict
  <2>2. u.vertical \in [Splits(u) -> BOOLEAN]
    BY <1>3, <1>6, <1>7 DEF Without, Restrict
  <2>3. u.shares = [o \in Splits(u) |-> u.shares[o]]
    BY <1>3, <1>6, <1>7 DEF Without, Restrict
  <2>4. u.children \in [Splits(u) -> Seq(T)]
    <3>1. u.children = [o \in Splits(u) |-> u.children[o]]
      BY <1>5, <1>6, <1>7 DEF Without, Restrict
    <3>2. \A o \in Splits(u) : u.children[o] \in Seq(T)
      BY <1>8
    <3> HIDE DEF T
    <3> QED BY <3>1, <3>2
  <2> QED BY <1>6, <2>1, <2>2, <2>3, <2>4 DEF Fields
<1>10. Several(u)
  <2>1. \A o \in Splits(u) :
          Len(u.children[o]) >= 2 /\ IsList(u.shares[o], Len(u.children[o]))
    BY <1>7, <1>8 DEF Several, TreeOK
  <2> QED BY <2>1 DEF Several
<1>11. \A o \in Splits(u) : IsInjective(u.children[o]) /\ Kids(u, o) = Range(u.children[o])
  BY <1>8 DEF Kids
<1>12. GivenWay(t, u, s, p, only)
  BY <1>4, <1>6, <1>7, <1>8, <1>9, <1>10, <1>11 DEF GivenWay
<1> QED BY <1>1, <1>12

LEMMA GiveWayTree ==
  ASSUME NEW given \in SUBSET Panes, NEW t, TreeOK(t, given), NEW p \in LeafIds(t),
         NEW s \in Splits(t), NEW only, Kids(t, s) = {p, only}, p # only
  PROVE  TreeOK(GiveWay(t, p, s, only), given)
<1>1. PICK u : u = GiveWay(t, p, s, only)
  OBVIOUS
<1>2. GivenWay(t, u, s, p, only)
  BY <1>1, GiveWayShape
<1>3. /\ u.root = Put(t.root, s, only)
      /\ LeafIds(u) = LeafIds(t) \ {p} /\ Splits(u) = Splits(t) \ {s}
      /\ Fields(u, LeafIds(u), Splits(u))
      /\ \A o \in Splits(u) : IsInjective(u.children[o])
      /\ Several(u)
      /\ \A o \in Splits(u) : Kids(u, o) = Image(Kids(t, o), s, only)
  BY <1>2 DEF GivenWay
<1>4. /\ Inside(t) /\ Related(t) /\ LeafIds(t) \intersect Splits(t) = {}
      /\ s \in Ids(t) /\ p \in Ids(t) /\ only \in Ids(t) /\ only # s /\ s # p
      /\ t.root \in Ids(t) /\ t.root # p /\ t.root # only
      /\ \A o \in Splits(t) : t.root \notin Kids(t, o) /\ Kids(t, o) \subseteq Ids(t)
      /\ \A n : n \notin Splits(t) => Kids(t, n) = {}
      /\ \A o \in Splits(t) \ {s} : p \notin Kids(t, o) /\ only \notin Kids(t, o)
  <2>1. /\ Lists(t) /\ Inside(t) /\ Related(t) /\ LeafIds(t) \intersect Splits(t) = {}
        /\ s \in Ids(t) /\ p \in Ids(t) /\ t.root \in Ids(t)
    BY TreeFacts DEF Ids, TreeOK
  <2>2. only \in Ids(t) /\ s # p
    BY <2>1 DEF Inside
  <2>3. only # s
    BY <2>1, <2>2, NoWayBack, ReachClosed DEF TreeOK
  <2>4. \A o \in Splits(t) : t.root \notin Kids(t, o) /\ Kids(t, o) \subseteq Ids(t)
    BY <2>1 DEF TreeOK, OneParent, Parents, Inside, Ids
  <2>5. \A o \in Splits(t) \ {s} : p \notin Kids(t, o) /\ only \notin Kids(t, o)
    BY <2>1 DEF Related, Ids
  <2> QED BY <2>1, <2>2, <2>3, <2>4, <2>5 DEF Kids
<1>5. Ids(u) = Ids(t) \ {p, s} /\ \A n : n \notin Splits(u) => Kids(u, n) = {}
  BY <1>3, <1>4 DEF Ids, Kids
<1>6. \A o \in Splits(u) : \A x :
        x \in Kids(u, o) <=> (x # s /\ x \in Kids(t, o)) \/ (x = only /\ s \in Kids(t, o))
  BY <1>3, <1>4 DEF Image, Put
<1>7. u.root \in Ids(u)
  BY <1>3, <1>4, <1>5 DEF Put
<1>8. Parents(u, u.root) = {}
  <2>1. SUFFICES ASSUME NEW o \in Splits(u), u.root \in Kids(u, o) PROVE FALSE
    BY DEF Parents
  <2>2. o \in Splits(t) \ {s}
    BY <1>3
  <2>3. CASE t.root = s
    BY <2>1, <2>2, <2>3, <1>3, <1>4, <1>6 DEF Put
  <2>4. CASE t.root # s
    BY <2>1, <2>2, <2>4, <1>3, <1>4, <1>6 DEF Put
  <2> QED BY <2>3, <2>4
<1>9. ASSUME NEW o \in Splits(u), NEW q \in Splits(u), o # q, NEW x \in Kids(u, o), x \in Kids(u, q)
      PROVE  FALSE
  <2>1. o \in Splits(t) \ {s} /\ q \in Splits(t) \ {s}
    BY <1>3
  <2>2. Kids(t, o) \intersect Kids(t, q) = {}
    BY <2>1, <1>4, <1>9 DEF Related, Ids
  <2>3. only \notin Kids(t, o) /\ only \notin Kids(t, q)
    BY <2>1, <1>4
  <2> QED BY <2>2, <2>3, <1>6, <1>9
<1>10. OneParent(u)
  BY <1>3, <1>8, <1>9 DEF OneParent
<1>11. Connected(u)
  <2>1. SUFFICES ASSUME NEW S \in SUBSET Ids(u), u.root \in S, Closed(u, S) PROVE S = Ids(u)
    BY DEF Connected
  <2> DEFINE T == {n \in Ids(t) : n \in S \/ (only \in S /\ n \in {p, s})}
  <2>2. t.root \in T
    BY <2>1, <1>3, <1>4 DEF Put
  <2>3. ASSUME NEW n \in T, NEW c \in Kids(t, n) PROVE c \in T
    <3>1. n \in Splits(t) /\ c \in Ids(t)
      BY <2>3, <1>4
    <3>2. CASE n = s
      BY <2>1, <2>3, <3>1, <3>2, <1>5
    <3>3. CASE n # s
      <4>1. n \in Splits(u) /\ n \in S
        BY <2>3, <3>1, <3>3, <1>3, <1>4
      <4>2. Kids(u, n) \subseteq S
        BY <2>1, <4>1 DEF Closed
      <4> QED BY <2>3, <3>1, <4>1, <4>2, <1>6
    <3> QED BY <3>2, <3>3
  <2>4. T = Ids(t)
    <3>1. T \in SUBSET Ids(t) /\ Closed(t, T)
      BY <2>3 DEF Closed
    <3> HIDE DEF T
    <3> QED BY <3>1, <2>2 DEF TreeOK, Connected
  <2> QED BY <2>1, <2>4, <1>5
<1>12. Grounded(u)
  <2>1. SUFFICES ASSUME NEW S \in SUBSET Ids(u), S # {}
                 PROVE  \E n \in S : Kids(u, n) \intersect S = {}
    BY DEF Grounded
  <2> DEFINE T == IF only \in S THEN S \union {s} ELSE S
  <2>2. T \in SUBSET Ids(t) /\ T # {}
    BY <2>1, <1>4, <1>5
  <2>3. PICK n \in T : Kids(t, n) \intersect T = {}
    <3> HIDE DEF T
    <3> QED BY <2>2 DEF TreeOK, Grounded
  <2>4. n \in S /\ n # s
    BY <2>1, <2>3, <1>5
  <2>5. Kids(u, n) \intersect S = {}
    <3>1. CASE n \in Splits(u)
      BY <2>3, <3>1, <1>6
    <3>2. CASE n \notin Splits(u)
      BY <3>2, <1>5
    <3> QED BY <3>1, <3>2
  <2> QED BY <2>4, <2>5
<1>13. LeafIds(u) \subseteq given /\ Splits(u) \subseteq given \X given
  BY <1>3 DEF TreeOK
<1> QED BY <1>1, <1>3, <1>7, <1>10, <1>11, <1>12, <1>13 DEF TreeOK

LEMMA RemoveTree ==
  ASSUME NEW given \in SUBSET Panes, NEW t, TreeOK(t, given), NEW p \in LeafIds(t),
         Parents(t, p) # {}
  PROVE  TreeOK(RemovePane(t, p), given) /\ LeafIds(RemovePane(t, p)) = LeafIds(t) \ {p}
<1>1. PICK s : s = ParentOf(t, p)
  OBVIOUS
<1>2. PICK i : i = IndexOf(t, s, p)
  OBVIOUS
<1>3. PICK kids : kids = RemoveAt(t.children[s], i)
  OBVIOUS
<1>4. PICK u : u = RemovePane(t, p)
  OBVIOUS
<1>5. s \in Splits(t) /\ i \in 1 .. Len(t.children[s]) /\ t.children[s][i] = p
  BY <1>1, <1>2, TreeFacts, ParentIs
<1>6. /\ IsRecord(t) /\ t.term \in [LeafIds(t) -> Values]
  BY DEF TreeOK, Fields
<1>7. CASE Len(kids) = 1
  <2>1. u = GiveWay(t, p, s, kids[1])
    BY <1>1, <1>2, <1>3, <1>4, <1>7 DEF RemovePane
  <2>2. Kids(t, s) = {p, kids[1]} /\ p # kids[1]
    <3>1. Len(RemoveAt(t.children[s], i)) = 1
      BY <1>3, <1>7
    <3>2. BothKids(t, s, t.children[s][i], RemoveAt(t.children[s], i)[1])
      BY <1>5, <3>1, TwoKids
    <3>3. BothKids(t, s, p, kids[1])
      BY <1>3, <1>5, <3>2
    <3> QED BY <3>3 DEF BothKids
  <2>3. TreeOK(u, given)
    BY <1>5, <2>1, <2>2, GiveWayTree
  <2>4. LeafIds(u) = LeafIds(t) \ {p}
    BY <1>6, <2>1 DEF GiveWay, Without, Restrict, LeafIds
  <2> QED BY <1>4, <2>3, <2>4
<1>8. CASE Len(kids) # 1
  <2>1. u = [t EXCEPT !.term = Without(@, p),
                      !.shares[s] = Lowest(Normalize(RemoveAt(@, i), Len(kids))),
                      !.children[s] = kids]
    BY <1>1, <1>2, <1>3, <1>4, <1>8 DEF RemovePane
  <2>2. Changed(t, u, s, Without(t.term, p),
                Lowest(Normalize(RemoveAt(t.shares[s], i), Len(kids))), kids)
    BY <1>6, <2>1 DEF Changed, IsRecord
  <2>3. Shrunk(t, u, s, i, p)
    BY <1>3, <2>2, Zenon DEF Shrunk
  <2>4. TreeOK(u, given)
    BY <1>3, <1>5, <1>8, <2>3, ShrunkTree
  <2>5. LeafIds(u) = LeafIds(t) \ {p}
    BY <1>6, <2>2 DEF Changed, Without, Restrict, LeafIds
  <2> QED BY <1>4, <2>4, <2>5
<1> QED BY <1>7, <1>8

-----------------------------------------------------------------------------
(* A tree that only its shares or its terminals change in.                 *)

LEMMA SharesIsList ==
  ASSUME NEW given \in SUBSET Panes, NEW t, TreeOK(t, given), NEW s \in Splits(t)
  PROVE  /\ DOMAIN Shares(t, s) = 1 .. Len(t.children[s])
         /\ IsList(Shares(t, s), Len(t.children[s]))
<1>1. Len(t.children[s]) \in Nat /\ IsList(t.shares[s], Len(t.children[s]))
  BY TreeFacts DEF Lists, TreeOK, Several
<1>2. DOMAIN t.shares[s] = 1 .. Len(t.children[s])
  BY <1>1, ListLen
<1> QED BY <1>1, <1>2, EvenIsList DEF Shares, Normalize, Even

LEMMA MovedTree ==
  ASSUME NEW given \in SUBSET Panes, NEW t, TreeOK(t, given),
         NEW s, NEW i, NEW j, NEW first
  PROVE  /\ TreeOK(Moved(t, s, i, j, first), given)
         /\ LeafIds(Moved(t, s, i, j, first)) = LeafIds(t)
         /\ Moved(t, s, i, j, first).root = t.root
<1>1. PICK u : u = Moved(t, s, i, j, first)
  OBVIOUS
<1>2. /\ IsRecord(t) /\ t.term \in [LeafIds(t) -> Values]
      /\ t.shares = [o \in Splits(t) |-> t.shares[o]]
  BY DEF TreeOK, Fields
<1> DEFINE shares == InUnits(Shares(t, s))
           pair == shares[i] + shares[j]
           given2 == Clamp(first, pair, MinUnits * Total(Shares(t, s)))
           after == [shares EXCEPT ![i] = given2, ![j] = pair - given2]
           put == IF Positive(after) THEN Lowest(after) ELSE after
           all == [t.shares EXCEPT ![s] = put]
<1>3. u = [t EXCEPT !.shares[s] = put]
  BY <1>1 DEF Moved
<1>4. s \in Splits(t) => IsList(put, Len(t.children[s]))
  <2>1. SUFFICES ASSUME s \in Splits(t) PROVE IsList(put, Len(t.children[s]))
    OBVIOUS
  <2>2. DOMAIN after = 1 .. Len(t.children[s])
    BY <2>1, SharesIsList DEF InUnits
  <2>3. IsList(after, Len(t.children[s]))
    BY <2>2 DEF IsList
  <2>4. Len(t.children[s]) \in Nat
    BY <2>1, TreeFacts DEF Lists
  <2> HIDE DEF after
  <2> QED BY <2>2, <2>3, <2>4, LowestIsList
<1> HIDE DEF put
<1>5. u = [root |-> t.root, term |-> t.term, vertical |-> t.vertical,
           shares |-> all, children |-> t.children]
  BY <1>2, <1>3 DEF IsRecord
<1>6. all = [o \in Splits(t) |-> all[o]]
  BY <1>2
<1>7. \A o \in Splits(t) : IsList(all[o], Len(t.children[o]))
  <2>1. \A o \in Splits(t) : IsList(t.shares[o], Len(t.children[o]))
    BY DEF TreeOK, Several
  <2> QED BY <1>2, <1>4, <2>1
<1> HIDE DEF all
<1>8. TreeOK(u, given) /\ LeafIds(u) = LeafIds(t) /\ u.root = t.root
  BY <1>2, <1>5, <1>6, <1>7, SameShape
<1> QED BY <1>1, <1>8

LEMMA SnapshotTree ==
  ASSUME NEW given \in SUBSET Panes, NEW t, TreeOK(t, given)
  PROVE  /\ TreeOK(PaneTreeSnapshot(t), given)
         /\ LeafIds(PaneTreeSnapshot(t)) = LeafIds(t)
         /\ PaneTreeSnapshot(t).root = t.root
<1>1. PICK u : u = PaneTreeSnapshot(t)
  OBVIOUS
<1>2. PICK term : term = [p \in LeafIds(t) |-> Nobody]
  OBVIOUS
<1>3. /\ IsRecord(t) /\ t.shares = [o \in Splits(t) |-> t.shares[o]]
      /\ \A o \in Splits(t) : IsList(t.shares[o], Len(t.children[o]))
  BY DEF TreeOK, Fields, Several
<1>4. u = [root |-> t.root, term |-> term, vertical |-> t.vertical,
           shares |-> t.shares, children |-> t.children]
  BY <1>1, <1>2, <1>3 DEF PaneTreeSnapshot, IsRecord
<1>5. term \in [LeafIds(t) -> Values]
  BY <1>2 DEF Values
<1>6. TreeOK(u, given) /\ LeafIds(u) = LeafIds(t) /\ u.root = t.root
  BY <1>3, <1>4, <1>5, SameShape
<1> QED BY <1>1, <1>6

LEMMA ReadTree ==
  ASSUME NEW given \in SUBSET Panes, NEW t, TreeOK(t, given)
  PROVE  /\ TreeOK(ReadPaneTree(t), given)
         /\ LeafIds(ReadPaneTree(t)) = LeafIds(t)
         /\ ReadPaneTree(t).root = t.root
<1>1. /\ t.vertical \in [Splits(t) -> BOOLEAN]
      /\ t.children \in [Splits(t) -> Seq(LeafIds(t) \union Splits(t))]
      /\ t.root \in Ids(t) /\ \A s \in Splits(t) : Len(t.children[s]) >= 2
  BY DEF TreeOK, Fields, Several
<1> DEFINE kept == {s \in Splits(t) : Len(t.children[s]) > 1}
           Defines(f) == f = [n \in Ids(t) |->
             IF n \in Splits(t) \ kept THEN f[t.children[n][1]] ELSE n]
           through == CHOOSE f : Defines(f)
<1>2. kept = Splits(t)
  <2>1. \A s \in Splits(t) : Len(t.children[s]) \in Nat
    BY <1>1
  <2> QED BY <1>1, <2>1
<1>3. through = [n \in Ids(t) |-> n]
  <2>1. \A f : Defines(f) <=> f = [n \in Ids(t) |-> n]
    BY <1>2
  <2> QED BY <2>1
<1>4. PICK u : u = ReadPaneTree(t)
  OBVIOUS
<1>5. u = [root |-> through[t.root],
           term |-> [p \in LeafIds(t) |-> Nobody],
           vertical |-> Restrict(t.vertical, kept),
           shares |-> [s \in kept |-> Shares(t, s)],
           children |-> [s \in kept |->
             [i \in DOMAIN t.children[s] |-> through[t.children[s][i]]]]]
  BY <1>4 DEF ReadPaneTree
<1> HIDE DEF through, kept
<1> DEFINE term == [p \in LeafIds(t) |-> Nobody]
           shares == [s \in Splits(t) |-> Shares(t, s)]
<1>6. Restrict(t.vertical, kept) = t.vertical
  BY <1>1, <1>2 DEF Restrict
<1>7. [s \in kept |-> [i \in DOMAIN t.children[s] |-> through[t.children[s][i]]]] = t.children
  <2>1. ASSUME NEW s \in Splits(t)
        PROVE  [i \in DOMAIN t.children[s] |-> through[t.children[s][i]]] = t.children[s]
    <3>1. PICK c : c = t.children[s]
      OBVIOUS
    <3>2. c \in Seq(Ids(t))
      BY <1>1, <3>1 DEF Ids
    <3>3. \A i \in DOMAIN c : through[c[i]] = c[i]
      BY <1>3, <3>2
    <3>4. [i \in DOMAIN c |-> through[c[i]]] = c
      BY <3>2, <3>3
    <3> QED BY <3>1, <3>4
  <2> QED BY <1>1, <1>2, <2>1
<1>8. u = [root |-> t.root, term |-> term, vertical |-> t.vertical,
           shares |-> shares, children |-> t.children]
  BY <1>1, <1>2, <1>3, <1>5, <1>6, <1>7
<1>9. term \in [LeafIds(t) -> Values] /\ shares = [s \in Splits(t) |-> shares[s]]
  BY DEF Values
<1>10. \A s \in Splits(t) : IsList(shares[s], Len(t.children[s]))
  BY SharesIsList
<1> HIDE DEF term, shares
<1>11. TreeOK(u, given) /\ LeafIds(u) = LeafIds(t) /\ u.root = t.root
  BY <1>8, <1>9, <1>10, SameShape
<1> QED BY <1>4, <1>11

-----------------------------------------------------------------------------
(* The state of the tab.                                                   *)

LEMMA MoreGiven ==
  ASSUME NEW given \in SUBSET Panes, NEW more, given \subseteq more, NEW t,
         TreeOK(t, given)
  PROVE  TreeOK(t, more)
<1>1. given \X given \subseteq more \X more
  OBVIOUS
<1> QED BY <1>1 DEF TreeOK

\* A tree has a root, and a pane to focus.
LEMMA TreeOfPanes ==
  ASSUME NEW given \in SUBSET Panes, NEW t, TreeOK(t, given)
  PROVE  /\ t.root # Nobody /\ LeafIds(t) \subseteq Panes
         /\ FirstLeaf(t) \in LeafIds(t) /\ Nobody \notin LeafIds(t)
         /\ t.term \in [LeafIds(t) -> Values]
<1>1. t.root \in Ids(t) /\ LeafIds(t) \subseteq given /\ t.term \in [LeafIds(t) -> Values]
  BY DEF TreeOK, Fields
<1>2. Nobody \notin Ids(t) /\ FirstLeaf(t) \in LeafIds(t)
  BY TreeFacts, FirstIsLeaf
<1> QED BY <1>1, <1>2 DEF Ids

LEMMA InvInit == Init => IInv
<1> SUFFICES ASSUME Init PROVE IInv
  OBVIOUS
<1>1. Unsplit
  BY DEF Init, NoTree, Unsplit
<1>2. Counts
  <2>1. used \subseteq Panes /\ TabId \in used /\ starting \subseteq Mounted
    BY <1>1 DEF Init, Mounted, Panes
  <2>2. starts \in 0 .. MaxStarts /\ moves \in 0 .. MaxMoves
    BY PanesAssumption DEF Init
  <2>3. asleep \in BOOLEAN /\ tabTerm \in Values
    BY DEF Init, Values
  <2> QED BY <2>1, <2>2, <2>3 DEF Counts
<1> QED BY <1>1, <1>2 DEF Init, IInv, Shown

\* What every action but the first split finds.
LEMMA SplitState ==
  ASSUME IInv, ~Unsplit
  PROVE  /\ used \in SUBSET Panes /\ TreeOK(tree, used) /\ FocusShown
         /\ active \in LeafIds(tree) /\ active # Nobody /\ Focus = active
         /\ starting \subseteq LeafIds(tree)
<1>1. used \in SUBSET Panes /\ TreeOK(tree, used) /\ FocusShown /\ starting \subseteq LeafIds(tree)
  BY DEF IInv, Counts, Shown, Mounted
<1>2. Nobody \notin LeafIds(tree)
  BY <1>1, TreeOfPanes
<1> QED BY <1>1, <1>2 DEF FocusShown, Focus

\* Only the tree changes, and only inside.
LEMMA SameLeaves ==
  ASSUME IInv, ~Unsplit, TreeOK(tree', used), LeafIds(tree') = LeafIds(tree),
         UNCHANGED <<active, zoomed, starting, asleep, used>>,
         starts' \in 0 .. MaxStarts, moves' \in 0 .. MaxMoves, tabTerm' \in Values
  PROVE  IInv'
<1>1. used \in SUBSET Panes /\ FocusShown /\ starting \subseteq LeafIds(tree)
  BY SplitState
<1>2. tree'.root # Nobody
  BY <1>1, TreeOfPanes
<1>3. Counts'
  BY <1>1, <1>2 DEF IInv, Counts, Mounted, Unsplit
<1>4. Shown'
  BY <1>1, <1>2 DEF Shown, Unsplit, FocusShown
<1> QED BY <1>3, <1>4 DEF IInv

LEMMA StepStarted ==
  ASSUME IInv, NEW p \in Panes, Started(p)
  PROVE  IInv'
<1>1. /\ starts' \in 0 .. MaxStarts /\ starts' \in Values /\ tabTerm' \in Values
      /\ starting' = starting \ {p}
      /\ UNCHANGED <<active, zoomed, asleep, used, moves>>
      /\ tree' = IF p \in LeafIds(tree) THEN [tree EXCEPT !.term[p] = starts'] ELSE tree
  BY PanesAssumption DEF IInv, Counts, Started, Values
<1>2. CASE Unsplit
  <2>1. tree' = tree
    BY <1>1, <1>2 DEF IInv, Shown, NoTree, Empty, LeafIds
  <2> QED BY <1>1, <1>2, <2>1 DEF IInv, Counts, Shown, Unsplit, Mounted
<1>3. CASE ~Unsplit
  <2>1. used \in SUBSET Panes /\ TreeOK(tree, used) /\ FocusShown /\ starting \subseteq LeafIds(tree)
    BY <1>3, SplitState
  <2>2. TreeOK(tree', used) /\ LeafIds(tree') = LeafIds(tree)
    <3>1. CASE p \notin LeafIds(tree)
      BY <1>1, <2>1, <3>1
    <3>2. CASE p \in LeafIds(tree)
      <4>1. PICK term : term = [tree.term EXCEPT ![p] = starts']
        OBVIOUS
      <4>2. /\ IsRecord(tree) /\ tree.term \in [LeafIds(tree) -> Values]
            /\ tree.shares = [o \in Splits(tree) |-> tree.shares[o]]
            /\ \A o \in Splits(tree) : IsList(tree.shares[o], Len(tree.children[o]))
        BY <2>1 DEF TreeOK, Fields, Several
      <4>3. tree' = [root |-> tree.root, term |-> term, vertical |-> tree.vertical,
                     shares |-> tree.shares, children |-> tree.children]
        BY <1>1, <3>2, <4>1, <4>2 DEF IsRecord
      <4>4. term \in [LeafIds(tree) -> Values]
        BY <1>1, <4>1, <4>2
      <4> QED BY <2>1, <4>2, <4>3, <4>4, SameShape
    <3> QED BY <3>1, <3>2
  <2>3. tree'.root # Nobody
    BY <2>1, <2>2, TreeOfPanes
  <2>4. Counts'
    BY <1>1, <2>1, <2>2, <2>3 DEF IInv, Counts, Mounted, Unsplit
  <2>5. Shown'
    BY <1>1, <2>1, <2>2, <2>3 DEF Shown, Unsplit, FocusShown
  <2> QED BY <2>4, <2>5 DEF IInv
<1> QED BY <1>2, <1>3

LEMMA StepSplit ==
  ASSUME IInv, NEW new \in NewPanes, NEW vertical \in BOOLEAN, Split(vertical, new)
  PROVE  IInv'
<1>1. PICK base : base = IF Unsplit THEN Leaf(TabId, tabTerm) ELSE tree
  OBVIOUS
<1>2. PICK from : from = IF active # Nobody THEN active ELSE FirstLeaf(base)
  OBVIOUS
<1>3. /\ from \in LeafIds(base) /\ tree' = SplitPane(base, from, vertical, new)
      /\ active' = new /\ zoomed' = Nobody
      /\ starting' = starting \union {new} /\ used' = used \union {new}
      /\ UNCHANGED <<tabTerm, asleep, moves, starts>> /\ new \notin used
  BY <1>1, <1>2 DEF Split
<1>4. /\ used \in SUBSET Panes /\ TabId \in used /\ new \in Panes /\ used' \in SUBSET Panes
      /\ tabTerm \in Values
  BY <1>3 DEF IInv, Counts, Panes
<1>5. TreeOK(base, used) /\ starting \subseteq LeafIds(base)
  <2>1. CASE Unsplit
    <3>1. base = Leaf(TabId, tabTerm) /\ starting \subseteq {TabId}
      BY <1>1, <2>1 DEF IInv, Counts, Mounted
    <3>2. LeafIds(base) = {TabId}
      BY <3>1 DEF Leaf, LeafIds, With, Empty
    <3> QED BY <1>4, <3>1, <3>2, LeafTree
  <2>2. CASE ~Unsplit
    BY <1>1, <2>2, SplitState
  <2> QED BY <2>1, <2>2
<1>6. TreeOK(tree', used') /\ LeafIds(tree') = LeafIds(base) \union {new}
  BY <1>3, <1>4, <1>5, SplitTree
<1>7. tree'.root # Nobody
  BY <1>4, <1>6, TreeOfPanes
<1>8. Counts'
  BY <1>3, <1>4, <1>5, <1>6, <1>7 DEF IInv, Counts, Mounted, Unsplit
<1>9. Shown'
  BY <1>3, <1>6, <1>7 DEF Shown, Unsplit, FocusShown
<1> QED BY <1>8, <1>9 DEF IInv

\* The focus and the zoom change, the tree does not.
LEMMA SameTree ==
  ASSUME IInv, ~Unsplit, UNCHANGED <<tree, tabTerm, starting, asleep, used, moves, starts>>,
         active' \in LeafIds(tree), zoomed' \in {Nobody, active'}
  PROVE  IInv'
<1>1. Counts'
  BY DEF IInv, Counts, Mounted, Unsplit
<1>2. Shown'
  BY SplitState DEF Shown, Unsplit, FocusShown
<1> QED BY <1>1, <1>2 DEF IInv

LEMMA StepFocusPaneDir ==
  ASSUME IInv, NEW dir \in Dirs, FocusPaneDir(dir)
  PROVE  IInv'
<1>1. ~Unsplit
  BY DEF FocusPaneDir, Awake
<1>2. Neighbor(tree, Focus, dir) \in LeafIds(tree) \union {Nobody}
  BY <1>1, SplitState, BestIsLeaf DEF Neighbor, NeighborIn
<1> QED BY <1>1, <1>2, SameTree DEF FocusPaneDir

LEMMA StepFocusPane ==
  ASSUME IInv, NEW p \in Panes, FocusPane(p)
  PROVE  IInv'
BY SameTree DEF FocusPane, Awake

LEMMA StepTogglePaneZoom ==
  ASSUME IInv, TogglePaneZoom
  PROVE  IInv'
<1>1. ~Unsplit
  BY DEF TogglePaneZoom, Awake
<1>2. Focus = active /\ active \in LeafIds(tree)
  BY <1>1, SplitState
<1> QED BY <1>1, <1>2, SameTree DEF TogglePaneZoom

LEMMA StepResizePaneDir ==
  ASSUME IInv, NEW dir \in Dirs, ResizePaneDir(dir)
  PROVE  IInv'
<1>1. /\ ~Unsplit /\ tree' = ResizePane(tree, Focus, dir)
      /\ UNCHANGED <<active, zoomed, tabTerm, starting, asleep, used, starts>>
  BY DEF ResizePaneDir, Awake
<1>2. used \in SUBSET Panes /\ TreeOK(tree, used)
  BY <1>1, SplitState
<1>3. /\ starts' \in 0 .. MaxStarts /\ moves' \in 0 .. MaxMoves /\ tabTerm' \in Values
  BY PanesAssumption DEF ResizePaneDir, IInv, Counts
<1>4. TreeOK(tree', used) /\ LeafIds(tree') = LeafIds(tree)
  <2>1. CASE Seams(tree, Focus, dir) = {}
    BY <1>1, <1>2, <2>1 DEF ResizePane
  <2>2. CASE Seams(tree, Focus, dir) # {}
    <3>1. \E s, i, j, first : tree' = Moved(tree, s, i, j, first)
      BY <1>1, <2>2 DEF ResizePane
    <3> QED BY <1>2, <3>1, MovedTree
  <2> QED BY <2>1, <2>2
<1> QED BY <1>1, <1>3, <1>4, SameLeaves

LEMMA StepSetPaneRatio ==
  ASSUME IInv, NEW s, NEW i, NEW position, SetPaneRatio(s, i, position)
  PROVE  IInv'
<1>1. /\ ~Unsplit /\ tree' = SetPaneBoundary(tree, s, i, position)
      /\ UNCHANGED <<active, zoomed, tabTerm, starting, asleep, used, starts>>
  BY DEF SetPaneRatio, Awake
<1>2. used \in SUBSET Panes /\ TreeOK(tree, used)
  BY <1>1, SplitState
<1>3. /\ starts' \in 0 .. MaxStarts /\ moves' \in 0 .. MaxMoves /\ tabTerm' \in Values
  BY PanesAssumption DEF SetPaneRatio, IInv, Counts
<1>4. TreeOK(tree', used) /\ LeafIds(tree') = LeafIds(tree)
  BY <1>1, <1>2, MovedTree DEF SetPaneBoundary
<1> QED BY <1>1, <1>3, <1>4, SameLeaves

LEMMA StepRemoveTerminalPane ==
  ASSUME IInv, NEW p \in Panes, RemoveTerminalPane(p)
  PROVE  IInv'
<1>1. /\ ~Unsplit /\ p \in LeafIds(tree) /\ Parents(tree, p) # {}
      /\ tree' = RemovePane(tree, p) /\ starting' = starting \ {p}
      /\ zoomed' = (IF zoomed = p THEN Nobody ELSE zoomed)
      /\ UNCHANGED <<asleep, used, moves, starts>>
  BY DEF RemoveTerminalPane, Awake, ZoomAfter
<1>2. /\ used \in SUBSET Panes /\ TreeOK(tree, used) /\ FocusShown
      /\ active \in LeafIds(tree) /\ starting \subseteq LeafIds(tree)
  BY <1>1, SplitState
<1>3. TreeOK(tree', used) /\ LeafIds(tree') = LeafIds(tree) \ {p}
  BY <1>1, <1>2, RemoveTree
<1>4. /\ tree'.root # Nobody /\ FirstLeaf(tree') \in LeafIds(tree')
      /\ tree'.term \in [LeafIds(tree') -> Values]
  BY <1>2, <1>3, TreeOfPanes
<1>5. PICK heir : heir = PaneTakingOver(tree, tree', p)
  OBVIOUS
<1>6. heir \in LeafIds(tree') \union {Nobody}
  BY <1>2, <1>3, <1>5, BestIsLeaf DEF PaneTakingOver
<1>7. IF tree'.root \in LeafIds(tree')
      THEN active' = tree'.root /\ tabTerm' = tree'.term[tree'.root]
      ELSE /\ active' = IF active # p THEN active
                        ELSE IF heir # Nobody THEN heir ELSE FirstLeaf(tree')
           /\ UNCHANGED tabTerm
  BY <1>5 DEF RemoveTerminalPane
<1>8. tabTerm' \in Values
  BY <1>4, <1>7 DEF IInv, Counts
<1>9. active' \in LeafIds(tree') /\ zoomed' \in {Nobody, active'}
  <2>1. CASE tree'.root \in LeafIds(tree')
    <3>1. LeafIds(tree') = {tree'.root}
      BY <1>2, <1>3, <2>1, LoneLeaf
    <3>2. active' = tree'.root
      BY <1>7, <2>1
    <3> QED BY <1>1, <1>2, <1>3, <3>1, <3>2 DEF FocusShown
  <2>2. CASE tree'.root \notin LeafIds(tree')
    BY <1>1, <1>2, <1>3, <1>4, <1>6, <1>7, <2>2 DEF FocusShown
  <2> QED BY <2>1, <2>2
<1>10. Counts'
  BY <1>1, <1>2, <1>3, <1>4, <1>8 DEF IInv, Counts, Mounted, Unsplit
<1>11. Shown'
  BY <1>1, <1>3, <1>4, <1>9 DEF Shown, Unsplit, FocusShown
<1> QED BY <1>10, <1>11 DEF IInv

\* A tree is adopted that has the panes the tab had.
LEMMA Adopted ==
  ASSUME IInv, NEW t, Adopt(t), tabTerm' = Nobody, UNCHANGED <<used, moves, starts>>,
         IF Unsplit THEN t = tree ELSE TreeOK(t, used) /\ LeafIds(t) = LeafIds(tree),
         starting' \subseteq Mounted, asleep' \in BOOLEAN
  PROVE  IInv'
<1>1. /\ tree' = t /\ zoomed' = Nobody
      /\ active' = IF t.root = Nobody THEN Nobody ELSE FirstLeaf(t)
  BY DEF Adopt
<1>2. /\ used \subseteq Panes /\ TabId \in used
      /\ starts' \in 0 .. MaxStarts /\ moves' \in 0 .. MaxMoves /\ tabTerm' \in Values
  BY DEF IInv, Counts, Values
<1>3. CASE Unsplit
  <2>1. Unsplit' /\ tree' = NoTree /\ active' = Nobody
    BY <1>1, <1>3 DEF IInv, Shown, Unsplit
  <2>2. Counts'
    BY <1>2, <1>3, <2>1 DEF Counts, Mounted
  <2> QED BY <1>1, <2>1, <2>2 DEF IInv, Shown
<1>4. CASE ~Unsplit
  <2>1. t.root # Nobody /\ FirstLeaf(t) \in LeafIds(t)
    BY <1>2, <1>4, TreeOfPanes
  <2>2. ~Unsplit'
    BY <1>1, <2>1 DEF Unsplit
  <2>3. Counts'
    BY <1>1, <1>2, <1>4, <2>2 DEF Counts, Mounted
  <2>4. Shown'
    BY <1>1, <1>4, <2>1, <2>2 DEF Shown, FocusShown
  <2> QED BY <2>3, <2>4 DEF IInv
<1> QED BY <1>3, <1>4

LEMMA StepSleep ==
  ASSUME IInv, Sleep
  PROVE  IInv'
<1>1. PICK t : t = IF Unsplit THEN tree ELSE PaneTreeSnapshot(tree)
  OBVIOUS
<1>2. /\ Adopt(t) /\ tabTerm' = Nobody /\ UNCHANGED <<used, moves, starts>>
      /\ starting' \subseteq Mounted /\ asleep' \in BOOLEAN
  BY <1>1 DEF Sleep
<1>3. IF Unsplit THEN t = tree ELSE TreeOK(t, used) /\ LeafIds(t) = LeafIds(tree)
  BY <1>1, SplitState, SnapshotTree
<1> QED BY <1>2, <1>3, Adopted

LEMMA StepRestart ==
  ASSUME IInv, Restart
  PROVE  IInv'
<1>1. PICK u : u = PaneTreeSnapshot(tree)
  OBVIOUS
<1>2. PICK t : t = IF Unsplit THEN tree ELSE ReadPaneTree(u)
  OBVIOUS
<1>3. /\ Adopt(t) /\ tabTerm' = Nobody /\ UNCHANGED <<used, moves, starts>>
      /\ starting' \subseteq Mounted /\ asleep' \in BOOLEAN
  BY <1>1, <1>2 DEF Restart, IInv, Counts
<1>4. IF Unsplit THEN t = tree ELSE TreeOK(t, used) /\ LeafIds(t) = LeafIds(tree)
  <2>1. CASE Unsplit
    BY <1>2, <2>1
  <2>2. CASE ~Unsplit
    <3>1. used \in SUBSET Panes /\ TreeOK(tree, used)
      BY <2>2, SplitState
    <3>2. TreeOK(u, used) /\ LeafIds(u) = LeafIds(tree)
      BY <1>1, <3>1, SnapshotTree
    <3>3. TreeOK(ReadPaneTree(u), used) /\ LeafIds(ReadPaneTree(u)) = LeafIds(u)
      BY <3>1, <3>2, ReadTree
    <3> QED BY <1>2, <2>2, <3>2, <3>3
  <2> QED BY <2>1, <2>2
<1> QED BY <1>3, <1>4, Adopted

LEMMA StepWake ==
  ASSUME IInv, Wake
  PROVE  IInv'
<1>1. Mounted' = Mounted
  BY DEF Wake, Mounted, Unsplit
<1>2. Counts'
  BY <1>1 DEF Wake, IInv, Counts
<1>3. Shown'
  BY DEF Wake, IInv, Shown, Unsplit, FocusShown
<1> QED BY <1>2, <1>3 DEF IInv

LEMMA InvNext == IInv /\ [Next]_vars => IInv'
<1> SUFFICES ASSUME IInv, [Next]_vars PROVE IInv'
  OBVIOUS
<1>1. CASE TogglePaneZoom
  BY <1>1, StepTogglePaneZoom
<1>2. CASE Sleep
  BY <1>2, StepSleep
<1>3. CASE Wake
  BY <1>3, StepWake
<1>4. CASE Restart
  BY <1>4, StepRestart
<1>5. ASSUME NEW p \in Panes, Started(p) \/ FocusPane(p) \/ RemoveTerminalPane(p)
      PROVE  IInv'
  BY <1>5, StepStarted, StepFocusPane, StepRemoveTerminalPane
<1>6. ASSUME NEW new \in NewPanes, NEW vertical \in BOOLEAN, Split(vertical, new)
      PROVE  IInv'
  BY <1>6, StepSplit
<1>7. ASSUME NEW dir \in Dirs, FocusPaneDir(dir) \/ ResizePaneDir(dir)
      PROVE  IInv'
  BY <1>7, StepFocusPaneDir, StepResizePaneDir
<1>8. ASSUME NEW s, NEW i, NEW position, SetPaneRatio(s, i, position)
      PROVE  IInv'
  BY <1>8, StepSetPaneRatio
<1>9. CASE UNCHANGED vars
  <2>1. Counts'
    BY <1>9 DEF vars, IInv, Counts, Mounted, Unsplit
  <2>2. Shown'
    BY <1>9 DEF vars, IInv, Shown, Unsplit, FocusShown
  <2> QED BY <2>1, <2>2 DEF IInv
<1> QED BY <1>1, <1>2, <1>3, <1>4, <1>5, <1>6, <1>7, <1>8, <1>9 DEF Next

LEMMA InvTypeOK == IInv => TypeOK
<1> SUFFICES ASSUME IInv PROVE TypeOK
  OBVIOUS
<1>1. /\ used \subseteq Panes /\ TabId \in used
      /\ starting \subseteq Mounted /\ asleep \in BOOLEAN
      /\ starts \in 0 .. MaxStarts /\ moves \in 0 .. MaxMoves
      /\ tabTerm \in 1 .. MaxStarts \union {Nobody}
  BY DEF IInv, Counts, Values
<1>2. CASE Unsplit
  <2>1. tree = NoTree /\ active = Nobody /\ zoomed = Nobody
    BY <1>2 DEF IInv, Shown
  <2>2. LeafIds(tree) = {} /\ tree.term \in [{} -> 1 .. MaxStarts \union {Nobody}]
    BY <2>1 DEF NoTree, Empty, LeafIds
  <2> QED BY <1>1, <1>2, <2>1, <2>2 DEF TypeOK
<1>3. CASE ~Unsplit
  <2>1. used \in SUBSET Panes /\ TreeOK(tree, used) /\ FocusShown
    BY <1>3, SplitState
  <2>2. WellFormed(tree)
    BY <2>1, TreeWellFormed
  <2>3. LeafIds(tree) \subseteq used /\ tree.term \in [LeafIds(tree) -> Values]
    BY <2>1 DEF TreeOK, Fields
  <2> QED BY <1>1, <1>3, <2>1, <2>2, <2>3 DEF TypeOK, Values
<1> QED BY <1>2, <1>3

\* The state of a tab is consistent whatever the user, its shells and the
\* application do to it, with any number of panes: the tree is a tree whose
\* panes are ids given out, the focus is in a pane of it and in the zoomed one
\* (splitTerminalPane, removeTerminalPane, paneFields), and a shell that starts
\* has a pane to appear in (setPaneTermId).
THEOREM TypeCorrect == Spec => []TypeOK
<1>1. Spec => []IInv
  BY InvInit, InvNext, PTL DEF Spec
<1> QED BY <1>1, InvTypeOK, PTL

-----------------------------------------------------------------------------
(* Jumps of the focus.                                                     *)

Rects == [x : Int, y : Int, w : Int, h : Int]

LEMMA Common ==
  ASSUME NEW a \in Int, NEW b \in Int, NEW c \in Int, NEW d \in Int
  PROVE  /\ Lesser(c + d, a + b) - Greater(c, a) = Lesser(a + b, c + d) - Greater(a, c)
         /\ Lesser(a + b, c + d) - Greater(a, c) \in Int
         /\ Lesser(a + b, c + d) - Greater(a, c) <= b
BY DEF Lesser, Greater

LEMMA OverlapXBack ==
  ASSUME NEW r \in Rects, NEW q \in Rects
  PROVE  /\ OverlapX(q, r) = OverlapX(r, q) /\ OverlapX(r, q) \in Int
         /\ OverlapX(r, q) <= r.w
<1>1. PICK a \in Int : a = r.x
  BY DEF Rects
<1>2. PICK b \in Int : b = r.w
  BY DEF Rects
<1>3. PICK c \in Int : c = q.x
  BY DEF Rects
<1>4. PICK d \in Int : d = q.w
  BY DEF Rects
<1>5. /\ Lesser(c + d, a + b) - Greater(c, a) = Lesser(a + b, c + d) - Greater(a, c)
      /\ Lesser(a + b, c + d) - Greater(a, c) \in Int
      /\ Lesser(a + b, c + d) - Greater(a, c) <= b
  BY Common, Zenon
<1>6. OverlapX(r, q) = Lesser(a + b, c + d) - Greater(a, c)
  BY <1>1, <1>2, <1>3, <1>4, Zenon DEF OverlapX
<1>7. OverlapX(q, r) = Lesser(c + d, a + b) - Greater(c, a)
  BY <1>1, <1>2, <1>3, <1>4, Zenon DEF OverlapX
<1> QED BY <1>2, <1>5, <1>6, <1>7, Zenon

LEMMA OverlapYBack ==
  ASSUME NEW r \in Rects, NEW q \in Rects
  PROVE  /\ OverlapY(q, r) = OverlapY(r, q) /\ OverlapY(r, q) \in Int
         /\ OverlapY(r, q) <= r.h
<1>1. PICK a \in Int : a = r.y
  BY DEF Rects
<1>2. PICK b \in Int : b = r.h
  BY DEF Rects
<1>3. PICK c \in Int : c = q.y
  BY DEF Rects
<1>4. PICK d \in Int : d = q.h
  BY DEF Rects
<1>5. /\ Lesser(c + d, a + b) - Greater(c, a) = Lesser(a + b, c + d) - Greater(a, c)
      /\ Lesser(a + b, c + d) - Greater(a, c) \in Int
      /\ Lesser(a + b, c + d) - Greater(a, c) <= b
  BY Common, Zenon
<1>6. OverlapY(r, q) = Lesser(a + b, c + d) - Greater(a, c)
  BY <1>1, <1>2, <1>3, <1>4, Zenon DEF OverlapY
<1>7. OverlapY(q, r) = Lesser(c + d, a + b) - Greater(c, a)
  BY <1>1, <1>2, <1>3, <1>4, Zenon DEF OverlapY
<1> QED BY <1>2, <1>5, <1>6, <1>7, Zenon

\* Two panes face each other or they do not.
LEMMA FacingBack ==
  ASSUME NEW from \in Rects, NEW r \in Rects, NEW dir \in Dirs
  PROVE  /\ Opposite(dir) \in Dirs
         /\ Facing(r, from, Opposite(dir)) = Facing(from, r, dir)
         /\ Facing(from, r, dir) \in Int
<1>1. /\ from.x \in Int /\ from.y \in Int /\ from.w \in Int /\ from.h \in Int
      /\ r.x \in Int /\ r.y \in Int /\ r.w \in Int /\ r.h \in Int
  BY DEF Rects
<1>2. OverlapX(r, from) = OverlapX(from, r) /\ OverlapX(from, r) \in Int
  BY OverlapXBack
<1>3. OverlapY(r, from) = OverlapY(from, r) /\ OverlapY(from, r) \in Int
  BY OverlapYBack
<1>4. Opposite(dir) \in Dirs /\ (dir \in {"left", "right"} <=> Opposite(dir) \in {"left", "right"})
  BY DEF Dirs, Opposite
<1>5. Touches(from, r, dir) <=> Touches(r, from, Opposite(dir))
  <2>1. CASE dir = "left"
    BY <1>1, <2>1 DEF Touches, Opposite
  <2>2. CASE dir = "right"
    BY <1>1, <2>2 DEF Touches, Opposite
  <2>3. CASE dir = "up"
    BY <1>1, <2>3 DEF Touches, Opposite
  <2>4. CASE dir = "down"
    BY <1>1, <2>4 DEF Touches, Opposite
  <2> QED BY <2>1, <2>2, <2>3, <2>4 DEF Dirs
<1> QED BY <1>2, <1>3, <1>4, <1>5 DEF Facing

\* A pane shares no more of an edge than it has.
LEMMA FacingBounded ==
  ASSUME NEW from \in Rects, NEW r \in Rects, NEW dir \in Dirs, from.w > 0, from.h > 0
  PROVE  Facing(from, r, dir) <= from.w + from.h
<1>1. /\ from.x \in Int /\ from.y \in Int /\ from.w \in Int /\ from.h \in Int
      /\ r.x \in Int /\ r.y \in Int /\ r.w \in Int /\ r.h \in Int
  BY DEF Rects
<1>2. OverlapX(from, r) <= from.w /\ OverlapX(from, r) \in Int
  BY OverlapXBack
<1>3. OverlapY(from, r) <= from.h /\ OverlapY(from, r) \in Int
  BY OverlapYBack
<1> QED BY <1>1, <1>2, <1>3 DEF Facing

\* Of bounded scores one is the largest.
LEMMA BestThere ==
  ASSUME NEW given \in SUBSET Panes, NEW t, TreeOK(t, given),
         NEW score, NEW most \in Int,
         \A q \in LeafIds(t) : score[q] \in Int /\ score[q] <= most,
         NEW r \in LeafIds(t), score[r] > 0
  PROVE  Best(t, score) \in LeafIds(t) /\ score[Best(t, score)] > 0
<1> DEFINE able == {p \in LeafIds(t) : score[p] > 0}
           best == {p \in able : \A q \in able : score[q] <= score[p]}
           short == {n \in Nat : \E q \in able : n = most - score[q]}
<1>1. Best(t, score) = IF best = {} THEN Nobody ELSE FirstIn(t, best)
  BY DEF Best
<1>2. best \in SUBSET LeafIds(t)
  OBVIOUS
<1>3. best # {}
  <2>1. most - score[r] \in short
    OBVIOUS
  <2>2. PICK n \in short : \A m \in short : n <= m
    <3> HIDE DEF short
    <3>1. short \subseteq Nat
      BY DEF short
    <3> QED BY <2>1, <3>1, LeastNumber
  <2>3. PICK q \in able : n = most - score[q]
    BY <2>2
  <2>4. ASSUME NEW p \in able PROVE score[p] <= score[q]
    <3>1. most - score[p] \in short
      OBVIOUS
    <3>2. most - score[q] <= most - score[p]
      BY <2>2, <2>3, <3>1
    <3> QED BY <2>3, <3>2
  <2> QED BY <2>3, <2>4
<1>4. \A p \in best : score[p] > 0
  OBVIOUS
<1> HIDE DEF best
<1>5. FirstIn(t, best) \in best
  BY <1>2, <1>3, TreeFacts, FirstInIsIn DEF TreeOK
<1> QED BY <1>1, <1>2, <1>3, <1>4, <1>5

\* Who is jumped to scores.
LEMMA BestScores ==
  ASSUME NEW given \in SUBSET Panes, NEW t, TreeOK(t, given), NEW score,
         Best(t, score) # Nobody
  PROVE  Best(t, score) \in LeafIds(t) /\ score[Best(t, score)] > 0
<1> DEFINE able == {p \in LeafIds(t) : score[p] > 0}
           best == {p \in able : \A q \in able : score[q] <= score[p]}
<1>1. Best(t, score) = IF best = {} THEN Nobody ELSE FirstIn(t, best)
  BY DEF Best
<1>2. best \in SUBSET LeafIds(t) /\ \A p \in best : score[p] > 0
  OBVIOUS
<1> HIDE DEF best
<1>3. best # {} => FirstIn(t, best) \in best
  BY <1>2, TreeFacts, FirstInIsIn DEF TreeOK
<1> QED BY <1>1, <1>2, <1>3

LEMMA TreeJumpsBack ==
  ASSUME NEW given \in SUBSET Panes, NEW t, TreeOK(t, given),
         NEW rects \in [LeafIds(t) -> Rects], Roomy(rects)
  PROVE  JumpsBack(t, rects)
<1> SUFFICES ASSUME NEW p \in LeafIds(t), NEW dir \in Dirs,
                    NeighborIn(t, rects, p, dir) # Nobody
             PROVE  /\ NeighborIn(t, rects, p, dir) # p
                    /\ NeighborIn(t, rects, NeighborIn(t, rects, p, dir), Opposite(dir)) # Nobody
  BY DEF JumpsBack
<1>1. PICK q : q = NeighborIn(t, rects, p, dir)
  OBVIOUS
<1>2. PICK back : back = Opposite(dir)
  OBVIOUS
<1>3. PICK score : score = [n \in LeafIds(t) |->
                              IF n = p THEN 0 ELSE Facing(rects[p], rects[n], dir)]
  OBVIOUS
<1>4. PICK again : again = [n \in LeafIds(t) |->
                              IF n = q THEN 0 ELSE Facing(rects[q], rects[n], back)]
  OBVIOUS
<1>5. q = Best(t, score) /\ q # Nobody
  BY <1>1, <1>3 DEF NeighborIn
<1>6. q \in LeafIds(t) /\ score[q] > 0
  BY <1>5, BestScores
<1>7. q # p /\ Facing(rects[p], rects[q], dir) > 0
  BY <1>3, <1>6
<1>8. /\ \A n \in LeafIds(t) : rects[n] \in Rects /\ rects[n].w > 0 /\ rects[n].h > 0
      /\ rects[q].w \in Int /\ rects[q].h \in Int
  BY <1>6 DEF Roomy, Rects
<1>9. back \in Dirs /\ Facing(rects[q], rects[p], back) > 0
  BY <1>2, <1>6, <1>7, <1>8, FacingBack
<1>10. again[p] > 0
  BY <1>4, <1>7, <1>9
<1>11. \A n \in LeafIds(t) : again[n] \in Int /\ again[n] <= rects[q].w + rects[q].h
  <2>1. SUFFICES ASSUME NEW n \in LeafIds(t)
                 PROVE  again[n] \in Int /\ again[n] <= rects[q].w + rects[q].h
    OBVIOUS
  <2>2. /\ Facing(rects[q], rects[n], back) \in Int
        /\ Facing(rects[q], rects[n], back) <= rects[q].w + rects[q].h
    BY <1>6, <1>8, <1>9, FacingBack, FacingBounded
  <2>3. CASE n = q
    BY <1>4, <1>8, <2>3, <1>6
  <2>4. CASE n # q
    BY <1>4, <2>2, <2>4
  <2> QED BY <2>3, <2>4
<1>12. rects[q].w + rects[q].h \in Int
  BY <1>8
<1>13. Best(t, again) \in LeafIds(t)
  BY <1>10, <1>11, <1>12, BestThere
<1>14. NeighborIn(t, rects, q, back) # Nobody
  <2>1. NeighborIn(t, rects, q, back) = Best(t, again)
    BY <1>4 DEF NeighborIn
  <2> QED BY <1>13, <2>1, TreeOfPanes
<1> QED BY <1>1, <1>2, <1>7, <1>14

\* neighbor: on any layout that gives each pane room, a jump of the focus leads
\* to another pane, from which there is a jump back, whatever panes there are
\* and however they are split.
THEOREM JumpsTakenBack ==
  Spec => [](~Unsplit => \A rects \in [LeafIds(tree) -> Rects] :
                            Roomy(rects) => JumpsBack(tree, rects))
<1>1. Spec => []IInv
  BY InvInit, InvNext, PTL DEF Spec
<1>2. IInv => (~Unsplit => \A rects \in [LeafIds(tree) -> Rects] :
                              Roomy(rects) => JumpsBack(tree, rects))
  <2> SUFFICES ASSUME IInv, ~Unsplit, NEW rects \in [LeafIds(tree) -> Rects], Roomy(rects)
               PROVE  JumpsBack(tree, rects)
    OBVIOUS
  <2>1. used \in SUBSET Panes /\ TreeOK(tree, used)
    BY SplitState
  <2>2. DOMAIN rects = LeafIds(tree)
    OBVIOUS
  <2> QED BY <2>1, TreeJumpsBack
<1> QED BY <1>1, <1>2, PTL
=============================================================================
