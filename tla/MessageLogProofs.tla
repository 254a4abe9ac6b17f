-------------------------- MODULE MessageLogProofs ---------------------------
(***************************************************************************)
(* What the server's pages are, for any log, cursor and limit: a page is a *)
(* window of the log, and a cursor is a place in it.  The components that  *)
(* page a room - the store, a feed, the terminal - rest on these.          *)
(***************************************************************************)
EXTENDS MessageLog, Integers, SequenceTheorems, WellFoundedInduction, TLAPS

\* A nonempty set of naturals has a smallest member.
LEMMA SmallestNat ==
  ASSUME NEW T \in SUBSET Nat, T # {}
  PROVE  \E x \in T : \A y \in T : x <= y
<1>1. \E x \in T : \A y \in T : ~ (<<y, x>> \in OpToRel(<, Nat))
  BY NatLessThanWellFounded, WFMin, Zenon
<1>2. PICK x \in T : \A y \in T : ~ (<<y, x>> \in OpToRel(<, Nat))
  BY <1>1
<1>3. \A y \in T : ~(y < x)
  BY <1>2 DEF OpToRel
<1> QED BY <1>3

\* Every cursor splits a sorted log somewhere.
LEMMA SplitExists ==
  ASSUME NEW entries \in Seq(Nat), Increasing(entries), NEW c \in Nat
  PROVE  \E p \in 0..Len(entries) : Splits(entries, c, p)
<1> DEFINE T == {i \in 1..(Len(entries) + 1) : i <= Len(entries) => entries[i] > c}
<1>1. T \in SUBSET Nat /\ Len(entries) + 1 \in T
  OBVIOUS
<1>2. PICK m \in T : \A y \in T : m <= y
  BY <1>1, SmallestNat, Zenon
<1>3. \A i \in 1..Len(entries) : i < m => entries[i] <= c
  BY <1>2
<1>4. \A i \in 1..Len(entries) : i >= m => entries[i] > c
  BY <1>2 DEF Increasing
<1>5. Splits(entries, c, m - 1)
  BY <1>2, <1>3, <1>4 DEF Splits
<1> QED BY <1>2, <1>5

\* Position finds the one place where the cursor splits the log.
LEMMA PositionIsSplit ==
  ASSUME NEW entries \in Seq(Nat), NEW c \in Nat, NEW p, Splits(entries, c, p)
  PROVE  Position(entries, c) = p
<1> DEFINE P(q) == /\ \A i \in 1..q : entries[i] <= c
                   /\ \A i \in (q + 1)..Len(entries) : entries[i] > c
<1>1. p \in 0..Len(entries) /\ P(p)
  BY DEF Splits
<1>2. \A q \in 0..Len(entries) : P(q) => q = p
  <2> SUFFICES ASSUME NEW q \in 0..Len(entries), P(q)
               PROVE  q = p
    OBVIOUS
  <2>1. ~(q < p)
    BY <1>1 DEF Splits
  <2>2. ~(p < q)
    BY <1>1 DEF Splits
  <2> QED BY <1>1, <2>1, <2>2
<1>3. Position(entries, c) = CHOOSE q \in 0..Len(entries) : P(q)
  BY DEF Position
<1> HIDE DEF P
<1> QED BY <1>1, <1>2, <1>3

LEMMA PositionSplits ==
  ASSUME NEW entries \in Seq(Nat), Increasing(entries), NEW c \in Nat
  PROVE  Splits(entries, c, Position(entries, c))
BY SplitExists, PositionIsSplit

\* A cursor that is the seq of a message splits the log right behind it.
LEMMA SplitAtMessage ==
  ASSUME NEW entries \in Seq(Nat), Increasing(entries), NEW p \in 1..Len(entries)
  PROVE  Splits(entries, entries[p], p)
BY DEF Splits, Increasing

\* `messages_after`: the page is the window right behind the cursor, and it
\* is as long as the limit and the log allow.
LEMMA AfterIsWindow ==
  ASSUME NEW entries \in Seq(Nat), NEW c \in Nat, NEW n \in Nat, NEW p, Splits(entries, c, p)
  PROVE  /\ After(entries, c, n) \in Seq(Nat)
         /\ Window(entries, p, After(entries, c, n))
         /\ Len(After(entries, c, n)) = AtMost(n, Len(entries) - p)
<1>1. p \in 0..Len(entries)
  BY DEF Splits
<1>2. After(entries, c, n) = SubSeq(entries, p + 1, AtMost(p + n, Len(entries)))
  BY PositionIsSplit DEF After
<1>3. /\ After(entries, c, n) \in Seq(Nat)
      /\ Len(After(entries, c, n)) = AtMost(n, Len(entries) - p)
  BY <1>1, <1>2 DEF AtMost
<1>4. Window(entries, p, After(entries, c, n))
  BY <1>1, <1>2, <1>3 DEF Window, AtMost
<1> QED BY <1>3, <1>4

\* `messages_newest`: the page is the end of the log.
LEMMA NewestIsWindow ==
  ASSUME NEW entries \in Seq(Nat), NEW n \in Nat
  PROVE  /\ Newest(entries, n) \in Seq(Nat)
         /\ Window(entries, Len(entries) - Len(Newest(entries, n)), Newest(entries, n))
         /\ Len(Newest(entries, n)) = AtMost(n, Len(entries))
<1> DEFINE k == IF Len(entries) > n THEN Len(entries) - n ELSE 0
<1>1. k \in 0..Len(entries) /\ Len(entries) - k = AtMost(n, Len(entries))
  <2> DEFINE l == Len(entries)
  <2>1. l \in Nat
    OBVIOUS
  <2> HIDE DEF l
  <2>2. (IF l > n THEN l - n ELSE 0) \in 0..l
    BY <2>1
  <2>3. l - (IF l > n THEN l - n ELSE 0) = AtMost(n, l)
    BY <2>1 DEF AtMost
  <2> QED BY <2>2, <2>3 DEF l
<1>2. Newest(entries, n) = SubSeq(entries, k + 1, Len(entries))
  BY DEF Newest
<1> HIDE DEF k
<1>3. Newest(entries, n) \in Seq(Nat) /\ Len(Newest(entries, n)) = Len(entries) - k
  BY <1>1, <1>2
<1>4. \A i \in 1..Len(Newest(entries, n)) : Newest(entries, n)[i] = entries[k + i]
  BY <1>1, <1>2
<1> DEFINE page == Newest(entries, n)
<1>5. /\ page \in Seq(Nat) /\ Len(page) = Len(entries) - k
      /\ \A i \in 1..Len(page) : page[i] = entries[k + i]
  BY <1>3, <1>4
<1> HIDE DEF page
<1>6. Len(entries) - Len(page) = k /\ k + Len(page) <= Len(entries)
  BY <1>1, <1>5
<1>7. Window(entries, Len(entries) - Len(page), page)
  BY <1>5, <1>6 DEF Window
<1>8. Len(page) = AtMost(n, Len(entries))
  BY <1>1, <1>5
<1> QED BY <1>5, <1>7, <1>8 DEF page

\* `messages_before`: the page ends right before the cursor, and is only short
\* of the limit if it is from the start of the log.
LEMMA BeforeIsWindow ==
  ASSUME NEW entries \in Seq(Nat), NEW c \in Nat, NEW n \in Nat, NEW q \in 0..Len(entries),
         \A i \in 1..Len(entries) : entries[i] < c <=> i <= q
  PROVE  /\ Before(entries, c, n) \in Seq(Nat)
         /\ Len(Before(entries, c, n)) = AtMost(n, q)
         /\ Window(entries, q - Len(Before(entries, c, n)), Before(entries, c, n))
<1> DEFINE k == IF q > n THEN q - n ELSE 0
<1>1. k \in 0..q /\ q - k = AtMost(n, q)
  BY DEF AtMost
<1>2. (IF c = 0 THEN 0 ELSE Position(entries, c - 1)) = q
  <2>1. CASE c = 0
    <3>1. q = 0
      BY <2>1
    <3> QED BY <2>1, <3>1
  <2>2. CASE c # 0
    <3>1. Splits(entries, c - 1, q)
      BY <2>2 DEF Splits
    <3> QED BY <2>2, <3>1, PositionIsSplit
  <2> QED BY <2>1, <2>2
<1>3. Before(entries, c, n) = SubSeq(entries, k + 1, q)
  BY <1>2 DEF Before
<1> HIDE DEF k
<1>4. /\ Before(entries, c, n) \in Seq(Nat)
      /\ Len(Before(entries, c, n)) = q - k
      /\ \A i \in 1..(q - k) : Before(entries, c, n)[i] = entries[k + i]
  BY <1>1, <1>3
<1> DEFINE page == Before(entries, c, n)
<1> HIDE DEF page
<1>5. /\ page \in Seq(Nat) /\ Len(page) = q - k
      /\ \A i \in 1..Len(page) : page[i] = entries[k + i]
  BY <1>4 DEF page
<1>6. q - Len(page) = k /\ k + Len(page) <= Len(entries)
  BY <1>1, <1>5
<1>7. Window(entries, q - Len(page), page)
  BY <1>5, <1>6 DEF Window
<1> QED BY <1>1, <1>5, <1>7 DEF page

\* A window is a piece of the log.
LEMMA WindowIsSubSeq ==
  ASSUME NEW entries \in Seq(Nat), NEW p \in Nat, NEW page \in Seq(Nat),
         Window(entries, p, page)
  PROVE  page = SubSeq(entries, p + 1, p + Len(page))
<1> DEFINE piece == SubSeq(entries, p + 1, p + Len(page))
<1>1. Len(page) \in Nat /\ p + Len(page) <= Len(entries)
  BY DEF Window
<1>2. \A i \in (p + 1)..(p + Len(page)) : entries[i] \in Nat
  BY <1>1
<1>3. /\ piece \in Seq(Nat)
      /\ Len(piece) = Len(page)
      /\ \A i \in 1..Len(page) : piece[i] = entries[p + i]
  <2>1. p + 1 <= p + Len(page) + 1 /\ p + Len(page) - (p + 1) + 1 = Len(page)
    BY <1>1
  <2>2. \A i \in 1..Len(page) : (p + 1) + i - 1 = p + i
    BY <1>1
  <2> QED BY <1>1, <1>2, <2>1, <2>2, SubSeqProperties
<1>4. \A i \in 1..Len(page) : page[i] = piece[i]
  BY <1>3 DEF Window
<1> HIDE DEF piece
<1>5. page = piece
  BY <1>3, <1>4, SeqEqual
<1> QED BY <1>5 DEF piece

\* Two windows that meet make one.
LEMMA WindowConcat ==
  ASSUME NEW l \in Seq(Nat), NEW p \in Nat, NEW a \in Seq(Nat), NEW b \in Seq(Nat),
         Window(l, p, a), Window(l, p + Len(a), b)
  PROVE  Window(l, p, a \o b)
BY DEF Window

LEMMA WindowSplits ==
  ASSUME NEW l \in Seq(Nat), NEW p \in Nat, NEW a \in Seq(Nat), NEW b \in Seq(Nat),
         Window(l, p, a \o b)
  PROVE  Window(l, p, a) /\ Window(l, p + Len(a), b)
<1>1. Len(a) \in Nat /\ Len(b) \in Nat /\ Len(a \o b) = Len(a) + Len(b)
  OBVIOUS
<1>2. \A i \in 1..Len(a) : (a \o b)[i] = a[i]
  OBVIOUS
<1>3. \A i \in 1..Len(b) : (a \o b)[Len(a) + i] = b[i]
  OBVIOUS
<1> DEFINE whole == a \o b
<1>4. /\ Len(whole) = Len(a) + Len(b)
      /\ \A i \in 1..Len(a) : whole[i] = a[i]
      /\ \A i \in 1..Len(b) : whole[Len(a) + i] = b[i]
      /\ p + Len(whole) <= Len(l)
      /\ \A i \in 1..Len(whole) : whole[i] = l[p + i]
  BY <1>1, <1>2, <1>3 DEF Window
<1> HIDE DEF whole
<1>5. Window(l, p, a)
  BY <1>1, <1>4 DEF Window
<1>6. Window(l, p + Len(a), b)
  <2>1. ASSUME NEW i \in 1..Len(b) PROVE b[i] = l[(p + Len(a)) + i]
    <3>1. Len(a) + i \in 1..Len(whole)
      BY <1>1, <1>4
    <3>2. whole[Len(a) + i] = l[p + (Len(a) + i)] /\ b[i] = whole[Len(a) + i]
      BY <1>4, <3>1
    <3>3. p + (Len(a) + i) = (p + Len(a)) + i
      BY <1>1
    <3> QED BY <3>2, <3>3
  <2>2. (p + Len(a)) + Len(b) <= Len(l)
    BY <1>1, <1>4
  <2> QED BY <2>1, <2>2 DEF Window
<1> QED BY <1>5, <1>6

\* Where a window that is not empty begins and ends.
LEMMA WindowEnds ==
  ASSUME NEW entries \in Seq(Nat), NEW p \in Nat, NEW page \in Seq(Nat), page # << >>,
         Window(entries, p, page)
  PROVE  /\ Len(page) \in Nat \ {0}
         /\ p + 1 \in 1..Len(entries) /\ page[1] = entries[p + 1]
         /\ p + Len(page) \in 1..Len(entries) /\ page[Len(page)] = entries[p + Len(page)]
<1>1. Len(page) \in Nat \ {0} /\ Len(entries) \in Nat
  OBVIOUS
<1>2. p + Len(page) <= Len(entries)
  BY DEF Window
<1>3. 1 \in 1..Len(page) /\ Len(page) \in 1..Len(page)
  BY <1>1
<1>4. page[1] = entries[p + 1] /\ page[Len(page)] = entries[p + Len(page)]
  BY <1>3 DEF Window
<1> QED BY <1>1, <1>2, <1>4

\* A log that grows at its end keeps its windows.
LEMMA WindowGrows ==
  ASSUME NEW entries \in Seq(Nat), NEW s \in Nat, NEW p \in Nat, NEW page \in Seq(Nat),
         Window(entries, p, page)
  PROVE  Window(Append(entries, s), p, page)
<1> DEFINE longer == Append(entries, s)
<1>1. /\ Len(longer) = Len(entries) + 1
      /\ \A i \in 1..Len(entries) : longer[i] = entries[i]
  OBVIOUS
<1> HIDE DEF longer
<1>2. p + Len(page) <= Len(longer)
  BY <1>1 DEF Window
<1>3. ASSUME NEW i \in 1..Len(page) PROVE page[i] = longer[p + i]
  <2>1. p + i \in 1..Len(entries)
    BY DEF Window
  <2>2. page[i] = entries[p + i]
    BY DEF Window
  <2> QED BY <1>1, <2>1, <2>2
<1>4. Window(longer, p, page)
  BY <1>2, <1>3 DEF Window
<1> QED BY <1>4 DEF longer

\* It keeps the place of every cursor that is before the new message, too.
LEMMA SplitGrows ==
  ASSUME NEW entries \in Seq(Nat), NEW s \in Nat, NEW c \in Nat, NEW p,
         Splits(entries, c, p), c < s
  PROVE  Splits(Append(entries, s), c, p)
BY DEF Splits

LEMMA LastIsHighest ==
  ASSUME NEW entries \in Seq(Nat), Increasing(entries), entries # << >>
  PROVE  /\ entries[Len(entries)] \in Nat
         /\ \A i \in 1..Len(entries) : entries[i] <= entries[Len(entries)]
<1>1. Len(entries) \in 1..Len(entries)
  OBVIOUS
<1> QED BY <1>1 DEF Increasing

LEMMA StillIncreasing ==
  ASSUME NEW entries \in Seq(Nat), Increasing(entries), NEW s \in Nat,
         \A i \in 1..Len(entries) : entries[i] < s
  PROVE  Increasing(Append(entries, s))
<1> DEFINE more == Append(entries, s)
<1>1. /\ Len(more) = Len(entries) + 1 /\ Len(entries) \in Nat
      /\ more[Len(entries) + 1] = s
      /\ \A i \in 1..Len(entries) : more[i] = entries[i]
  OBVIOUS
<1> HIDE DEF more
<1>2. \A i, j \in 1..Len(more) : i < j => more[i] < more[j]
  BY <1>1 DEF Increasing
<1> QED BY <1>2 DEF Increasing, more
=============================================================================
