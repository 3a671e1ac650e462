---------------------------- MODULE UnitsProofs -----------------------------
(***************************************************************************)
(* What holds of the components on MCUnits' bench for every value of their *)
(* constants: the station browser's lists and its walk over the mirrors,   *)
(* what hls.c makes of a segment and of its key, what m3u8.c hands over of *)
(* a playlist, which frames the ADTS scanner emits, and the types of all   *)
(* five.                                                                   *)
(***************************************************************************)
EXTENDS MCUnits, SequenceTheorems, FiniteSetTheorems, WellFoundedInduction, TLAPS

\* A set of naturals that is not empty has a least element.
LEMMA Least == ASSUME NEW S \in SUBSET Nat, S # {} PROVE \E n \in S : \A m \in S : n <= m
  <1> DEFINE R == OpToRel(<, Nat)
  <1>1. IsWellFoundedOn(R, Nat)
    BY NatLessThanWellFounded
  <1>2. \A x, y \in Nat : x < y => <<x, y>> \in R
    BY DEF OpToRel
  <1> HIDE DEF R
  <1>3. PICK x \in S : \A y \in S : ~ (<<y, x>> \in R)
    BY <1>1, WFMin, S \subseteq Nat
  <1>4. \A m \in S : x <= m
    <2> SUFFICES ASSUME NEW m \in S PROVE x <= m
      OBVIOUS
    <2>1. x \in Nat /\ m \in Nat /\ ~(m < x)
      BY <1>2, <1>3
    <2> QED BY <2>1
  <1> QED BY <1>4

\* What WithUrl's recursion says of its function.
Among(F, rows, n) ==
    F = [i \in 0..n |->
            IF i = 0 THEN <<>>
            ELSE IF rows[i] = NoUrl THEN F[i - 1] ELSE Append(F[i - 1], rows[i])]

\* There is such a function: a least n without one would have a predecessor with one.
LEMMA AmongExists ==
    ASSUME NEW rows, NEW n \in Nat PROVE \E F : Among(F, rows, n)
  <1> DEFINE bad == {k \in Nat : ~ \E F : Among(F, rows, k)}
  <1> SUFFICES ASSUME bad # {} PROVE FALSE
    OBVIOUS
  <1>1. PICK k \in bad : \A m \in bad : k <= m
    BY Least
  <1>2. CASE k = 0
    <2>1. Among([i \in 0..0 |-> <<>>], rows, 0)
      BY DEF Among
    <2> QED BY <1>1, <1>2, <2>1
  <1>3. CASE k # 0
    <2>1. k \in Nat /\ k - 1 \in Nat
      BY <1>1, <1>3
    <2>2. k - 1 \notin bad
      BY <1>1, <2>1
    <2>3. PICK G : Among(G, rows, k - 1)
      BY <2>1, <2>2
    <2> DEFINE F == [i \in 0..k |->
                        IF i = k THEN IF rows[k] = NoUrl THEN G[k - 1]
                                      ELSE Append(G[k - 1], rows[k])
                        ELSE G[i]]
               H == [i \in 0..k |->
                        IF i = 0 THEN <<>>
                        ELSE IF rows[i] = NoUrl THEN F[i - 1] ELSE Append(F[i - 1], rows[i])]
    <2>4. ASSUME NEW i \in 0..k PROVE F[i] = H[i]
      <3>1. CASE i = k
        <4>1. F[k - 1] = G[k - 1]
          BY <2>1
        <4> QED BY <1>3, <2>1, <3>1, <4>1
      <3>2. CASE i # k /\ i = 0
        <4>1. G[0] = <<>>
          BY <2>1, <2>3 DEF Among
        <4> QED BY <2>1, <3>2, <4>1
      <3>3. CASE i # k /\ i # 0
        <4>1. i \in 0..(k - 1) /\ i - 1 \in 0..(k - 1) /\ i - 1 # k /\ i - 1 \in 0..k
          BY <2>1, <3>3
        <4>2. F[i - 1] = G[i - 1] /\ F[i] = G[i]
          BY <3>3, <4>1
        <4>3. G[i] = IF rows[i] = NoUrl THEN G[i - 1] ELSE Append(G[i - 1], rows[i])
          BY <2>3, <3>3, <4>1 DEF Among
        <4> QED BY <3>3, <4>2, <4>3
      <3> QED BY <3>1, <3>2, <3>3
    <2>5. F = H
      BY <2>4
    <2>6. Among(F, rows, k)
      BY <2>5 DEF Among
    <2> HIDE DEF F
    <2> QED BY <1>1, <2>6
  <1> QED BY <1>2, <1>3

\* What is left of the rows has addresses: the first of the function's values that had
\* not would come of one that had.
LEMMA WithUrlType ==
    ASSUME NEW rows \in Seq(Urls \cup {NoUrl}) PROVE WithUrl(rows) \in Seq(Urls)
  <1>0. Len(rows) \in Nat /\ \A i \in 1..Len(rows) : rows[i] \in Urls \cup {NoUrl}
    OBVIOUS
  <1> DEFINE F == CHOOSE F : Among(F, rows, Len(rows))
             worse == {n \in Nat : n <= Len(rows) /\ F[n] \notin Seq(Urls)}
  <1>1. Among(F, rows, Len(rows))
    BY <1>0, AmongExists
  <1>2. WithUrl(rows) = F[Len(rows)]
    BY Zenon DEF WithUrl, Among
  <1> HIDE DEF F
  <1>3. F[0] = <<>>
    BY <1>0, <1>1 DEF Among
  <1>4. \A i \in 1..Len(rows) :
            F[i] = IF rows[i] = NoUrl THEN F[i - 1] ELSE Append(F[i - 1], rows[i])
    <2> SUFFICES ASSUME NEW i \in 1..Len(rows)
                 PROVE  F[i] = IF rows[i] = NoUrl THEN F[i - 1] ELSE Append(F[i - 1], rows[i])
      OBVIOUS
    <2>1. i \in 0..Len(rows) /\ i # 0
      BY <1>0
    <2> QED BY <1>1, <2>1, Zenon DEF Among
  <1>5. worse = {}
    <2> SUFFICES ASSUME worse # {} PROVE FALSE
      OBVIOUS
    <2>1. PICK n \in worse : \A m \in worse : n <= m
      BY Least
    <2>2. n \in Nat /\ n <= Len(rows) /\ F[n] \notin Seq(Urls)
      BY <2>1
    <2>3. n # 0
      <3>1. <<>> \in Seq(Urls)
        BY EmptySeq
      <3> QED BY <1>3, <2>2, <3>1
    <2>4. n \in 1..Len(rows) /\ n - 1 \in Nat /\ n - 1 <= Len(rows) /\ n - 1 < n
      BY <1>0, <2>2, <2>3
    <2>5. F[n - 1] \in Seq(Urls)
      BY <2>1, <2>4
    <2>6. rows[n] \in Urls \cup {NoUrl}
      BY <1>0, <2>4
    <2>7. F[n] \in Seq(Urls)
      <3>1. CASE rows[n] = NoUrl
        BY <1>4, <2>4, <2>5, <3>1
      <3>2. CASE rows[n] # NoUrl
        <4>1. rows[n] \in Urls /\ F[n] = Append(F[n - 1], rows[n])
          BY <1>4, <2>4, <2>6, <3>2
        <4> QED BY <2>5, <4>1, AppendProperties
      <3> QED BY <3>1, <3>2
    <2> QED BY <2>2, <2>7
  <1> QED BY <1>0, <1>2, <1>5

-----------------------------------------------------------------------------
(* The browser                                                             *)

\* A row of a list.
Row == [url : Urls, is_fav : BOOLEAN]

\* A list shows the first of the rows, in their order.
Follows(l, rows) == Len(l) <= Len(rows) /\ \A i \in 1..Len(l) : l[i].url = rows[i]

\* Every star of a list is a favourite, and the other way round.
Starred(l, favs) == \A i \in 1..Len(l) : l[i].is_fav = (l[i].url \in UrlsOf(favs))

\* The types, and the last mirror that answered.
Typed ==
    /\ net_ok \in BOOLEAN /\ unsaved \in BOOLEAN
    /\ tab \in {"stations", "favourites", "search", "system"} /\ selected \in Nat \ {0}
    /\ chip_active \in 1..Len(Chips) /\ chip_focus \in 1..Len(Chips)
    /\ s_stations \in Seq(Row) /\ s_favs \in Seq(Row) /\ s_search \in Seq(Row)
    /\ asking \in {Nothing} \cup Queries \cup ToSet(Chips)
    /\ answered \in 0..(MIRRORS - 1) /\ s_mirror = answered

\* The walk goes round the ring from the last mirror that answered.
Walked ==
    /\ tried \in Seq(0..(MIRRORS - 1)) /\ Len(tried) <= MIRRORS
    /\ \A i \in 1..Len(tried) : tried[i] = (s_mirror + (i - 1)) % MIRRORS
    /\ asking = Nothing => tried = <<>>

\* The stars of all three lists.
Stars == Starred(s_stations, s_favs) /\ Starred(s_favs, s_favs) /\ Starred(s_search, s_favs)

\* The favourites are in the file unless that failed.
FavsKept == unsaved \/ ToSet(file) = UrlsOf(s_favs)

\* The labels and the rows under them.
Labelled ==
    /\ s_stations_label = Chips[chip_active]
    /\ Follows(s_stations, Rows(s_stations_label))
    /\ s_search # <<>> => /\ s_search_label \in Queries
                          /\ Follows(s_search, Rows(s_search_label))

\* The inductive invariant: types, the walk so far, stars, the file and the labels.
BrowserInv == Typed /\ Walked /\ Stars /\ FavsKept /\ Labelled

\* A chip is a label.
LEMMA ChipIsLabel ==
    /\ Len(Chips) \in Nat \ {0}
    /\ \A c \in 1..Len(Chips) : Chips[c] \in ToSet(Chips)
    /\ \A what \in ToSet(Chips) : \E c \in 1..Len(Chips) : what = Chips[c]
    /\ DOMAIN Chips = 1..Len(Chips)
  <1>1. Chips \in Seq(STRING) /\ Chips # <<>>
    BY BrowserAssumption
  <1>2. Len(Chips) \in Nat /\ DOMAIN Chips = 1..Len(Chips) /\ Len(Chips) # 0
    BY <1>1
  <1> QED BY <1>2 DEF ToSet

\* The rows for a chip or a query are addresses of stations.
LEMMA RowsType ==
    ASSUME NEW what \in ToSet(Chips) \cup Queries PROVE Rows(what) \in Seq(Urls)
  <1> DEFINE rows == Directory[what]
             n == Min({LIMIT, Len(rows)})
             U == Urls \cup {NoUrl}
  <1>1. rows \in Seq(U)
    BY BrowserAssumption
  <1>2. CASE what = Chips[1]
    BY <1>2, BrowserAssumption DEF Rows
  <1>3. CASE what # Chips[1]
    <2>1. LIMIT \in Nat /\ Len(rows) \in Nat
      BY <1>1, BrowserAssumption
    <2>2. n \in {LIMIT, Len(rows)} /\ n <= LIMIT /\ n <= Len(rows)
      <3> HIDE DEF rows
      <3> QED BY <2>1 DEF Min
    <2>3. n \in Nat /\ n <= Len(rows)
      BY <2>1, <2>2
    <2> HIDE DEF n
    <2>4. SubSeq(rows, 1, n) \in Seq(U)
      <3>1. \A i \in 1..n : rows[i] \in U
        <4> HIDE DEF rows, U
        <4> QED BY <1>1, <2>1, <2>3
      <3> HIDE DEF rows, U
      <3> QED BY <2>3, <1>1, <2>1, <3>1
    <2>5. WithUrl(SubSeq(rows, 1, n)) \in Seq(Urls)
      BY <2>4, WithUrlType
    <2>6. Rows(what) = WithUrl(SubSeq(rows, 1, n))
      BY <1>3 DEF Rows, n
    <2> QED BY <2>5, <2>6
  <1> QED BY <1>2, <1>3

\* mark_favourites changes the stars of a list and nothing else.
LEMMA Marking ==
    ASSUME NEW l \in Seq(Row), NEW favs
    PROVE  /\ Marked(l, favs) \in Seq(Row) /\ Len(Marked(l, favs)) = Len(l)
           /\ \A i \in 1..Len(l) : Marked(l, favs)[i].url = l[i].url
           /\ Starred(Marked(l, favs), favs)
  <1> DEFINE m == Marked(l, favs)
  <1>1. Len(l) \in Nat /\ DOMAIN l = 1..Len(l)
    OBVIOUS
  <1>2. ASSUME NEW i \in 1..Len(l)
        PROVE  /\ m[i] \in Row /\ m[i].url = l[i].url
               /\ m[i].is_fav = (l[i].url \in UrlsOf(favs))
    <2>1. l[i] \in Row
      BY <1>1
    <2>2. m[i] = [l[i] EXCEPT !.is_fav = l[i].url \in UrlsOf(favs)]
      BY <1>1 DEF Marked
    <2> HIDE DEF m
    <2>3. (l[i].url \in UrlsOf(favs)) \in BOOLEAN
      BY DEF UrlsOf
    <2> QED BY <2>1, <2>2, <2>3 DEF Row
  <1>3. m = [i \in 1..Len(l) |-> m[i]]
    BY <1>1 DEF Marked
  <1> HIDE DEF m
  <1>4. m \in Seq(Row) /\ Len(m) = Len(l)
    BY <1>1, <1>2, <1>3, IsASeq
  <1>5. Starred(m, favs)
    BY <1>2, <1>4 DEF Starred
  <1> QED BY <1>2, <1>4, <1>5 DEF m

\* What is added shows the rows, as far as there was memory.
LEMMA Adding ==
    ASSUME NEW rows \in Seq(Urls), NEW l \in Added(rows)
    PROVE  l \in Seq(Row) /\ Follows(l, rows)
  <1>1. Len(rows) \in Nat /\ \A i \in 1..Len(rows) : rows[i] \in Urls
    OBVIOUS
  <1>2. PICK n \in 0..Len(rows) : l = [i \in 1..n |-> [url |-> rows[i], is_fav |-> FALSE]]
    BY DEF Added
  <1>3. \A i \in 1..n : l[i] \in Row /\ l[i].url = rows[i]
    BY <1>1, <1>2 DEF Row
  <1>4. n \in Nat /\ n <= Len(rows) /\ l = [i \in 1..n |-> l[i]]
    BY <1>1, <1>2
  <1>5. l \in Seq(Row) /\ Len(l) = n
    BY <1>3, <1>4, IsASeq
  <1> QED BY <1>3, <1>4, <1>5 DEF Follows

\* What is added and marked shows the rows, and the stars are right.
LEMMA Showing ==
    ASSUME NEW rows \in Seq(Urls), NEW l \in Added(rows), NEW favs
    PROVE  /\ Marked(l, favs) \in Seq(Row)
           /\ Follows(Marked(l, favs), rows) /\ Starred(Marked(l, favs), favs)
  <1>1. l \in Seq(Row) /\ Follows(l, rows)
    BY Adding
  <1>2. /\ Marked(l, favs) \in Seq(Row) /\ Len(Marked(l, favs)) = Len(l)
        /\ \A i \in 1..Len(l) : Marked(l, favs)[i].url = l[i].url
        /\ Starred(Marked(l, favs), favs)
    BY <1>1, Marking
  <1> QED BY <1>1, <1>2 DEF Follows

\* A list of favourites, each with its star.
LEMMA OwnStars ==
    ASSUME NEW l \in Seq(Row)
    PROVE  Starred(l, l) <=> \A i \in 1..Len(l) : l[i].is_fav = TRUE
  <1>1. \A i \in 1..Len(l) : l[i].url \in UrlsOf(l)
    BY DEF UrlsOf
  <1> QED BY <1>1 DEF Starred

-----------------------------------------------------------------------------

\* Every state main can start in satisfies the invariant.
LEMMA Starting ==
    ASSUME NEW online \in BOOLEAN, NEW read_ok \in BOOLEAN, NEW saved \in Seq(Urls),
           NEW builtin \in Added(Rows(Chips[1])),
           BrowserStart(online, saved, read_ok, builtin)
    PROVE  BrowserInv
  <1>1. Chips[1] \in ToSet(Chips) /\ 1 \in 1..Len(Chips)
    BY ChipIsLabel
  <1>2. Rows(Chips[1]) \in Seq(Urls)
    BY <1>1, RowsType
  <1>3. /\ s_stations \in Seq(Row) /\ Starred(s_stations, s_favs)
        /\ Follows(s_stations, Rows(Chips[1]))
    BY <1>2, Showing DEF BrowserStart
  <1>4. s_favs \in Seq(Row) /\ \A i \in 1..Len(s_favs) : s_favs[i].is_fav = TRUE
    <2>1. CASE read_ok
      <3>1. Len(saved) \in Nat /\ DOMAIN saved = 1..Len(saved)
            /\ \A i \in 1..Len(saved) : saved[i] \in Urls
        OBVIOUS
      <3>2. s_favs = [i \in 1..Len(saved) |-> [url |-> saved[i], is_fav |-> TRUE]]
        BY <2>1, <3>1 DEF BrowserStart
      <3>3. \A i \in 1..Len(saved) : s_favs[i] \in Row /\ s_favs[i].is_fav = TRUE
        BY <3>1, <3>2 DEF Row
      <3>4. s_favs = [i \in 1..Len(saved) |-> s_favs[i]]
        BY <3>2
      <3>5. s_favs \in Seq(Row) /\ Len(s_favs) = Len(saved)
        BY <3>1, <3>3, <3>4, IsASeq
      <3> QED BY <3>3, <3>5
    <2>2. CASE ~read_ok
      <3>1. s_favs = <<>>
        BY <2>2 DEF BrowserStart
      <3> QED BY <3>1
    <2> QED BY <2>1, <2>2
  <1>5. Starred(s_favs, s_favs)
    BY <1>4, OwnStars
  <1>6. s_search = <<>> /\ tried = <<>> /\ s_search \in Seq(Row)
    BY DEF BrowserStart
  <1>7. FavsKept
    <2>1. CASE read_ok
      <3>1. /\ DOMAIN saved = 1..Len(saved)
            /\ s_favs = [i \in DOMAIN saved |-> [url |-> saved[i], is_fav |-> TRUE]]
            /\ file = saved
        BY <2>1 DEF BrowserStart
      <3>2. DOMAIN s_favs = DOMAIN saved /\ \A i \in DOMAIN saved : s_favs[i].url = saved[i]
        BY <3>1
      <3>3. ToSet(file) = UrlsOf(s_favs)
        BY <3>1, <3>2, Zenon DEF ToSet, UrlsOf
      <3> QED BY <3>3 DEF FavsKept
    <2>2. CASE ~read_ok
      BY <2>2 DEF FavsKept, BrowserStart
    <2> QED BY <2>1, <2>2
  <1>8. MIRRORS \in Nat \ {0}
    BY BrowserAssumption
  <1>9. Typed
    BY <1>1, <1>3, <1>4, <1>6, <1>8 DEF Typed, BrowserStart
  <1>10. Walked
    <2>1. tried \in Seq(0..(MIRRORS - 1)) /\ Len(tried) = 0
      BY <1>6
    <2> QED BY <1>6, <1>8, <2>1 DEF Walked
  <1>11. Stars
    BY <1>3, <1>5, <1>6 DEF Stars, Starred
  <1>12. Labelled
    BY <1>3, <1>6 DEF Labelled, BrowserStart
  <1> QED BY <1>7, <1>9, <1>10, <1>11, <1>12 DEF BrowserInv

\* A browser at rest has started too, with nothing in its lists.
LEMMA Resting == BrowserStart(FALSE, <<>>, TRUE, <<>>) => BrowserInv
  <1>1. Chips[1] \in ToSet(Chips)
    BY ChipIsLabel
  <1>2. Rows(Chips[1]) \in Seq(Urls)
    BY <1>1, RowsType
  <1>3. Len(Rows(Chips[1])) \in Nat
    BY <1>2
  <1>4. <<>> = [i \in 1..0 |-> [url |-> Rows(Chips[1])[i], is_fav |-> FALSE]]
    OBVIOUS
  <1>5. <<>> \in Added(Rows(Chips[1]))
    BY <1>3, <1>4 DEF Added
  <1>6. <<>> \in Seq(Urls)
    BY EmptySeq
  <1> QED BY <1>5, <1>6, Starting

\* main starts with a saved list and as much of the built-in one as there is memory for.
LEMMA BrowserInitially == BrowserInit => BrowserInv
  <1> SUFFICES ASSUME BrowserInit PROVE BrowserInv
    OBVIOUS
  <1>1. PICK online \in BOOLEAN, read_ok \in BOOLEAN, builtin \in Added(Rows(Chips[1])),
             saved \in {s \in SeqOf(Urls, Cardinality(Urls)) : IsInjective(s)} :
             BrowserStart(online, saved, read_ok, builtin)
    BY Zenon DEF BrowserInit
  <1>2. saved \in SeqOf(Urls, Cardinality(Urls))
    OBVIOUS
  <1>3. Cardinality(Urls) \in Nat
    BY BrowserAssumption, FS_CardinalityType
  <1>4. PICK m \in 0..Cardinality(Urls) : saved \in [1..m -> Urls]
    BY <1>2, Zenon DEF SeqOf
  <1>5. saved \in Seq(Urls)
    BY <1>3, <1>4
  <1> QED BY <1>1, <1>5, Starting

-----------------------------------------------------------------------------

\* The top of the loop only moves the selection.
LEMMA FrameStartsKeeps == BrowserInv /\ FrameStarts => BrowserInv'
  <1> SUFFICES ASSUME BrowserInv, FrameStarts PROVE BrowserInv'
    OBVIOUS
  <1>1. selected' \in Nat \ {0}
    <2>1. CASE tab = "system"
      BY <2>1 DEF FrameStarts, BrowserInv, Typed
    <2>2. CASE tab # "system"
      <3> DEFINE n == Len(list_for_tab)
      <3>1. n \in Nat
        BY <2>2 DEF BrowserInv, Typed, list_for_tab
      <3>2. selected' = Max({1, Min({selected, n})}) /\ selected \in Nat
        BY <2>2 DEF FrameStarts, Clamped, BrowserInv, Typed
      <3> HIDE DEF n
      <3>3. Min({selected, n}) \in Int
        BY <3>1, <3>2 DEF Min
      <3> QED BY <3>2, <3>3 DEF Max
    <2> QED BY <2>1, <2>2
  <1> QED BY <1>1 DEF FrameStarts, BrowserInv, Typed, Walked, Stars, FavsKept, Labelled,
                      lists, fetch, saving

\* A selection pulled into a list is a place in it, or the first.
LEMMA Clamping ==
    ASSUME NEW i \in Int, NEW n \in Nat PROVE Max({1, Min({i, n})}) \in Nat \ {0}
  <1>1. Min({i, n}) \in Int
    BY DEF Min
  <1> QED BY <1>1 DEF Max

\* wrap_index stays in its range.
LEMMA Wrapping ==
    ASSUME NEW n \in Nat \ {0}, NEW i \in 1..n, NEW d \in {-1, 1} PROVE Wrapped(i, d, n) \in 1..n
  BY DEF Wrapped

\* The list of the tab is a list.
LEMMA ListType == Typed => list_for_tab \in Seq(Row)
  <1>1. <<>> \in Seq(Row)
    BY EmptySeq
  <1> QED BY <1>1 DEF Typed, list_for_tab

\* Up and down only move the selection.
LEMMA MoveKeeps == ASSUME BrowserInv, NEW b, Move(b) PROVE BrowserInv'
  <1>1. list_for_tab \in Seq(Row) /\ selected \in Nat \ {0}
    BY ListType DEF BrowserInv, Typed
  <1>2. Len(list_for_tab) \in Nat
    BY <1>1
  <1>3. selected' \in Nat \ {0}
    <2> DEFINE to == selected + (IF b = "up" THEN -1 ELSE 1)
    <2>1. to \in Int
      BY <1>1
    <2>2. selected' = selected \/ selected' = Max({1, Min({to, Len(list_for_tab)})})
      BY DEF Move, Clamped
    <2> HIDE DEF to
    <2> QED BY <1>1, <1>2, <2>1, <2>2, Clamping
  <1> QED BY <1>3 DEF Move, Handles, BrowserInv, Typed, Walked, Stars, FavsKept, Labelled,
                      lists, fetch, saving

\* The shoulder buttons and SELECT change the tab.
LEMMA SwitchTabKeeps == ASSUME BrowserInv, NEW b, SwitchTab(b) PROVE BrowserInv'
  <1>1. tab' \in {"stations", "favourites", "search", "system"}
    <2>1. CASE b = "select"
      BY <2>1 DEF SwitchTab
    <2>2. CASE b # "select"
      <3> DEFINE place == CHOOSE i \in DOMAIN Tabs : Tabs[i] = tab
                 d  == IF b = "ltrigger" THEN -1 ELSE 1
      <3>1. DOMAIN Tabs = 1..4 /\ Len(Tabs) = 4
            /\ \A i \in 1..4 : Tabs[i] \in {"stations", "favourites", "search", "system"}
        BY DEF Tabs
      <3>2. \E i \in DOMAIN Tabs : Tabs[i] = tab
        BY DEF BrowserInv, Typed, Tabs
      <3>3. place \in 1..4
        BY <3>1, <3>2
      <3>4. tab' = Tabs[Wrapped(place, d, 4)]
        BY <2>2, <3>1 DEF SwitchTab
      <3>5. d \in {-1, 1}
        OBVIOUS
      <3> HIDE DEF place, d
      <3>6. Wrapped(place, d, 4) \in 1..4
        BY <3>3, <3>5 DEF Wrapped
      <3> QED BY <3>1, <3>4, <3>6
    <2> QED BY <2>1, <2>2
  <1>2. selected' \in Nat \ {0}
    BY DEF SwitchTab
  <1> QED BY <1>1, <1>2 DEF SwitchTab, Handles, BrowserInv, Typed, Walked, Stars, FavsKept,
                                Labelled, lists, fetch, saving

\* What the Stations tab shows after a chip is its list, with the stars.
LEMMA ShowsChipKeeps ==
    ASSUME Typed, Stars, Labelled, NEW c \in 1..Len(Chips), ShowsChip(c)
    PROVE  /\ s_stations' \in Seq(Row) /\ Starred(s_stations', s_favs)
           /\ s_stations_label' = Chips[c] /\ chip_active' = c /\ selected' = 1
           /\ Follows(s_stations', Rows(Chips[c]))
           /\ s_favs' = s_favs /\ s_search' = s_search /\ s_search_label' = s_search_label
  <1>1. Chips[c] \in ToSet(Chips)
    BY ChipIsLabel
  <1>2. Rows(Chips[c]) \in Seq(Urls)
    BY <1>1, RowsType
  <1>3. PICK l \in Added(Rows(Chips[c])) : s_stations' = Marked(l, s_favs)
    BY DEF ShowsChip
  <1>4. /\ s_stations' \in Seq(Row) /\ Starred(s_stations', s_favs)
        /\ Follows(s_stations', Rows(Chips[c]))
    BY <1>2, <1>3, Showing
  <1> QED BY <1>4 DEF ShowsChip

\* A request begins with no mirror tried.
LEMMA AsksKeeps ==
    ASSUME Typed, Walked, NEW what \in Queries \cup ToSet(Chips), Asks(what)
    PROVE  /\ asking' \in {Nothing} \cup Queries \cup ToSet(Chips)
           /\ s_mirror' = s_mirror /\ answered' = answered /\ Walked'
  <1>1. <<>> \in Seq(0..(MIRRORS - 1)) /\ Len(<<>>) = 0
    OBVIOUS
  <1>2. MIRRORS \in Nat
    BY BrowserAssumption
  <1>3. tried' = <<>>
    BY DEF Asks
  <1> QED BY <1>1, <1>2, <1>3 DEF Asks, Walked

\* A chip shows the built-in list, asks for another, or does neither offline.
LEMMA StepChipKeeps == ASSUME BrowserInv, NEW b, StepChip(b) PROVE BrowserInv'
  <1>0. UNCHANGED <<net_ok, file, unsaved>>
    BY DEF StepChip, saving
  <1>1. CASE tab # "stations"
    BY <1>0, <1>1 DEF StepChip, BrowserInv, Typed, Walked, Stars, FavsKept, Labelled,
        app, lists, fetch
  <1>2. CASE tab = "stations"
    <2> DEFINE d == IF b = "left" THEN -1 ELSE 1
    <2>1. chip_focus' = Wrapped(chip_focus, d, Len(Chips)) /\ tab' = tab
      BY <1>2 DEF StepChip
    <2>2. chip_focus \in 1..Len(Chips) /\ Len(Chips) \in Nat \ {0} /\ d \in {-1, 1}
      BY ChipIsLabel DEF BrowserInv, Typed
    <2> HIDE DEF d
    <2>3. chip_focus' \in 1..Len(Chips)
      BY <2>1, <2>2, Wrapping
    <2>4. CASE ShowsChip(1) /\ UNCHANGED fetch
      <3>1. 1 \in 1..Len(Chips)
        BY <2>2
      <3>2. /\ s_stations' \in Seq(Row) /\ Starred(s_stations', s_favs)
            /\ s_stations_label' = Chips[1] /\ chip_active' = 1 /\ selected' = 1
            /\ Follows(s_stations', Rows(Chips[1]))
            /\ s_favs' = s_favs /\ s_search' = s_search /\ s_search_label' = s_search_label
        BY <2>4, <3>1, ShowsChipKeeps DEF BrowserInv
      <3>3. Typed'
        BY <1>0, <2>1, <2>3, <2>4, <3>1, <3>2 DEF BrowserInv, Typed, fetch
      <3>4. Walked' /\ FavsKept'
        BY <1>0, <2>4, <3>2 DEF BrowserInv, Walked, FavsKept, fetch
      <3>5. Stars' /\ Labelled'
        BY <3>2 DEF BrowserInv, Stars, Labelled
      <3> QED BY <3>3, <3>4, <3>5 DEF BrowserInv
    <2>5. CASE UNCHANGED <<selected, chip_active, lists, fetch>>
      BY <1>0, <2>1, <2>3, <2>5 DEF BrowserInv, Typed, Walked, Stars, FavsKept, Labelled,
          lists, fetch
    <2>6. CASE Asks(Chips[chip_focus']) /\ UNCHANGED <<selected, chip_active, lists>>
      <3>1. Chips[chip_focus'] \in Queries \cup ToSet(Chips)
        BY <2>3, ChipIsLabel
      <3>2. /\ asking' \in {Nothing} \cup Queries \cup ToSet(Chips)
            /\ s_mirror' = s_mirror /\ answered' = answered /\ Walked'
        BY <2>6, <3>1, AsksKeeps DEF BrowserInv
      <3>3. Typed'
        BY <1>0, <2>1, <2>3, <2>6, <3>2 DEF BrowserInv, Typed, lists
      <3>4. Stars' /\ FavsKept' /\ Labelled'
        BY <1>0, <2>6 DEF BrowserInv, Stars, FavsKept, Labelled, lists
      <3> QED BY <3>2, <3>3, <3>4 DEF BrowserInv
    <2> QED BY <1>2, <2>4, <2>5, <2>6, Zenon DEF StepChip
  <1> QED BY <1>1, <1>2

\* A search is asked for or not.
LEMMA SearchKeeps == ASSUME BrowserInv, Search PROVE BrowserInv'
  <1>0. UNCHANGED <<net_ok, app, lists, saving>>
    BY DEF Search
  <1>1. CASE UNCHANGED fetch
    BY <1>0, <1>1 DEF BrowserInv, Typed, Walked, Stars, FavsKept, Labelled,
        app, lists, fetch, saving
  <1>2. ASSUME NEW query \in Queries, Asks(query) PROVE BrowserInv'
    <2>1. /\ asking' \in {Nothing} \cup Queries \cup ToSet(Chips)
          /\ s_mirror' = s_mirror /\ answered' = answered /\ Walked'
      BY <1>2, AsksKeeps DEF BrowserInv
    <2>2. Typed'
      BY <1>0, <2>1 DEF BrowserInv, Typed, app, lists, saving
    <2>3. Stars' /\ FavsKept' /\ Labelled'
      BY <1>0 DEF BrowserInv, Stars, FavsKept, Labelled, app, lists, saving
    <2> QED BY <2>1, <2>2, <2>3 DEF BrowserInv
  <1> QED BY <1>1, <1>2 DEF Search

-----------------------------------------------------------------------------
(* A favourite is added or removed                                         *)

\* sl_remove keeps rows of the list.
LEMMA Removing ==
    ASSUME NEW S, NEW l \in Seq(S), NEW place \in 1..Len(l)
    PROVE  /\ RemoveAt(l, place) \in Seq(S)
           /\ \A i \in 1..Len(RemoveAt(l, place)) :
                  \E j \in 1..Len(l) : RemoveAt(l, place)[i] = l[j]
  <1> DEFINE a == SubSeq(l, 1, place - 1)
             z == SubSeq(l, place + 1, Len(l))
  <1>1. Len(l) \in Nat /\ \A i \in 1..Len(l) : l[i] \in S
    OBVIOUS
  <1>2. place - 1 \in Nat /\ place - 1 <= Len(l) /\ place \in Nat /\ place <= Len(l)
    BY <1>1
  <1>3. a \in Seq(S) /\ Len(a) = place - 1 /\ \A i \in 1..(place - 1) : a[i] = l[i]
    BY <1>1, <1>2
  <1>4. /\ z \in Seq(S) /\ Len(z) = Len(l) - place
        /\ \A i \in 1..(Len(l) - place) : z[i] = l[place + i]
    <2>1. \A i \in (place + 1)..Len(l) : l[i] \in S
      BY <1>1, <1>2
    <2> QED BY <1>1, <1>2, <2>1
  <1>5. RemoveAt(l, place) = a \o z
    BY DEF RemoveAt
  <1> HIDE DEF a, z
  <1>6. /\ a \o z \in Seq(S) /\ Len(a \o z) = Len(a) + Len(z)
        /\ \A i \in 1..(Len(a) + Len(z)) :
              (a \o z)[i] = IF i <= Len(a) THEN a[i] ELSE z[i - Len(a)]
    BY <1>3, <1>4, ConcatProperties
  <1>7. ASSUME NEW i \in 1..Len(a \o z) PROVE \E j \in 1..Len(l) : (a \o z)[i] = l[j]
    <2>1. CASE i <= place - 1
      <3>1. i \in 1..(place - 1) /\ i \in 1..Len(l)
        BY <1>2, <2>1, <1>1, <1>6, <1>3, <1>4
      <3>2. (a \o z)[i] = l[i]
        BY <1>3, <1>4, <1>6, <2>1, <3>1
      <3> QED BY <3>1, <3>2
    <2>2. CASE ~(i <= place - 1)
      <3>1. i \in Nat /\ i <= Len(l) - 1 /\ i >= place
        BY <1>1, <1>2, <2>2, <1>3, <1>4, <1>6
      <3>2. /\ i - (place - 1) \in 1..(Len(l) - place) /\ i + 1 \in 1..Len(l)
            /\ place + (i - (place - 1)) = i + 1
        BY <1>1, <1>2, <3>1
      <3>3. (a \o z)[i] = z[i - (place - 1)]
        BY <1>3, <1>4, <1>6, <2>2
      <3>4. z[i - (place - 1)] = l[i + 1]
        BY <1>4, <3>2
      <3> QED BY <3>2, <3>3, <3>4
    <2> QED BY <2>1, <2>2
  <1> QED BY <1>5, <1>6, <1>7

\* sl_find_url finds a row of the list.
LEMMA Finding ==
    ASSUME NEW l \in Seq(Row), NEW url \in UrlsOf(l) PROVE Found(l, url) \in 1..Len(l)
  <1>1. Len(l) \in Nat /\ DOMAIN l = 1..Len(l)
    OBVIOUS
  <1> DEFINE place == {i \in 1..Len(l) : l[i].url = url}
  <1>2. place # {} /\ place \in SUBSET Nat
    BY <1>1 DEF UrlsOf
  <1> HIDE DEF place
  <1>3. PICK i \in place : \A j \in place : i <= j
    BY <1>2, Least
  <1>4. i \in DOMAIN l /\ l[i].url = url
    BY <1>1 DEF place
  <1>5. \A j \in 1..(i - 1) : l[j].url # url
    <2> SUFFICES ASSUME NEW j \in 1..(i - 1), l[j].url = url PROVE FALSE
      OBVIOUS
    <2>1. i \in Nat /\ i <= Len(l)
      BY <1>1, <1>4
    <2>2. j \in 1..Len(l) /\ j < i /\ j \in Nat
      BY <1>1, <2>1
    <2>3. j \in place
      BY <2>2 DEF place
    <2> QED BY <1>3, <2>1, <2>2, <2>3
  <1>6. Found(l, url) \in DOMAIN l
    BY <1>4, <1>5, Zenon DEF Found
  <1> QED BY <1>1, <1>6

\* After a toggle every favourite still has its star.
LEMMA Toggling ==
    ASSUME NEW url \in Urls, s_favs \in Seq(Row), Starred(s_favs, s_favs),
           NEW l \in Toggled(url)
    PROVE  l \in Seq(Row) /\ Starred(l, l)
  <1>1. \A i \in 1..Len(s_favs) : s_favs[i].is_fav = TRUE
    BY OwnStars
  <1>2. CASE url \in UrlsOf(s_favs)
    <2> DEFINE place == Found(s_favs, url)
    <2>1. place \in 1..Len(s_favs)
      BY <1>2, Finding
    <2>2. l = RemoveAt(s_favs, place)
      BY <1>2 DEF Toggled, Without
    <2> HIDE DEF place
    <2>3. l \in Seq(Row)
          /\ \A i \in 1..Len(l) : \E j \in 1..Len(s_favs) : l[i] = s_favs[j]
      BY <2>1, <2>2, Removing
    <2>4. \A i \in 1..Len(l) : l[i].is_fav = TRUE
      BY <1>1, <2>3
    <2> QED BY <2>3, <2>4, OwnStars
  <1>3. CASE l = s_favs
    BY <1>3
  <1>4. CASE l = Append(s_favs, [url |-> url, is_fav |-> TRUE])
    <2> DEFINE r == [url |-> url, is_fav |-> TRUE]
    <2>1. r \in Row /\ r.is_fav = TRUE
      BY DEF Row
    <2>2. l = Append(s_favs, r)
      BY <1>4
    <2> HIDE DEF r
    <2>3. /\ l \in Seq(Row) /\ Len(l) = Len(s_favs) + 1 /\ Len(s_favs) \in Nat
          /\ \A i \in 1..Len(s_favs) : l[i] = s_favs[i]
          /\ l[Len(s_favs) + 1] = r
      BY <2>1, <2>2, AppendProperties
    <2>4. \A i \in 1..Len(l) : l[i].is_fav = TRUE
      <3> SUFFICES ASSUME NEW i \in 1..Len(l) PROVE l[i].is_fav = TRUE
        OBVIOUS
      <3>1. i \in 1..Len(s_favs) \/ i = Len(s_favs) + 1
        BY <2>3
      <3> QED BY <1>1, <2>1, <2>3, <3>1
    <2> QED BY <2>3, <2>4, OwnStars
  <1> QED BY <1>2, <1>3, <1>4 DEF Toggled

\* The marks of a list depend on its addresses only, and those stay.
LEMMA Remarking ==
    ASSUME NEW l \in Seq(Row), NEW favs, NEW rows, Follows(l, rows)
    PROVE  Follows(Marked(l, favs), rows)
  <1>1. /\ Len(Marked(l, favs)) = Len(l)
        /\ \A i \in 1..Len(l) : Marked(l, favs)[i].url = l[i].url
    BY Marking
  <1> QED BY <1>1 DEF Follows

\* A toggle marks every list again and saves, or says that it could not.
LEMMA ToggleKeeps == ASSUME BrowserInv, Toggle PROVE BrowserInv'
  <1>0. UNCHANGED <<net_ok, app, fetch>>
    BY DEF Toggle
  <1>1. CASE UNCHANGED <<lists, saving>>
    BY <1>0, <1>1 DEF BrowserInv, Typed, Walked, Stars, FavsKept, Labelled,
        app, lists, fetch, saving
  <1>2. CASE selected \in DOMAIN list_for_tab /\ ~UNCHANGED <<lists, saving>>
    <2> DEFINE url == list_for_tab[selected].url
    <2>1. url \in Urls
      <3>1. list_for_tab \in Seq(Row)
        BY ListType DEF BrowserInv
      <3>2. list_for_tab[selected] \in Row
        BY <1>2, <3>1
      <3> QED BY <3>2 DEF Row
    <2>2. s_favs' \in Toggled(url)
      BY <1>2 DEF Toggle
    <2>3. s_stations_label' = s_stations_label /\ s_search_label' = s_search_label
      BY <1>2 DEF Toggle, lists, saving
    <2> HIDE DEF url
    <2>4. s_favs' \in Seq(Row) /\ Starred(s_favs', s_favs')
      BY <2>1, <2>2, Toggling DEF BrowserInv, Typed, Stars
    <2>5. CASE s_favs' = s_favs
      <3>1. UNCHANGED <<s_stations, s_search, saving>>
        BY <1>2, <2>5 DEF Toggle
      <3> QED BY <1>2, <2>3, <2>5, <3>1 DEF lists
    <2>6. CASE s_favs' # s_favs
      <3>1. /\ s_stations' = Marked(s_stations, s_favs') /\ s_search' = Marked(s_search, s_favs')
            /\ \/ file' = [i \in DOMAIN s_favs' |-> s_favs'[i].url] /\ unsaved' = FALSE
               \/ file' = file /\ unsaved' = TRUE
        BY <1>2, <2>6 DEF Toggle, Remarked
      <3>2. s_stations \in Seq(Row) /\ s_search \in Seq(Row)
        BY DEF BrowserInv, Typed
      <3>3. s_stations' \in Seq(Row) /\ Starred(s_stations', s_favs')
            /\ s_search' \in Seq(Row) /\ Starred(s_search', s_favs')
        BY <3>1, <3>2, Marking
      <3>4. Follows(s_stations', Rows(s_stations_label))
        BY <3>1, <3>2, Remarking DEF BrowserInv, Labelled
      <3>5. s_search' # <<>> => s_search # <<>>
        <4>1. Len(s_search') = Len(s_search)
          BY <3>1, <3>2, Marking
        <4> QED BY <3>2, <3>3, <4>1
      <3>6. s_search' # <<>> => /\ s_search_label \in Queries
                                /\ Follows(s_search', Rows(s_search_label))
        BY <3>1, <3>2, <3>5, Remarking DEF BrowserInv, Labelled
      <3>7. FavsKept'
        <4>1. CASE file' = [i \in DOMAIN s_favs' |-> s_favs'[i].url]
          <5>1. DOMAIN file' = DOMAIN s_favs' /\ \A i \in DOMAIN s_favs' : file'[i] = s_favs'[i].url
            BY <4>1
          <5>2. ToSet(file') = UrlsOf(s_favs')
            BY <5>1, Zenon DEF ToSet, UrlsOf
          <5> QED BY <5>2 DEF FavsKept
        <4>2. CASE unsaved' = TRUE
          BY <4>2 DEF FavsKept
        <4> QED BY <3>1, <4>1, <4>2
      <3>8. Typed'
        BY <1>0, <2>4, <3>1, <3>3 DEF BrowserInv, Typed, app, fetch
      <3>9. Walked'
        BY <1>0 DEF BrowserInv, Walked, fetch
      <3>10. Stars'
        BY <2>4, <3>3 DEF Stars
      <3>11. Labelled'
        BY <1>0, <2>3, <3>4, <3>6 DEF BrowserInv, Labelled, app
      <3> QED BY <3>7, <3>8, <3>9, <3>10, <3>11 DEF BrowserInv
    <2> QED BY <2>5, <2>6
  <1> QED BY <1>1, <1>2 DEF Toggle

-----------------------------------------------------------------------------
(* The walk over the mirrors                                               *)

\* A step along the ring of mirrors, written without the remainder.
LEMMA Around ==
    ASSUME NEW n \in Nat \ {0}, NEW a \in 0..(n - 1), NEW i \in 0..(n - 1)
    PROVE  (a + i) % n = IF a + i < n THEN a + i ELSE a + i - n
  OBVIOUS

\* A mirror that fails is the next of the walk, and the walk keeps its start.
LEMMA MirrorFailsKeeps == ASSUME BrowserInv, MirrorFails PROVE BrowserInv'
  <1>0. MIRRORS \in Nat \ {0}
    BY BrowserAssumption
  <1> DEFINE M == 0..(MIRRORS - 1)
  <1>1. /\ tried \in Seq(M) /\ s_mirror \in M /\ s_mirror = answered
        /\ \A i \in 1..Len(tried) : tried[i] = (s_mirror + (i - 1)) % MIRRORS
    BY DEF BrowserInv, Typed, Walked
  <1>2. Len(tried) \in Nat /\ Len(tried) < MIRRORS /\ asking # Nothing
    BY <1>1 DEF MirrorFails
  <1>3. Mirror \in M
    BY <1>0, <1>1, <1>2 DEF Mirror
  <1>4. tried' = Append(tried, Mirror)
    BY DEF MirrorFails
  <1>5. /\ tried' \in Seq(M) /\ Len(tried') = Len(tried) + 1
        /\ \A i \in 1..Len(tried) : tried'[i] = tried[i]
        /\ tried'[Len(tried) + 1] = Mirror
    <2> HIDE DEF M
    <2> QED BY <1>1, <1>3, <1>4, AppendProperties
  <1>6. s_mirror' = s_mirror /\ answered' = answered /\ asking' = asking
    BY DEF MirrorFails, AfterFailure
  <1>7. \A i \in 1..Len(tried') : tried'[i] = (s_mirror' + (i - 1)) % MIRRORS
    <2> SUFFICES ASSUME NEW i \in 1..Len(tried')
                 PROVE  tried'[i] = (s_mirror + (i - 1)) % MIRRORS
      BY <1>6
    <2>1. i \in 1..Len(tried) \/ i - 1 = Len(tried)
      BY <1>2, <1>5
    <2> QED BY <1>1, <1>2, <1>5, <2>1, SMTT(40) DEF Mirror
  <1>8. Walked'
    BY <1>0, <1>2, <1>5, <1>6, <1>7 DEF Walked
  <1>9. Typed'
    BY <1>6 DEF MirrorFails, BrowserInv, Typed, app, lists, saving
  <1>10. Stars' /\ FavsKept' /\ Labelled'
    BY DEF MirrorFails, BrowserInv, Stars, FavsKept, Labelled, app, lists, saving
  <1> QED BY <1>8, <1>9, <1>10 DEF BrowserInv

\* A call that returned has no walk.
LEMMA ReturnedKeeps == ASSUME Returned PROVE Walked'
  <1>1. <<>> \in Seq(0..(MIRRORS - 1)) /\ Len(<<>>) = 0 /\ MIRRORS \in Nat
    BY BrowserAssumption
  <1>2. tried' = <<>>
    BY DEF Returned
  <1> QED BY <1>1, <1>2 DEF Walked

\* A request nobody answered leaves the screen alone.
LEMMA NoAnswerKeeps == ASSUME BrowserInv, NoAnswer PROVE BrowserInv'
  <1>1. Walked'
    BY ReturnedKeeps DEF NoAnswer
  <1>2. Typed'
    BY DEF NoAnswer, Returned, BrowserInv, Typed, app, lists, saving
  <1>3. Stars' /\ FavsKept' /\ Labelled'
    BY DEF NoAnswer, BrowserInv, Stars, FavsKept, Labelled, app, lists, saving
  <1> QED BY <1>1, <1>2, <1>3 DEF BrowserInv

\* An answer is shown with its label and its stars, or refused whole.
LEMMA AnswerKeeps == ASSUME BrowserInv, Answer PROVE BrowserInv'
  <1>1. Walked'
    BY ReturnedKeeps DEF Answer
  <1>2. /\ net_ok' = net_ok /\ file' = file /\ unsaved' = unsaved
        /\ asking' = Nothing /\ s_mirror' = answered' /\ answered' \in 0..(MIRRORS - 1)
    <2>1. MIRRORS \in Nat \ {0} /\ Len(tried) \in Nat /\ s_mirror \in 0..(MIRRORS - 1)
      BY BrowserAssumption DEF BrowserInv, Typed, Walked
    <2>2. Mirror \in 0..(MIRRORS - 1)
      BY <2>1 DEF Mirror
    <2> QED BY <2>2 DEF Answer, Returned, saving
  <1>3. CASE BadAnswer
    <2>1. Typed'
      BY <1>2, <1>3 DEF BadAnswer, BrowserInv, Typed, app, lists
    <2>2. Stars' /\ FavsKept' /\ Labelled'
      BY <1>2, <1>3 DEF BadAnswer, BrowserInv, Stars, FavsKept, Labelled, app, lists
    <2> QED BY <1>1, <2>1, <2>2 DEF BrowserInv
  <1>4. CASE asking \in Queries /\ ShowsSearch /\ UNCHANGED chip_focus
    <2>1. Rows(asking) \in Seq(Urls)
      BY <1>4, RowsType
    <2>2. PICK l \in Added(Rows(asking)) : s_search' = Marked(l, s_favs)
      BY <1>4 DEF ShowsSearch
    <2>3. /\ s_search' \in Seq(Row) /\ Follows(s_search', Rows(asking))
          /\ Starred(s_search', s_favs)
      BY <2>1, <2>2, Showing
    <2>4. /\ s_search_label' = asking /\ tab' = "search" /\ selected' = 1
          /\ UNCHANGED <<chip_active, chip_focus, s_stations, s_favs, s_stations_label>>
      BY <1>4 DEF ShowsSearch
    <2>5. Typed'
      BY <1>2, <2>3, <2>4 DEF BrowserInv, Typed
    <2>6. Stars' /\ FavsKept'
      BY <1>2, <2>3, <2>4 DEF BrowserInv, Stars, FavsKept
    <2>7. Labelled'
      BY <1>4, <2>3, <2>4 DEF BrowserInv, Labelled
    <2> QED BY <1>1, <2>5, <2>6, <2>7 DEF BrowserInv
  <1>5. CASE ShowsChip(chip_focus) /\ UNCHANGED <<tab, chip_focus>>
    <2>1. chip_focus \in 1..Len(Chips)
      BY DEF BrowserInv, Typed
    <2>2. /\ s_stations' \in Seq(Row) /\ Starred(s_stations', s_favs)
          /\ s_stations_label' = Chips[chip_focus] /\ chip_active' = chip_focus
          /\ selected' = 1 /\ Follows(s_stations', Rows(Chips[chip_focus]))
          /\ s_favs' = s_favs /\ s_search' = s_search /\ s_search_label' = s_search_label
      BY <1>5, <2>1, ShowsChipKeeps DEF BrowserInv
    <2>3. Typed'
      BY <1>2, <1>5, <2>1, <2>2 DEF BrowserInv, Typed
    <2>4. Stars' /\ FavsKept'
      BY <1>2, <2>2 DEF BrowserInv, Stars, FavsKept
    <2>5. Labelled'
      BY <2>2 DEF BrowserInv, Labelled
    <2> QED BY <1>1, <2>3, <2>4, <2>5 DEF BrowserInv
  <1> QED BY <1>3, <1>4, <1>5 DEF Answer

\* Every step of the browser keeps its invariant.
LEMMA BrowserStep == BrowserInv /\ BrowserNext => BrowserInv'
  BY FrameStartsKeeps, MoveKeeps, SwitchTabKeeps, StepChipKeeps, ToggleKeeps, SearchKeeps,
     MirrorFailsKeeps, NoAnswerKeeps, AnswerKeeps, Zenon DEF BrowserNext

\* And so does every step of another component.
LEMMA BrowserRests == BrowserInv /\ UNCHANGED browserVars => BrowserInv'
  BY DEF BrowserInv, Typed, Walked, Stars, FavsKept, Labelled,
      browserVars, app, lists, fetch, saving

\* The browser's invariant always holds.
LEMMA BrowserAlways == Spec => []BrowserInv
  <1>1. Init => BrowserInv
    BY Resting, BrowserInitially, Zenon DEF Init
  <1>2. BrowserInv /\ [Next]_vars => BrowserInv'
    BY BrowserStep, BrowserRests, Zenon DEF Next, vars
  <1> QED BY <1>1, <1>2, PTL DEF Spec

\* Places less than MIRRORS apart on the ring are different mirrors, and MIRRORS of them
\* are all there are.
LEMMA MirrorsOnce == BrowserInv => EveryMirrorOnce
  <1> SUFFICES ASSUME BrowserInv PROVE EveryMirrorOnce
    OBVIOUS
  <1>0. MIRRORS \in Nat \ {0} /\ MIRRORS \in Int
    BY BrowserAssumption
  <1>1. /\ Len(tried) \in Nat /\ Len(tried) <= MIRRORS /\ DOMAIN tried = 1..Len(tried)
        /\ s_mirror \in 0..(MIRRORS - 1) /\ s_mirror = answered
        /\ \A i \in 1..Len(tried) : tried[i] \in 0..(MIRRORS - 1)
    <2>1. /\ tried \in Seq(0..(MIRRORS - 1)) /\ Len(tried) <= MIRRORS
          /\ s_mirror \in 0..(MIRRORS - 1) /\ s_mirror = answered
      BY DEF BrowserInv, Typed, Walked
    <2>2. \A M : tried \in Seq(M) =>
             Len(tried) \in Nat /\ DOMAIN tried = 1..Len(tried)
             /\ \A i \in 1..Len(tried) : tried[i] \in M
      OBVIOUS
    <2> QED BY <2>1, <2>2
  <1>2. ASSUME NEW i \in 1..Len(tried)
        PROVE  tried[i] = IF s_mirror + (i - 1) < MIRRORS THEN s_mirror + (i - 1)
                          ELSE s_mirror + (i - 1) - MIRRORS
    <2>1. tried[i] = (s_mirror + (i - 1)) % MIRRORS
      BY DEF BrowserInv, Walked
    <2>2. i - 1 \in 0..(MIRRORS - 1)
      BY <1>0, <1>1
    <2> QED BY <1>0, <1>1, <2>1, <2>2, Around
  <1>3. IsInjective(tried)
    <2> SUFFICES ASSUME NEW i \in 1..Len(tried), NEW j \in 1..Len(tried), tried[i] = tried[j]
                 PROVE  i = j
      BY <1>1 DEF IsInjective
    <2> QED BY <1>0, <1>1, <1>2, SMTT(40)
  <1>4. tried # <<>> => Head(tried) = answered
    <2> SUFFICES ASSUME tried # <<>> PROVE Head(tried) = answered
      OBVIOUS
    <2>1. tried \in Seq(0..(MIRRORS - 1))
      BY DEF BrowserInv, Walked
    <2>2. 1 \in 1..Len(tried) /\ Head(tried) = tried[1]
      BY <2>1
    <2> QED BY <1>0, <1>1, <1>2, <2>2
  <1>5. Len(tried) = MIRRORS => ToSet(tried) = 0..(MIRRORS - 1)
    <2> SUFFICES ASSUME Len(tried) = MIRRORS, NEW m \in 0..(MIRRORS - 1)
                 PROVE  \E i \in 1..Len(tried) : tried[i] = m
      BY <1>1 DEF ToSet
    <2>1. CASE s_mirror <= m
      <3>1. m - s_mirror + 1 \in 1..Len(tried)
        BY <1>0, <1>1, <2>1
      <3>2. tried[m - s_mirror + 1] = m
        BY <1>0, <1>1, <1>2, <2>1, <3>1
      <3> QED BY <3>1, <3>2
    <2>2. CASE m < s_mirror
      <3>1. m - s_mirror + 1 + MIRRORS \in 1..Len(tried)
        BY <1>0, <1>1, <2>2
      <3>2. tried[m - s_mirror + 1 + MIRRORS] = m
        BY <1>0, <1>1, <1>2, <2>2, <3>1
      <3> QED BY <3>1, <3>2
    <2> QED BY <1>0, <1>1, <2>1, <2>2
  <1> QED BY <1>3, <1>4, <1>5 DEF EveryMirrorOnce

\* EveryMirrorOnce for any number of mirrors: a request asks no mirror of rbrowser.c twice,
\* starts with the one that answered last and fails only when all have been tried.
THEOREM MirrorsAskedOnce == Spec => []EveryMirrorOnce
  BY BrowserAlways, MirrorsOnce, PTL

\* A list that follows the rows shows a beginning of them.
LEMMA Beginning ==
    ASSUME NEW l \in Seq(Row), NEW rows \in Seq(Urls), Follows(l, rows)
    PROVE  IsPrefix([i \in DOMAIN l |-> l[i].url], rows)
  <1> DEFINE u == [i \in 1..Len(l) |-> l[i].url]
  <1>1. Len(l) \in Nat /\ DOMAIN l = 1..Len(l) /\ Len(rows) \in Nat
        /\ \A i \in 1..Len(l) : l[i] \in Row
    OBVIOUS
  <1>2. Len(l) <= Len(rows) /\ \A i \in 1..Len(l) : l[i].url = rows[i]
    BY DEF Follows
  <1>3. \A i \in 1..Len(l) : u[i] \in Urls /\ u[i] = rows[i]
    BY <1>1, <1>2 DEF Row
  <1>4. u = [i \in 1..Len(l) |-> u[i]]
    OBVIOUS
  <1> HIDE DEF u
  <1>5. u \in Seq(Urls) /\ Len(u) = Len(l)
    BY <1>1, <1>3, <1>4, IsASeq
  <1>6. SubSeq(u, 1, Len(l)) = SubSeq(rows, 1, Len(l))
    BY <1>1, <1>2, <1>3, <1>5
  <1>7. IsPrefix(u, rows)
    BY <1>2, <1>5, <1>6 DEF IsPrefix
  <1> QED BY <1>1, <1>7 DEF u

\* The invariant says that the screen is true.
LEMMA ScreenTrue == BrowserInv => ScreenIsTrue
  <1> SUFFICES ASSUME BrowserInv PROVE ScreenIsTrue
    OBVIOUS
  <1>1. s_stations \in Seq(Row) /\ s_favs \in Seq(Row) /\ s_search \in Seq(Row)
    BY DEF BrowserInv, Typed
  <1>2. \A l \in {s_stations, s_favs, s_search} : \A i \in DOMAIN l :
           l[i].is_fav = (l[i].url \in UrlsOf(s_favs))
    <2>1. \A l \in Seq(Row) : Starred(l, s_favs) =>
             \A i \in DOMAIN l : l[i].is_fav = (l[i].url \in UrlsOf(s_favs))
      BY DEF Starred
    <2> QED BY <1>1, <2>1 DEF BrowserInv, Stars
  <1>3. Chips[chip_active] \in ToSet(Chips)
    BY ChipIsLabel DEF BrowserInv, Typed
  <1>4. s_stations_label = Chips[chip_active] /\ Rows(s_stations_label) \in Seq(Urls)
    BY <1>3, RowsType DEF BrowserInv, Labelled
  <1>5. IsPrefix([i \in DOMAIN s_stations |-> s_stations[i].url], Rows(s_stations_label))
    BY <1>1, <1>4, Beginning DEF BrowserInv, Labelled
  <1>6. ASSUME s_search # <<>>
        PROVE  IsPrefix([i \in DOMAIN s_search |-> s_search[i].url], Rows(s_search_label))
    <2>1. Rows(s_search_label) \in Seq(Urls) /\ Follows(s_search, Rows(s_search_label))
      BY <1>6, RowsType DEF BrowserInv, Labelled
    <2> QED BY <1>1, <2>1, Beginning
  <1> QED BY <1>2, <1>4, <1>5, <1>6 DEF ScreenIsTrue, BrowserInv, FavsKept

\* ScreenIsTrue for any stations, chips, queries and directory: the stars, the file, the
\* label and the rows of main.c's lists belong together in every state.
THEOREM ScreenStaysTrue == Spec => []ScreenIsTrue
  BY BrowserAlways, ScreenTrue, PTL

-----------------------------------------------------------------------------
(* The segment                                                             *)

\* A piece that is not encrypted, or is under this key.
Under(k) == {p \in Piece : p.as = "plain" \/ (p.as = k /\ k # NotEncrypted)}

\* A segment play_segment goes on with.
Proper(s) == s \in SegmentsServed /\ s.key # Unusable

\* The calls of http_get.
CallsOver(A, U, B, S) ==
    [at : A, url : U, max : Nat, body : B, too_large : BOOLEAN, oom : BOOLEAN, hops : Nat,
     status : S, ok : BOOLEAN]

\* The calls of play_segment.
Calls == CallsOver({"idle", "perform", "body", "over", "failed", "done"},
                   {""} \cup Addresses, Seq(Piece), {0, 200, 302, 404})

\* The types; what is sent of a segment is under its key or not encrypted.
SegTyped ==
    /\ seg \in SegmentsServed \cup {NoSegment}
    /\ s_seg \in [data : Seq(Piece), too_large : BOOLEAN, oom : BOOLEAN]
    /\ segSent \in Seq(Under(seg.key)) /\ segLeft \in Seq(Under(seg.key))
    /\ broken \in BOOLEAN /\ seg_key \in Seq(Piece)
    /\ keys \in [1..KEY_CACHE_SLOTS -> [uri : {NotEncrypted} \cup Addresses, key : Seq(Piece)]]
    /\ key_next \in 1..KEY_CACHE_SLOTS
    /\ get \in Calls
    /\ getLeft \in Seq(Piece)

\* The segment play_segment has at each of its places, and what it holds of it.
Playing ==
    /\ segpc = "idle" => segSent = <<>>
    /\ segpc \in {"idle", "fetch"} => broken = FALSE
    /\ segpc \in {"fetch", "fetched", "key", "keyfetch", "decrypt", "feed"} => Proper(seg)
    /\ segpc \in {"key", "keyfetch", "decrypt"} => seg.key # NotEncrypted
    /\ segpc \in {"fetch", "fetched", "key", "keyfetch", "decrypt"} /\ ~broken =>
          s_seg.data = segSent
    /\ segpc \in {"key", "keyfetch", "decrypt"} => ~broken /\ seg_status \in 200..299

\* The keys belong to their addresses.
KeysOk ==
    /\ \A i \in 1..KEY_CACHE_SLOTS :
          keys[i].uri # NotEncrypted => keys[i].key = WholeKey(keys[i].uri)
    /\ segpc = "decrypt" => seg_key = WholeKey(seg.key)

\* What http_get has of the document that answers.
Getting ==
    /\ get.ok => get.at = "done"
    /\ segpc = "keyfetch" => get.url = seg.key
    /\ get.at = "body" /\ get.status = 200 => get.body \o getLeft \in Documents(get.url)
    /\ get.at = "over" /\ get.status = 200 => get.body \in Documents(get.url)
    /\ get.ok => get.body \in Documents(get.url)

\* The inductive invariant: types, what each place holds, keys, the call for one.
SegInv == SegTyped /\ Playing /\ KeysOk /\ Getting /\ SegmentAsServed

\* A piece taken off the front and what is left.
LEMMA Splits ==
    ASSUME NEW S, NEW s \in Seq(S), NEW n \in DOMAIN s
    PROVE  /\ SubSeq(s, 1, n) \in Seq(S) /\ SubSeq(s, n + 1, Len(s)) \in Seq(S)
           /\ SubSeq(s, 1, n) \o SubSeq(s, n + 1, Len(s)) = s
  <1>1. Len(s) \in Nat /\ n \in 1..Len(s) /\ \A i \in 1..Len(s) : s[i] \in S
    OBVIOUS
  <1>2. n \in Nat /\ n <= Len(s)
    BY <1>1
  <1> DEFINE a == SubSeq(s, 1, n)
             z == SubSeq(s, n + 1, Len(s))
  <1>3. a \in Seq(S) /\ Len(a) = n /\ \A i \in 1..n : a[i] = s[i]
    BY <1>1, <1>2
  <1>4. z \in Seq(S) /\ Len(z) = Len(s) - n /\ \A i \in 1..(Len(s) - n) : z[i] = s[n + i]
    <2>1. \A i \in (n + 1)..Len(s) : s[i] \in S
      BY <1>1, <1>2
    <2> QED BY <1>1, <1>2, <2>1
  <1> HIDE DEF a, z
  <1>5. /\ a \o z \in Seq(S) /\ Len(a \o z) = Len(a) + Len(z)
        /\ \A i \in 1..(Len(a) + Len(z)) :
              (a \o z)[i] = IF i <= Len(a) THEN a[i] ELSE z[i - Len(a)]
    BY <1>3, <1>4, ConcatProperties, ZenonT(40)
  <1>a. Len(a) = n /\ Len(z) = Len(s) - n /\ Len(s) \in Nat /\ n \in Nat
    BY <1>1, <1>2, <1>3, <1>4
  <1>b. Len(a) + Len(z) = Len(s)
    BY <1>a, SMTT(40)
  <1>c. \A i \in 1..Len(s) : (a \o z)[i] = IF i <= n THEN a[i] ELSE z[i - n]
    BY <1>5, <1>a, <1>b, Zenon
  <1>6. ASSUME NEW i \in 1..Len(s) PROVE (a \o z)[i] = s[i]
    <2>1. CASE i <= n
      <3>1. i \in 1..n
        BY <1>1, <1>2, <2>1
      <3> QED BY <1>3, <1>c, <2>1, <3>1
    <2>2. CASE ~(i <= n)
      <3>1. i - n \in 1..(Len(s) - n) /\ n + (i - n) = i
        BY <1>1, <1>2, <2>2
      <3>2. z[i - n] = s[i]
        BY <1>4, <3>1
      <3> QED BY <1>c, <2>2, <3>2
    <2> QED BY <2>1, <2>2
  <1>7. Len(a \o z) = Len(s)
    BY <1>5, <1>b
  <1>8. a \o z = s
    BY <1>5, <1>6, <1>7, SeqEqual
  <1> QED BY <1>3, <1>4, <1>8 DEF a, z

\* Whatever the key, pieces are pieces.
LEMMA UnderIsPiece == \A k, q : q \in Seq(Under(k)) => q \in Seq(Piece)
  <1>1. \A k : Under(k) \subseteq Piece
    BY DEF Under
  <1> QED BY <1>1, SeqMonotonic

\* What a segment's address serves.
LEMMA BodyType ==
    ASSUME NEW s \in SegmentsServed
    PROVE  /\ BodyOf(s) \in Seq(Under(s.key)) /\ Page \in Seq(Under(s.key))
           /\ <<>> \in Seq(Under(s.key))
  <1>1. s \in [of : STRING, parts : Nat, ts : BOOLEAN, codec : STRING, key : STRING]
    BY SegmentAssumption
  <1> DEFINE as == IF s.key = NotEncrypted THEN "plain" ELSE s.key
             b  == [i \in 1..s.parts |-> [of |-> s.of, n |-> i, as |-> as]]
  <1>2. BodyOf(s) = b
    BY DEF BodyOf, Parts
  <1>3. \A i \in 1..s.parts : b[i] \in Under(s.key)
    BY <1>1 DEF Under, Piece, Addresses
  <1>4. s.parts \in Nat /\ b = [i \in 1..s.parts |-> b[i]]
    BY <1>1
  <1> HIDE DEF b
  <1>5. b \in Seq(Under(s.key))
    BY <1>3, <1>4, IsASeq
  <1>6. Page \in Seq(Under(s.key))
    <2> DEFINE p == [of |-> "page", n |-> 1, as |-> "plain"]
    <2>1. p \in Under(s.key)
      BY DEF Under, Piece
    <2>2. Page = <<p>>
      BY DEF Page
    <2> HIDE DEF p
    <2> QED BY <2>1, <2>2
  <1>7. <<>> \in Seq(Under(s.key))
    BY EmptySeq
  <1> QED BY <1>2, <1>5, <1>6, <1>7

\* A page is a piece.
LEMMA PageType == Page \in Seq(Piece) /\ <<>> \in Seq(Piece)
  <1> DEFINE p == [of |-> "page", n |-> 1, as |-> "plain"]
  <1>1. p \in Piece
    BY DEF Piece
  <1>2. Page = <<p>>
    BY DEF Page
  <1> HIDE DEF p
  <1> QED BY <1>1, <1>2, EmptySeq

\* Nothing has been downloaded.
LEMMA SegStarts == SegStart => SegInv
  <1> SUFFICES ASSUME SegStart PROVE SegInv
    OBVIOUS
  <1>1. <<>> \in Seq(Piece) /\ \A k : <<>> \in Seq(Under(k))
    BY EmptySeq
  <1>2. SegTyped
    <2>1. s_seg \in [data : Seq(Piece), too_large : BOOLEAN, oom : BOOLEAN]
      BY <1>1 DEF SegStart, Empty
    <2>2. keys \in [1..KEY_CACHE_SLOTS -> [uri : {NotEncrypted} \cup Addresses, key : Seq(Piece)]]
          /\ key_next \in 1..KEY_CACHE_SLOTS
      <3>1. [uri |-> NotEncrypted, key |-> <<>>]
                \in [uri : {NotEncrypted} \cup Addresses, key : Seq(Piece)]
        BY <1>1
      <3>2. KEY_CACHE_SLOTS \in Nat \ {0}
        BY SegmentAssumption
      <3> QED BY <3>1, <3>2 DEF SegStart
    <2>3. get \in Calls
      BY <1>1 DEF SegStart, NoGet, Calls, CallsOver
    <2> QED BY <1>1, <2>1, <2>2, <2>3 DEF SegTyped, SegStart
  <1>3. Playing /\ SegmentAsServed
    BY DEF Playing, SegmentAsServed, SegStart
  <1>4. KeysOk
    BY DEF KeysOk, SegStart
  <1>5. Getting
    BY DEF Getting, SegStart, NoGet
  <1> QED BY <1>2, <1>3, <1>4, <1>5 DEF SegInv

\* A stop changes none of it.
LEMMA SegStopKeeps == ASSUME SegInv, SegStop PROVE SegInv'
  BY DEF SegInv, SegTyped, Playing, KeysOk, Getting, SegmentAsServed, SegStop, transfer, cache,
         getVars

\* A return leaves nothing of the segment but the buffer, which the next one empties.
LEMMA ReturnKeeps ==
    ASSUME SegInv, NEW how, SegReturns(how), UNCHANGED <<keys, key_next, getVars>>
    PROVE  SegInv'
  <1>1. /\ segpc' \in {"idle", "over"} /\ seg' = NoSegment /\ seg_key' = <<>>
        /\ segSent' = <<>> /\ segLeft' = <<>> /\ broken' = FALSE /\ s_seg' = s_seg
        /\ keys' = keys /\ key_next' = key_next /\ get' = get /\ getLeft' = getLeft
    BY DEF SegReturns, getVars
  <1>2. <<>> \in Seq(Piece) /\ \A k : <<>> \in Seq(Under(k))
    BY EmptySeq
  <1>3. SegTyped'
    <2>1. seg_key' \in Seq(Piece) /\ segSent' \in Seq(Under(seg'.key))
          /\ segLeft' \in Seq(Under(seg'.key))
      BY <1>1, <1>2
    <2> QED BY <1>1, <2>1 DEF SegInv, SegTyped
  <1>4. Playing' /\ SegmentAsServed'
    BY <1>1 DEF Playing, SegmentAsServed
  <1>5. KeysOk' /\ Getting'
    BY <1>1 DEF SegInv, KeysOk, Getting
  <1> QED BY <1>3, <1>4, <1>5 DEF SegInv

\* A new segment empties the buffer before its first byte.
LEMMA PlaySegmentKeeps == ASSUME SegInv, PlaySegment PROVE SegInv'
  <1>1. /\ segpc = "idle" /\ segSent = <<>> /\ broken = FALSE
        /\ UNCHANGED <<keys, key_next, seg_key, get, getLeft>>
    BY DEF SegInv, Playing, PlaySegment, cache, getVars
  <1>2. PICK s \in SegmentsServed :
           IF s.key = Unusable THEN UNCHANGED <<segpc, seg, transfer>>
           ELSE /\ segpc' = "fetch" /\ seg' = s /\ s_seg' = Emptied(s_seg)
                /\ \/ seg_status' = 200 /\ segLeft' \in {BodyOf(s), Page, <<>>}
                   \/ seg_status' = 404 /\ segLeft' \in {Page, <<>>}
                /\ UNCHANGED <<segSent, broken>>
    BY Zenon DEF PlaySegment
  <1>3. CASE s.key = Unusable
    <2>1. UNCHANGED <<segpc, seg, s_seg, seg_status, segSent, segLeft, broken>>
      BY <1>2, <1>3 DEF transfer
    <2> QED BY <1>1, <2>1 DEF SegInv, SegTyped, Playing, KeysOk, Getting, SegmentAsServed
  <1>4. CASE s.key # Unusable
    <2>1. /\ segpc' = "fetch" /\ seg' = s /\ s_seg' = Empty
          /\ segLeft' \in {BodyOf(s), Page, <<>>} /\ segSent' = <<>> /\ broken' = FALSE
      BY <1>1, <1>2, <1>4 DEF Emptied
    <2>2. segLeft' \in Seq(Under(s.key)) /\ segSent' \in Seq(Under(s.key))
      BY <2>1, BodyType
    <2>3. <<>> \in Seq(Piece)
      BY EmptySeq
    <2>4. SegTyped'
      BY <1>1, <2>1, <2>2, <2>3 DEF SegInv, SegTyped, Empty
    <2>5. Playing' /\ SegmentAsServed'
      BY <1>4, <2>1 DEF Playing, Proper, SegmentAsServed, Empty
    <2>6. KeysOk' /\ Getting'
      BY <1>1, <2>1 DEF SegInv, KeysOk, Getting
    <2> QED BY <2>4, <2>5, <2>6 DEF SegInv
  <1> QED BY <1>3, <1>4

-----------------------------------------------------------------------------
(* The download of a segment                                               *)

\* A piece is in the buffer, or the transfer is broken.
LEMMA SegWriteKeeps == ASSUME SegInv, SegWrite PROVE SegInv'
  <1> DEFINE U == Under(seg.key)
  <1>1. PICK n \in DOMAIN segLeft :
         /\ segSent' = segSent \o SubSeq(segLeft, 1, n)
         /\ segLeft' = SubSeq(segLeft, n + 1, Len(segLeft))
         /\ IF s_stop \/ Len(s_seg.data) + n > SEGMENT_MAX
            THEN /\ s_seg' = [s_seg EXCEPT !.too_large = ~s_stop]
                 /\ broken' = TRUE /\ segpc' = "fetched"
            ELSE \/ /\ s_seg' = [s_seg EXCEPT !.data = @ \o SubSeq(segLeft, 1, n)]
                    /\ UNCHANGED <<segpc, broken>>
                 \/ /\ s_seg' = [s_seg EXCEPT !.oom = TRUE]
                    /\ broken' = TRUE /\ segpc' = "fetched"
    BY Zenon DEF SegWrite
  <1>2. /\ segpc = "fetch"
        /\ UNCHANGED <<seg, seg_status, keys, key_next, seg_key, get, getLeft>>
    BY DEF SegWrite, Transferring, cache, getVars
  <1> DEFINE a == SubSeq(segLeft, 1, n)
  <1>3. /\ segSent \in Seq(U) /\ segLeft \in Seq(U)
        /\ s_seg \in [data : Seq(Piece), too_large : BOOLEAN, oom : BOOLEAN]
    BY DEF SegInv, SegTyped
  <1>4. a \in Seq(U) /\ segLeft' \in Seq(U)
    <2> HIDE DEF U
    <2> QED BY <1>1, <1>3, Splits
  <1>5. segSent' = segSent \o a
    BY <1>1
  <1>6. CASE broken' = TRUE /\ segpc' = "fetched" /\ s_seg'.data = s_seg.data
             /\ s_seg' \in [data : Seq(Piece), too_large : BOOLEAN, oom : BOOLEAN]
    <2>1. segSent' \in Seq(U)
      <3> HIDE DEF a, U
      <3> QED BY <1>3, <1>4, <1>5
    <2>2. SegTyped'
      BY <1>2, <1>4, <1>6, <2>1 DEF SegInv, SegTyped
    <2>3. Playing' /\ SegmentAsServed'
      BY <1>2, <1>6 DEF SegInv, Playing, Proper, SegmentAsServed
    <2>4. KeysOk' /\ Getting'
      BY <1>2, <1>6 DEF SegInv, KeysOk, Getting
    <2> QED BY <2>2, <2>3, <2>4 DEF SegInv
  <1>7. CASE s_seg' = [s_seg EXCEPT !.data = @ \o a] /\ UNCHANGED <<segpc, broken>>
    <2> HIDE DEF a
    <2>1. segSent' \in Seq(U)
      <3> HIDE DEF U
      <3> QED BY <1>3, <1>4, <1>5
    <2>2. a \in Seq(Piece)
      BY <1>4, UnderIsPiece
    <2>3. s_seg.data \o a \in Seq(Piece)
      BY <1>3, <2>2
    <2>4. s_seg' \in [data : Seq(Piece), too_large : BOOLEAN, oom : BOOLEAN]
          /\ s_seg'.data = s_seg.data \o a
      BY <1>3, <1>7, <2>3
    <2>5. SegTyped'
      BY <1>2, <1>4, <1>7, <2>1, <2>4 DEF SegInv, SegTyped
    <2>6. Playing' /\ SegmentAsServed'
      BY <1>2, <1>5, <1>7, <2>4 DEF SegInv, Playing, Proper, SegmentAsServed
    <2>7. KeysOk' /\ Getting'
      BY <1>2, <1>7 DEF SegInv, KeysOk, Getting
    <2> QED BY <2>5, <2>6, <2>7 DEF SegInv
  <1>8. \/ /\ broken' = TRUE /\ segpc' = "fetched"
           /\ \/ s_seg' = [s_seg EXCEPT !.too_large = ~s_stop]
              \/ s_seg' = [s_seg EXCEPT !.oom = TRUE]
        \/ s_seg' = [s_seg EXCEPT !.data = @ \o a] /\ UNCHANGED <<segpc, broken>>
    BY <1>1
  <1> HIDE DEF a
  <1>9. (~s_stop) \in BOOLEAN
    OBVIOUS
  <1> QED BY <1>3, <1>6, <1>7, <1>8, <1>9

\* The end of the transfer leaves what has arrived.
LEMMA SegEndsKeeps == ASSUME SegInv, SegEnds PROVE SegInv'
  <1>1. /\ segpc = "fetch" /\ segpc' = "fetched" /\ broken' \in BOOLEAN /\ segLeft' = <<>>
        /\ UNCHANGED <<s_seg, segSent, seg, seg_status, keys, key_next, seg_key, get, getLeft>>
    BY DEF SegEnds, Transferring, cache, getVars
  <1>2. \A k : <<>> \in Seq(Under(k))
    BY EmptySeq
  <1>3. s_seg.data = segSent
    BY <1>1 DEF SegInv, Playing
  <1>4. SegTyped'
    BY <1>1, <1>2 DEF SegInv, SegTyped
  <1>5. Playing' /\ SegmentAsServed'
    BY <1>1, <1>3 DEF SegInv, Playing, Proper, SegmentAsServed
  <1>6. KeysOk' /\ Getting'
    BY <1>1 DEF SegInv, KeysOk, Getting
  <1> QED BY <1>4, <1>5, <1>6 DEF SegInv

\* What is broken, too large or not an answer is skipped.
LEMMA FetchedKeeps == ASSUME SegInv, Fetched PROVE SegInv'
  <1>1. segpc = "fetched" /\ UNCHANGED <<seg_status, keys, key_next, get, getLeft, getVars>>
    BY DEF Fetched, getVars
  <1>2. CASE Skipped
    BY <1>1, <1>2, ReturnKeeps DEF Skipped
  <1>3. CASE ~Skipped
    <2>1. /\ BodyUsable /\ segpc' = (IF seg.key = NotEncrypted THEN "feed" ELSE "key")
          /\ UNCHANGED <<seg, s_seg, segSent, segLeft, broken, seg_key>>
      BY <1>3 DEF Fetched
    <2>2. SegTyped'
      BY <1>1, <2>1 DEF SegInv, SegTyped
    <2>3. broken = FALSE /\ seg_status \in 200..299 /\ s_seg.data = segSent /\ Proper(seg)
      BY <1>1, <2>1 DEF SegInv, SegTyped, Playing, BodyUsable
    <2>4. Playing'
      BY <1>1, <2>1, <2>3 DEF Playing, Proper
    <2>5. SegmentAsServed'
      <3>1. CASE seg.key = NotEncrypted
        <4>1. segSent \in Seq(Under(NotEncrypted))
          BY <3>1 DEF SegInv, SegTyped
        <4>2. \A i \in DOMAIN segSent : segSent[i].as = "plain"
          <5>1. \A i \in DOMAIN segSent : segSent[i] \in Under(NotEncrypted)
            BY <4>1
          <5> QED BY <5>1 DEF Under
        <4> QED BY <1>1, <2>1, <2>3, <3>1, <4>2 DEF SegmentAsServed, Proper
      <3>2. CASE seg.key # NotEncrypted
        BY <2>1, <3>2 DEF SegmentAsServed
      <3> QED BY <3>1, <3>2
    <2>6. KeysOk' /\ Getting'
      BY <1>1, <2>1 DEF SegInv, KeysOk, Getting
    <2> QED BY <2>2, <2>4, <2>5, <2>6 DEF SegInv
  <1> QED BY <1>2, <1>3

-----------------------------------------------------------------------------
(* Its key                                                                 *)

\* A key of the cache is the one of its address.
LEMMA KeyCachedKeeps == ASSUME SegInv, KeyCached PROVE SegInv'
  <1>1. PICK i \in Hits(seg.key) : seg_key' = keys[i].key
    BY Zenon DEF KeyCached
  <1>2. /\ segpc = "key" /\ segpc' = "decrypt"
        /\ UNCHANGED <<seg, s_seg, seg_status, segSent, segLeft, broken, keys, key_next, get,
                       getLeft>>
    BY DEF KeyCached, transfer, getVars
  <1>3. i \in 1..KEY_CACHE_SLOTS /\ keys[i].uri = seg.key /\ seg.key # NotEncrypted
        /\ keys[i].key \in Seq(Piece)
    BY <1>2 DEF Hits, SegInv, SegTyped, Playing
  <1>4. seg_key' = WholeKey(seg.key) /\ seg_key' \in Seq(Piece)
    BY <1>1, <1>3 DEF SegInv, KeysOk
  <1>5. SegTyped'
    BY <1>2, <1>4 DEF SegInv, SegTyped
  <1>6. Playing' /\ SegmentAsServed'
    BY <1>2 DEF SegInv, Playing, Proper, SegmentAsServed
  <1>7. KeysOk' /\ Getting'
    BY <1>2, <1>4 DEF SegInv, KeysOk, Getting
  <1> QED BY <1>5, <1>6, <1>7 DEF SegInv

\* The address a key is fetched from.
LEMMA KeyAddress ==
    ASSUME SegInv, segpc \in {"key", "keyfetch"}
    PROVE  /\ seg.key \in Addresses /\ seg.key # NotEncrypted
           /\ \A d \in Documents(seg.key) :
                 d \in Seq(Piece) /\ (Len(d) = KEY_BYTES => d = WholeKey(seg.key))
  <1>1. seg \in SegmentsServed /\ seg.key # Unusable /\ seg.key # NotEncrypted
    BY DEF SegInv, Playing, Proper
  <1> QED BY <1>1, KeysAssumption DEF Addresses

\* The key's address is asked.
LEMMA KeyAskedKeeps == ASSUME SegInv, KeyAsked PROVE SegInv'
  <1>1. /\ segpc = "key" /\ segpc' = "keyfetch"
        /\ get' = [NoGet EXCEPT !.at = "perform", !.url = seg.key, !.max = KEY_CAP]
        /\ UNCHANGED <<seg, s_seg, seg_status, segSent, segLeft, broken, keys, key_next, seg_key,
                       getLeft>>
    BY DEF KeyAsked, GetStart, transfer, cache
  <1>2. seg.key \in Addresses /\ <<>> \in Seq(Piece) /\ KEY_CAP \in Nat
    BY <1>1, KeyAddress, EmptySeq, SegmentAssumption
  <1>3. get' \in Calls /\ get'.url = seg.key /\ get'.at = "perform" /\ get'.ok = FALSE
    <2>1. get' = [at |-> "perform", url |-> seg.key, max |-> KEY_CAP, body |-> <<>>,
                  too_large |-> FALSE, oom |-> FALSE, hops |-> 0, status |-> 0, ok |-> FALSE]
      BY <1>1 DEF NoGet
    <2> QED BY <1>2, <2>1 DEF Calls, CallsOver
  <1>4. SegTyped'
    BY <1>1, <1>3 DEF SegInv, SegTyped
  <1>5. Playing' /\ SegmentAsServed'
    BY <1>1 DEF SegInv, Playing, Proper, SegmentAsServed
  <1>6. KeysOk' /\ Getting'
    BY <1>1, <1>3 DEF SegInv, KeysOk, Getting
  <1> QED BY <1>4, <1>5, <1>6 DEF SegInv

\* The fields of a call, and what remains of them when some are assigned.
LEMMA CallFields ==
    ASSUME NEW A, NEW U, NEW B, NEW S, NEW g \in CallsOver(A, U, B, S)
    PROVE  g.at \in A /\ g.body \in B /\ g.status \in S /\ g.ok \in BOOLEAN
  BY DEF CallsOver

\* A call goes on.
LEMMA CallMoves ==
    ASSUME NEW A, NEW U, NEW B, NEW S, NEW g \in CallsOver(A, U, B, S), NEW a \in A, NEW h,
           h = [g EXCEPT !.at = a]
    PROVE  /\ h \in CallsOver(A, U, B, S) /\ h.url = g.url
           /\ h.at = a /\ h.ok = g.ok /\ h.body = g.body /\ h.status = g.status
  BY DEF CallsOver

\* A call takes a piece.
LEMMA CallGrows ==
    ASSUME NEW A, NEW U, NEW B, NEW S, NEW g \in CallsOver(A, U, B, S), NEW b \in B, NEW h,
           h = [g EXCEPT !.body = b]
    PROVE  /\ h \in CallsOver(A, U, B, S) /\ h.url = g.url
           /\ h.at = g.at /\ h.ok = g.ok /\ h.body = b /\ h.status = g.status
  BY DEF CallsOver

\* A step of http_get keeps what it has of the document.
LEMMA GetStepKeeps ==
    ASSUME SegInv, segpc = "keyfetch", GetStep
    PROVE  /\ get' \in Calls /\ getLeft' \in Seq(Piece) /\ get'.url = get.url
           /\ get'.ok => get'.at = "done"
           /\ get'.at = "body" /\ get'.status = 200 =>
                 get'.body \o getLeft' \in Documents(get.url)
           /\ get'.at = "over" /\ get'.status = 200 => get'.body \in Documents(get.url)
           /\ get'.ok => get'.body \in Documents(get.url)
  <1> DEFINE G == /\ get' \in Calls /\ getLeft' \in Seq(Piece) /\ get'.url = get.url
                  /\ get'.ok => get'.at = "done"
                  /\ get'.at = "body" /\ get'.status = 200 =>
                        get'.body \o getLeft' \in Documents(get.url)
                  /\ get'.at = "over" /\ get'.status = 200 => get'.body \in Documents(get.url)
                  /\ get'.ok => get'.body \in Documents(get.url)
  <1>0. /\ get \in Calls /\ getLeft \in Seq(Piece) /\ Getting /\ get.url = seg.key
        /\ \A d \in Documents(get.url) : d \in Seq(Piece)
    BY KeyAddress DEF SegInv, SegTyped, Getting
  <1>m. PICK A : A = {"idle", "perform", "body", "over", "failed", "done"}
    OBVIOUS
  <1>n. PICK U : U = {""} \cup Addresses
    OBVIOUS
  <1>o. PICK S : S = {0, 200, 302, 404}
    OBVIOUS
  <1>p. PICK B : B = Seq(Piece)
    OBVIOUS
  <1>q. Calls = CallsOver(A, U, B, S)
    BY <1>m, <1>n, <1>o, <1>p, ZenonT(40) DEF Calls
  <1>a. /\ A = {"idle", "perform", "body", "over", "failed", "done"}
        /\ S = {0, 200, 302, 404} /\ B = Seq(Piece)
        /\ Calls = CallsOver(A, U, B, S)
    BY <1>m, <1>o, <1>p, <1>q
  <1>b. get \in CallsOver(A, U, B, S)
    BY <1>0, <1>a
  <1>c. get.body \in Seq(Piece) /\ get.status \in S /\ get.ok \in BOOLEAN
    BY <1>a, <1>b, CallFields
  <1>d. get.ok = FALSE \/ get.at = "done"
    BY <1>0, <1>c DEF Getting
  <1>e. PICK h : h = get'
    OBVIOUS
  <1>1. CASE GetCannot
    <2>1. get' = [get EXCEPT !.at = "done"] /\ get.at = "perform" /\ getLeft' = getLeft
      BY <1>1 DEF GetCannot
    <2>2. get' \in Calls /\ get'.url = get.url /\ get'.at = "done" /\ get'.ok = get.ok
      <3>1. "done" \in A
        BY <1>a
      <3> QED BY <1>a, <1>b, <2>1, <3>1, CallMoves
    <2> QED BY <1>0, <1>d, <2>1, <2>2
  <1>2. CASE GetStatus
    <2>0. PICK status \in {200, 302, 404} :
             /\ status = 302 => get.hops < GET_MAXREDIRS
             /\ getLeft' \in IF status = 200 THEN Documents(get.url) ELSE {<<>>, Page}
             /\ get' = [get EXCEPT !.at = "body", !.status = status, !.hops = @ + 1,
                                   !.body = StartsOver(@)]
      BY <1>2, Zenon DEF GetStatus
    <2>1. /\ getLeft' \in IF status = 200 THEN Documents(get.url) ELSE {<<>>, Page}
          /\ get' = [get EXCEPT !.at = "body", !.status = status, !.hops = @ + 1, !.body = <<>>]
      BY <2>0 DEF StartsOver
    <2>2. getLeft' \in Seq(Piece) /\ <<>> \in Seq(Piece)
      <3>1. CASE status = 200
        BY <1>0, <2>1, <3>1, PageType
      <3>2. CASE status # 200
        <4>1. getLeft' \in {<<>>, Page}
          BY <2>1, <3>2
        <4> QED BY <4>1, PageType
      <3> QED BY <3>1, <3>2
    <2>3. get.ok = FALSE
      BY <1>d, <1>2 DEF GetStatus
    <2>4. get' \in Calls /\ get'.url = get.url /\ get'.ok = FALSE /\ get'.at = "body"
          /\ get'.body = <<>> /\ get'.status = status
      <3>1. "body" \in A /\ status \in S
        BY <1>a, <2>0
      <3>2. PICK b \in B : b = <<>>
        BY <1>a, <2>2
      <3>3. get' = [get EXCEPT !.at = "body", !.status = status, !.hops = @ + 1, !.body = b]
        BY <2>1, <3>2
      <3>4. /\ get' \in CallsOver(A, U, B, S) /\ get'.url = get.url
            /\ get'.at = "body" /\ get'.ok = get.ok /\ get'.body = b /\ get'.status = status
        <4>1. PICK a \in A : a = "body"
          BY <3>1
        <4>2. h = [get EXCEPT !.at = a, !.status = status, !.hops = @ + 1, !.body = b]
          BY <1>e, <3>3, <4>1
        <4>3. /\ h \in CallsOver(A, U, B, S) /\ h.url = get.url
              /\ h.at = a /\ h.ok = get.ok /\ h.body = b /\ h.status = status
          <5>1. PICK n : n = get.hops + 1
            OBVIOUS
          <5>2. n \in Nat
            BY <1>b, <5>1 DEF CallsOver
          <5>3. h = [get EXCEPT !.at = a, !.status = status, !.hops = n, !.body = b]
            BY <4>2, <5>1
          <5> QED BY <1>b, <3>1, <5>2, <5>3 DEF CallsOver
        <4> QED BY <1>e, <4>1, <4>3
      <3> QED BY <1>a, <2>3, <3>2, <3>4
    <2>5. <<>> \o getLeft' = getLeft'
      BY <2>2, ConcatEmptySeq
    <2> QED BY <2>1, <2>2, <2>4, <2>5
  <1>3. CASE GetPiece
    <2>1. PICK n \in DOMAIN getLeft :
             /\ getLeft' = SubSeq(getLeft, n + 1, Len(getLeft))
             /\ \/ get' = [get EXCEPT !.too_large = TRUE, !.at = "failed"]
                \/ get' = [get EXCEPT !.body = @ \o SubSeq(getLeft, 1, n)]
                \/ get' = [get EXCEPT !.oom = TRUE, !.at = "failed"]
      BY <1>3 DEF GetPiece
    <2> DEFINE a == SubSeq(getLeft, 1, n)
               z == SubSeq(getLeft, n + 1, Len(getLeft))
    <2>2. a \in Seq(Piece) /\ z \in Seq(Piece) /\ a \o z = getLeft /\ getLeft' = z
      BY <1>0, <2>1, Splits
    <2>3. get.ok = FALSE /\ get.at = "body" /\ get.body \in Seq(Piece)
      BY <1>c, <1>d, <1>3 DEF GetPiece
    <2>4. CASE get' = [get EXCEPT !.too_large = TRUE, !.at = "failed"]
               \/ get' = [get EXCEPT !.oom = TRUE, !.at = "failed"]
      <3>1. get' \in Calls /\ get'.url = get.url /\ get'.ok = FALSE /\ get'.at = "failed"
        <4>1. PICK w \in A : w = "failed"
          BY <1>a
        <4>2. h = [get EXCEPT !.too_large = TRUE, !.at = w]
              \/ h = [get EXCEPT !.oom = TRUE, !.at = w]
          BY <1>e, <2>4, <4>1
        <4>3. h \in CallsOver(A, U, B, S) /\ h.url = get.url /\ h.at = w /\ h.ok = get.ok
          <5>1. CASE h = [get EXCEPT !.too_large = TRUE, !.at = w]
            BY <1>b, <5>1 DEF CallsOver
          <5>2. CASE h = [get EXCEPT !.oom = TRUE, !.at = w]
            BY <1>b, <5>2 DEF CallsOver
          <5> QED BY <4>2, <5>1, <5>2
        <4> QED BY <1>a, <1>e, <2>3, <4>1, <4>3
      <3> QED BY <2>2, <3>1
    <2>5. CASE get' = [get EXCEPT !.body = @ \o a]
      <3> HIDE DEF a, z
      <3>1. get.body \o a \in Seq(Piece)
        BY <2>2, <2>3
      <3>2. get' \in Calls /\ get'.url = get.url /\ get'.ok = FALSE /\ get'.at = "body"
            /\ get'.body = get.body \o a /\ get'.status = get.status
        <4>1. PICK b \in B : b = get.body \o a
          BY <1>a, <3>1
        <4>2. get' = [get EXCEPT !.body = b]
          BY <2>5, <4>1
        <4>3. /\ get' \in CallsOver(A, U, B, S) /\ get'.url = get.url
              /\ get'.at = get.at /\ get'.ok = get.ok /\ get'.body = b
              /\ get'.status = get.status
          BY <1>b, <4>2, CallGrows
        <4> QED BY <1>a, <2>3, <4>1, <4>3
      <3>3. get'.body \o getLeft' = get.body \o getLeft
        <4>1. PICK b \in Seq(Piece) : b = get.body
          BY <2>3
        <4>2. PICK c : c = b \o a
          OBVIOUS
        <4>3. c \o z = b \o getLeft
          <5>1. a \in Seq(Piece) /\ z \in Seq(Piece)
            BY <2>2
          <5>2. (b \o a) \o z = b \o (a \o z)
            BY <5>1
          <5> QED BY <2>2, <4>2, <5>2
        <4> QED BY <2>2, <3>2, <4>1, <4>2, <4>3
      <3>4. get.status = 200 => get.body \o getLeft \in Documents(get.url)
        BY <1>0, <2>3 DEF Getting
      <3> QED BY <2>2, <3>2, <3>3, <3>4
    <2> QED BY <2>1, <2>4, <2>5
  <1>4. CASE GetEnds
    <2>1. get.ok = FALSE /\ get.at = "body" /\ get.body \in Seq(Piece) /\ getLeft' = getLeft
      BY <1>c, <1>d, <1>4 DEF GetEnds
    <2>2. CASE get' = [get EXCEPT !.at = "failed"]
      <3>1. get' \in Calls /\ get'.url = get.url /\ get'.ok = FALSE /\ get'.at = "failed"
        <4>1. PICK a \in A : a = "failed"
          BY <1>a
        <4>2. h = [get EXCEPT !.at = a]
          BY <1>e, <2>2, <4>1
        <4>3. h \in CallsOver(A, U, B, S) /\ h.url = get.url /\ h.at = a /\ h.ok = get.ok
          BY <1>b, <4>2, CallMoves
        <4> QED BY <1>a, <1>e, <2>1, <4>1, <4>3
      <3> QED BY <1>0, <2>1, <3>1
    <2>3. CASE getLeft = <<>>
               /\ get' = [get EXCEPT !.at = IF get.status = 302 THEN "perform" ELSE "over"]
      <3>1. get' \in Calls /\ get'.url = get.url /\ get'.ok = FALSE /\ get'.body = get.body
            /\ get'.status = get.status /\ get'.at \in {"perform", "over"}
        <4>1. PICK a \in A : a \in {"perform", "over"} /\ get' = [get EXCEPT !.at = a]
          BY <1>a, <2>3
        <4>2. h = [get EXCEPT !.at = a]
          BY <1>e, <4>1
        <4>3. /\ h \in CallsOver(A, U, B, S) /\ h.url = get.url /\ h.at = a /\ h.ok = get.ok
              /\ h.body = get.body /\ h.status = get.status
          BY <1>b, <4>2, CallMoves
        <4> QED BY <1>a, <1>e, <2>1, <4>1, <4>3
      <3>2. get.body \o getLeft = get.body
        BY <2>1, <2>3, ConcatEmptySeq
      <3> QED BY <1>0, <2>1, <3>1, <3>2 DEF Getting
    <2> QED BY <1>4, <2>2, <2>3 DEF GetEnds
  <1>5. CASE GetConcludes
    <2>1. PICK no_memory \in BOOLEAN :
             get' = [get EXCEPT !.at = "done",
                            !.ok = /\ ~get.too_large /\ ~get.oom /\ get.at = "over"
                                   /\ get.status \in 200..299 /\ get.body # <<>>
                                   /\ ~no_memory]
      BY <1>5, Zenon DEF GetConcludes
    <2> DEFINE ok == /\ ~get.too_large /\ ~get.oom /\ get.at = "over"
                     /\ get.status \in 200..299 /\ get.body # <<>> /\ ~no_memory
    <2>2. get' = [get EXCEPT !.at = "done", !.ok = ok] /\ ok \in BOOLEAN
      BY <2>1
    <2>3. ok => get.at = "over" /\ get.status = 200
      <3>1. get.status \in {0, 200, 302, 404}
        BY <1>a, <1>c
      <3>2. 0 \notin 200..299 /\ 302 \notin 200..299 /\ 404 \notin 200..299
        OBVIOUS
      <3>3. get.status \in 200..299 => get.status = 200
        BY <3>1, <3>2
      <3>4. ok => get.at = "over" /\ get.status \in 200..299
        OBVIOUS
      <3> QED BY <3>3, <3>4, Zenon
    <2> HIDE DEF ok
    <2>4. get' \in Calls /\ get'.url = get.url /\ get'.ok = ok /\ get'.body = get.body
          /\ get'.at = "done"
      <3>1. PICK a \in A : a = "done"
        BY <1>a
      <3>2. h = [get EXCEPT !.at = a, !.ok = ok]
        BY <1>e, <2>2, <3>1
      <3>3. /\ h \in CallsOver(A, U, B, S) /\ h.url = get.url /\ h.at = a /\ h.ok = ok
            /\ h.body = get.body
        BY <1>b, <2>2, <3>2 DEF CallsOver
      <3> QED BY <1>a, <1>e, <3>1, <3>3
    <2>5. getLeft' = getLeft
      BY <1>5 DEF GetConcludes
    <2> QED BY <1>0, <2>3, <2>4, <2>5 DEF Getting
  <1> QED BY <1>1, <1>2, <1>3, <1>4, <1>5 DEF GetStep

\* http_get works, the segment waits.
LEMMA KeyFetchingKeeps == ASSUME SegInv, KeyFetching PROVE SegInv'
  <1>1. /\ segpc = "keyfetch" /\ GetStep
        /\ UNCHANGED <<segpc, seg, s_seg, seg_status, segSent, segLeft, broken, keys, key_next,
                       seg_key>>
    BY DEF KeyFetching, transfer, cache
  <1>2. /\ get' \in Calls /\ getLeft' \in Seq(Piece) /\ get'.url = get.url
        /\ get'.ok => get'.at = "done"
        /\ get'.at = "body" /\ get'.status = 200 =>
              get'.body \o getLeft' \in Documents(get.url)
        /\ get'.at = "over" /\ get'.status = 200 => get'.body \in Documents(get.url)
        /\ get'.ok => get'.body \in Documents(get.url)
    BY <1>1, GetStepKeeps
  <1>3. SegTyped'
    BY <1>1, <1>2 DEF SegInv, SegTyped
  <1>4. Playing' /\ SegmentAsServed'
    BY <1>1 DEF SegInv, Playing, Proper, SegmentAsServed
  <1>5. KeysOk'
    BY <1>1 DEF SegInv, KeysOk
  <1>6. Getting'
    BY <1>1, <1>2 DEF SegInv, Getting
  <1> QED BY <1>3, <1>4, <1>5, <1>6 DEF SegInv

\* What is kept as a key is the whole document of its address.
LEMMA KeyFetchedKeeps == ASSUME SegInv, KeyFetched PROVE SegInv'
  <1>1. /\ segpc = "keyfetch" /\ get.at = "done" /\ get' = NoGet /\ getLeft' = <<>>
        /\ seg_status' = seg_status
    BY DEF KeyFetched, GetFree
  <1>2. <<>> \in Seq(Piece) /\ \A k : <<>> \in Seq(Under(k))
    BY EmptySeq
  <1>3. get' \in Calls /\ getLeft' \in Seq(Piece) /\ Getting'
    <2>1. segpc' # "keyfetch"
      BY DEF KeyFetched, SegReturns
    <2>2. get' \in Calls
      BY <1>1, <1>2 DEF Calls, CallsOver, NoGet
    <2>3. getLeft' \in Seq(Piece)
      BY <1>1, <1>2
    <2> QED BY <1>1, <2>1, <2>2, <2>3 DEF NoGet, Getting
  <1>4. CASE get.ok /\ Len(get.body) = KEY_BYTES /\ seg_key' = get.body /\ KeyCachePut
             /\ segpc' = "decrypt" /\ UNCHANGED <<seg, s_seg, segSent, segLeft, broken>>
    <2>1. /\ seg.key \in Addresses /\ seg.key # NotEncrypted
          /\ \A d \in Documents(seg.key) :
                 d \in Seq(Piece) /\ (Len(d) = KEY_BYTES => d = WholeKey(seg.key))
      BY <1>1, KeyAddress
    <2>2. get.body \in Documents(seg.key)
      BY <1>1, <1>4 DEF SegInv, Getting
    <2>3. get.body = WholeKey(seg.key) /\ get.body \in Seq(Piece)
      BY <1>4, <2>1, <2>2
    <2> DEFINE K == [uri : {NotEncrypted} \cup Addresses, key : Seq(Piece)]
               e == [uri |-> seg.key, key |-> get.body]
    <2>4. keys \in [1..KEY_CACHE_SLOTS -> K] /\ key_next \in 1..KEY_CACHE_SLOTS
          /\ KEY_CACHE_SLOTS \in Nat \ {0}
      BY SegmentAssumption DEF SegInv, SegTyped
    <2>5. e \in K /\ e.uri = seg.key /\ e.key = WholeKey(seg.key)
      BY <2>1, <2>3
    <2>6. \/ keys' = [keys EXCEPT ![key_next] = e]
             /\ key_next' = (key_next % KEY_CACHE_SLOTS) + 1
          \/ UNCHANGED <<keys, key_next>>
      BY <1>4 DEF KeyCachePut
    <2> HIDE DEF K, e
    <2>7. keys' \in [1..KEY_CACHE_SLOTS -> K]
      BY <2>4, <2>5, <2>6
    <2>8. key_next' \in 1..KEY_CACHE_SLOTS
      <3>1. (key_next % KEY_CACHE_SLOTS) + 1 \in 1..KEY_CACHE_SLOTS
        BY <2>4
      <3> QED BY <2>4, <2>6, <3>1
    <2>9. \A i \in 1..KEY_CACHE_SLOTS :
             keys'[i].uri # NotEncrypted => keys'[i].key = WholeKey(keys'[i].uri)
      <3> SUFFICES ASSUME NEW i \in 1..KEY_CACHE_SLOTS, keys'[i].uri # NotEncrypted
                   PROVE  keys'[i].key = WholeKey(keys'[i].uri)
        OBVIOUS
      <3>1. keys'[i] = e \/ keys'[i] = keys[i]
        BY <2>4, <2>6
      <3> QED BY <2>5, <3>1 DEF SegInv, KeysOk
    <2>10. SegTyped'
      BY <1>3, <1>4, <2>3, <2>7, <2>8 DEF SegInv, SegTyped, K
    <2>11. KeysOk'
      BY <1>4, <2>3, <2>9 DEF KeysOk
    <2>12. Playing' /\ SegmentAsServed'
      BY <1>1, <1>4 DEF SegInv, Playing, Proper, SegmentAsServed
    <2> QED BY <1>3, <2>10, <2>11, <2>12 DEF SegInv
  <1>5. CASE SegReturns(-1) /\ UNCHANGED <<keys, key_next>>
    <2>1. /\ segpc' = "idle" /\ seg' = NoSegment /\ seg_key' = <<>>
          /\ segSent' = <<>> /\ segLeft' = <<>> /\ broken' = FALSE /\ s_seg' = s_seg
          /\ keys' = keys /\ key_next' = key_next
      BY <1>5 DEF SegReturns
    <2>2. SegTyped'
      <3>1. seg_key' \in Seq(Piece) /\ segSent' \in Seq(Under(seg'.key))
            /\ segLeft' \in Seq(Under(seg'.key))
        BY <1>2, <2>1
      <3> QED BY <1>3, <2>1, <3>1 DEF SegInv, SegTyped
    <2>3. Playing' /\ SegmentAsServed'
      BY <2>1 DEF Playing, SegmentAsServed
    <2>4. KeysOk'
      BY <2>1 DEF SegInv, KeysOk
    <2> QED BY <1>3, <2>2, <2>3, <2>4 DEF SegInv
  <1> QED BY <1>4, <1>5, Zenon DEF KeyFetched

-----------------------------------------------------------------------------
(* Its decryption, and what is made of it                                  *)

\* The right key makes everything under it plain and keeps the order.
LEMMA Decrypting ==
    ASSUME NEW k, NEW q \in Seq(Under(k)), seg_key = WholeKey(k)
    PROVE  /\ Decrypted(q) \in Seq(Piece) /\ Len(Decrypted(q)) = Len(q)
           /\ \A i \in 1..Len(q) :
                 /\ Decrypted(q)[i].of = q[i].of /\ Decrypted(q)[i].n = q[i].n
                 /\ q[i].as # "plain" => Decrypted(q)[i].as = "plain"
  <1> DEFINE d == Decrypted(q)
  <1>1. Len(q) \in Nat /\ DOMAIN q = 1..Len(q) /\ \A i \in 1..Len(q) : q[i] \in Under(k)
    OBVIOUS
  <1>2. ASSUME NEW i \in 1..Len(q)
        PROVE  /\ d[i] \in Piece /\ d[i].of = q[i].of /\ d[i].n = q[i].n
               /\ q[i].as # "plain" => d[i].as = "plain"
    <2> DEFINE as == IF q[i].as # "plain" /\ seg_key = WholeKey(q[i].as) THEN "plain"
                     ELSE "noise"
    <2>1. d[i] = [q[i] EXCEPT !.as = as]
      BY <1>1 DEF Decrypted
    <2>2. q[i] \in Piece /\ (q[i].as # "plain" => q[i].as = k)
      BY <1>1 DEF Under
    <2>3. as \in {"plain", "noise"} /\ (q[i].as # "plain" => as = "plain")
      BY <2>2
    <2> HIDE DEF as, d
    <2> QED BY <2>1, <2>2, <2>3 DEF Piece
  <1>3. d = [i \in 1..Len(q) |-> d[i]]
    BY <1>1 DEF Decrypted
  <1> HIDE DEF d
  <1>4. d \in Seq(Piece) /\ Len(d) = Len(q)
    BY <1>1, <1>2, <1>3, IsASeq
  <1> QED BY <1>2, <1>4 DEF d

\* A segment is decrypted with the key of its address, or skipped.
LEMMA DecryptKeeps == ASSUME SegInv, Decrypt PROVE SegInv'
  <1>1. segpc = "decrypt" /\ UNCHANGED <<seg_status, keys, key_next, get, getLeft, getVars>>
    BY DEF Decrypt, getVars
  <1>2. CASE SegReturns(-1)
    BY <1>1, <1>2, ReturnKeeps
  <1>3. CASE /\ s_seg' = [s_seg EXCEPT !.data = Decrypted(@)] /\ segpc' = "feed"
             /\ UNCHANGED <<seg, segSent, segLeft, broken, seg_key>>
    <2>1. /\ s_seg.data = segSent /\ segSent \in Seq(Under(seg.key))
          /\ seg_key = WholeKey(seg.key) /\ seg.key # NotEncrypted /\ Proper(seg)
          /\ seg_status \in 200..299
          /\ s_seg \in [data : Seq(Piece), too_large : BOOLEAN, oom : BOOLEAN]
      BY <1>1 DEF SegInv, SegTyped, Playing, KeysOk
    <2>2. PICK d : d = Decrypted(segSent)
      OBVIOUS
    <2>3. /\ d \in Seq(Piece) /\ Len(d) = Len(segSent)
          /\ \A i \in 1..Len(segSent) :
                /\ d[i].of = segSent[i].of /\ d[i].n = segSent[i].n
                /\ segSent[i].as # "plain" => d[i].as = "plain"
      BY <2>1, <2>2, Decrypting
    <2>4. s_seg' = [s_seg EXCEPT !.data = d]
      BY <1>3, <2>1, <2>2
    <2>5. s_seg' \in [data : Seq(Piece), too_large : BOOLEAN, oom : BOOLEAN] /\ s_seg'.data = d
      BY <2>1, <2>3, <2>4
    <2>6. SegTyped'
      BY <1>1, <1>3, <2>5 DEF SegInv, SegTyped
    <2>7. Playing' /\ KeysOk' /\ Getting'
      BY <1>1, <1>3, <2>1 DEF SegInv, Playing, Proper, KeysOk, Getting
    <2>8. SegmentAsServed'
      <3>1. DOMAIN segSent = 1..Len(segSent)
        BY <2>1
      <3> QED BY <1>1, <1>3, <2>1, <2>3, <2>5, <3>1 DEF SegmentAsServed, Proper
    <2> QED BY <2>6, <2>7, <2>8 DEF SegInv
  <1> QED BY <1>2, <1>3 DEF Decrypt

\* A segment that does not demux is left.
LEMMA FeedFailsKeeps == ASSUME SegInv, FeedFails PROVE SegInv'
  <1>1. UNCHANGED <<keys, key_next, getVars>>
    BY DEF FeedFails
  <1>2. SegReturns(-2) \/ SegReturns(-1)
    BY DEF FeedFails
  <1> QED BY <1>1, <1>2, ReturnKeeps

\* A segment is demuxed.
LEMMA FeedSegmentKeeps == ASSUME SegInv, FeedSegment PROVE SegInv'
  <1>1. segpc' = "announce"
        /\ UNCHANGED <<seg, s_seg, seg_status, segSent, segLeft, broken, keys, key_next, seg_key,
                       get, getLeft>>
    BY DEF FeedSegment, transfer, cache, getVars
  <1>2. SegTyped'
    BY <1>1 DEF SegInv, SegTyped
  <1>3. Playing' /\ KeysOk' /\ SegmentAsServed'
    BY <1>1 DEF SegInv, Playing, KeysOk, SegmentAsServed
  <1>4. Getting'
    BY <1>1 DEF SegInv, Getting
  <1> QED BY <1>2, <1>3, <1>4 DEF SegInv

\* A segment is over.
LEMMA AnnounceReadyKeeps == ASSUME SegInv, announce_ready PROVE SegInv'
  <1>1. SegReturns(0) /\ UNCHANGED <<keys, key_next, getVars>>
    BY DEF announce_ready
  <1> QED BY <1>1, ReturnKeeps

\* Every step of play_segment keeps its invariant.
LEMMA SegStep == SegInv /\ SegNext => SegInv'
  BY PlaySegmentKeeps, SegStopKeeps, SegWriteKeeps, SegEndsKeeps, FetchedKeeps, KeyCachedKeeps,
     KeyAskedKeeps, KeyFetchingKeeps, KeyFetchedKeeps, DecryptKeeps, FeedFailsKeeps,
     FeedSegmentKeeps, AnnounceReadyKeeps, Zenon DEF SegNext

\* And so does every step of another component.
LEMMA SegRests == SegInv /\ UNCHANGED segVars => SegInv'
  BY DEF SegInv, SegTyped, Playing, Proper, KeysOk, Getting, SegmentAsServed, segVars, transfer,
         cache, getVars

\* The segment's invariant always holds.
LEMMA SegAlways == Spec => []SegInv
  <1>1. Init => SegInv
    BY SegStarts, Zenon DEF Init
  <1>2. SegInv /\ [Next]_vars => SegInv'
    BY SegStep, SegRests, Zenon DEF Next, vars
  <1> QED BY <1>1, <1>2, PTL DEF Spec

\* SegmentAsServed for any segments, keys, limits and size of the cache: what hls.c demuxes
\* is what the server sent for this segment, decrypted with the key of its own address.
THEOREM SegmentsAreServed == Spec => []SegmentAsServed
  <1>1. SegInv => SegmentAsServed
    BY DEF SegInv
  <1> QED BY <1>1, SegAlways, PTL

-----------------------------------------------------------------------------
(* The playlist                                                            *)

\* Max and Min are what their names say on places of a text.
LEMMA Greatest ==
    ASSUME NEW n \in Nat, NEW S \in SUBSET (1..n), S # {}
    PROVE  Max(S) \in S /\ \A y \in S : y <= Max(S)
  <1> DEFINE above == {m \in Nat : \A y \in S : y <= m}
  <1>1. n \in above
    OBVIOUS
  <1>2. PICK m \in above : \A k \in above : m <= k
    BY <1>1, Least
  <1>3. m \in S
    <2> SUFFICES ASSUME m \notin S PROVE FALSE
      OBVIOUS
    <2>1. \A y \in S : y \in Nat /\ y >= 1 /\ y < m
      BY <1>2
    <2>a. PICK z \in S : TRUE
      OBVIOUS
    <2>b. m \in Nat /\ m > 1
      BY <1>2, <2>1, <2>a
    <2>2. m - 1 \in Nat /\ \A y \in S : y <= m - 1
      BY <2>1, <2>b
    <2>3. m - 1 \in above
      BY <2>2
    <2> QED BY <1>2, <2>3
  <1>4. \A y \in S : m >= y
    BY <1>2
  <1>5. \E x \in S : \A y \in S : x >= y
    BY <1>3, <1>4
  <1>6. Max(S) \in S /\ \A y \in S : Max(S) >= y
    BY <1>5, Zenon DEF Max
  <1>7. PICK x : x = Max(S)
    OBVIOUS
  <1>8. x \in S /\ \A y \in S : x >= y
    BY <1>6, <1>7
  <1>9. \A y \in S : y <= x
    BY <1>8
  <1> QED BY <1>7, <1>8, <1>9

\* Min is the least element of a set of naturals.
LEMMA Smallest ==
    ASSUME NEW S \in SUBSET Nat, S # {}
    PROVE  Min(S) \in S /\ \A y \in S : Min(S) <= y
  <1>1. \E x \in S : \A y \in S : x <= y
    BY Least
  <1> QED BY <1>1, Zenon DEF Min

\* A greatest element is the maximum.
LEMMA MaxIs ==
    ASSUME NEW n \in Nat, NEW S \in SUBSET (1..n), NEW x \in S, \A y \in S : y <= x
    PROVE  Max(S) = x
  <1>1. Max(S) \in S /\ \A y \in S : y <= Max(S)
    BY Greatest
  <1>2. PICK m : m = Max(S)
    OBVIOUS
  <1>3. m \in S /\ x <= m /\ m <= x
    BY <1>1, <1>2
  <1>4. m \in Nat /\ x \in Nat
    BY <1>3
  <1> QED BY <1>2, <1>3, <1>4

-----------------------------------------------------------------------------
(* A line more                                                             *)

\* The text up to a place, and up to the end of one line more.
LEMMA LineMore ==
    ASSUME NEW l \in Lines, text \in Seq(Lines), text' = Append(text, l),
           NEW n \in Nat, n = Len(text)
    PROVE  /\ text' \in Seq(Lines) /\ Len(text') = n + 1 /\ text'[n + 1] = l
           /\ \A i \in 1..n : text'[i] = text[i]
           /\ \A i \in 1..(n + 1) : \A tags : Before(i, tags)' = Before(i, tags)
           /\ \A tags : Before(n + 2, tags)' =
                 IF l.t \in tags THEN Before(n + 1, tags) \cup {n + 1} ELSE Before(n + 1, tags)
  <1>1. /\ text' \in Seq(Lines) /\ Len(text') = n + 1
        /\ text'[n + 1] = l /\ \A i \in 1..n : text'[i] = text[i]
    BY AppendProperties
  <1>3. ASSUME NEW i \in 1..(n + 1), NEW tags PROVE Before(i, tags)' = Before(i, tags)
    <2>1. \A j \in 1..(i - 1) : text'[j] = text[j]
      BY <1>1
    <2> QED BY <2>1 DEF Before
  <1>4. ASSUME NEW tags
        PROVE  Before(n + 2, tags)' =
                 IF l.t \in tags THEN Before(n + 1, tags) \cup {n + 1} ELSE Before(n + 1, tags)
    <2>0. (n + 2) - 1 = n + 1 /\ (n + 1) - 1 = n
      OBVIOUS
    <2>1. Before(n + 2, tags)' = {j \in 1..(n + 1) : text'[j].t \in tags}
      BY <2>0, Zenon DEF Before
    <2>2. Before(n + 1, tags) = {j \in 1..n : text[j].t \in tags}
      BY <2>0, Zenon DEF Before
    <2>3. \A j : j \in 1..(n + 1) <=> (j \in 1..n \/ j = n + 1)
      OBVIOUS
    <2>4. \A j \in 1..n : text'[j] = text[j]
      BY <1>1
    <2>5. text'[n + 1] = l
      BY <1>1
    <2>6. n + 1 \notin 1..n
      OBVIOUS
    <2>7. CASE l.t \in tags
      BY <2>1, <2>2, <2>3, <2>4, <2>5, <2>7
    <2>8. CASE l.t \notin tags
      BY <2>1, <2>2, <2>3, <2>4, <2>5, <2>8
    <2> QED BY <2>7, <2>8
  <1> QED BY <1>1, <1>3, <1>4

\* Nothing a segment was given changes with the lines behind it.
LEMMA PastStays ==
    ASSUME NEW l \in Lines, text \in Seq(Lines), text' = Append(text, l),
           NEW n \in Nat, n = Len(text), NEW i \in 1..(n + 1)
    PROVE  /\ OfVariant(i)' = OfVariant(i) /\ SegmentUris(i)' = SegmentUris(i)
           /\ ServersNumber(i)' = ServersNumber(i)
  <1>1. /\ \A k \in 1..(n + 1) : \A tags : Before(k, tags)' = Before(k, tags)
        /\ \A k \in 1..n : text'[k] = text[k]
    BY LineMore
  <1>2. \A k \in 1..(n + 1) : OfVariant(k)' = OfVariant(k)
    BY <1>1, Zenon DEF OfVariant
  <1>3. \A tags : \A j \in Before(i, tags) : j \in 1..(n + 1)
    BY DEF Before
  <1>4. SegmentUris(i)' = SegmentUris(i)
    BY <1>1, <1>2, <1>3 DEF SegmentUris
  <1>5. SegmentUris(i) \subseteq 1..(i - 1)
    BY DEF SegmentUris, Before
  <1>a. PICK first : first = IF SegmentUris(i) = {} THEN i ELSE Min(SegmentUris(i))
    OBVIOUS
  <1>6. first \in 1..(n + 1)
    <2>1. CASE SegmentUris(i) = {}
      BY <1>a, <2>1
    <2>2. CASE SegmentUris(i) # {}
      <3>1. SegmentUris(i) \in SUBSET Nat
        BY <1>5
      <3>2. Min(SegmentUris(i)) \in SegmentUris(i)
        BY <2>2, <3>1, Smallest
      <3> QED BY <1>a, <1>5, <2>2, <3>2
    <2> QED BY <2>1, <2>2
  <1> DEFINE said(t, b) == {j \in b : t[j].value # None}
             Number(t, said_, uris) ==
                LET base == IF said_ = {} THEN 0 ELSE t[Max(said_)].value
                IN Min({base + Cardinality(uris), SEQ_MAX})
  <1>b. PICK b : b = Before(first, {"seq"})
    OBVIOUS
  <1>c. Before(first, {"seq"})' = b /\ b \subseteq 1..n
    <2>1. Before(first, {"seq"})' = b
      BY <1>1, <1>6, <1>b
    <2> QED BY <1>6, <1>b, <2>1 DEF Before
  <1>7. said(text', b) = said(text, b) /\ said(text, b) \subseteq 1..n
    BY <1>1, <1>c
  <1>8. said(text, b) # {} => Max(said(text, b)) \in 1..n
    BY <1>7, Greatest
  <1>9. said(text, b) # {} => text'[Max(said(text, b))] = text[Max(said(text, b))]
    BY <1>1, <1>8
  <1>10. ServersNumber(i) = Number(text, said(text, b), SegmentUris(i))
    BY <1>a, <1>b, Zenon DEF ServersNumber
  <1>11. ServersNumber(i)' = Number(text', said(text', b), SegmentUris(i))
    BY <1>a, <1>c, <1>4, Zenon DEF ServersNumber
  <1>12. ServersNumber(i)' = ServersNumber(i)
    <2>1. CASE said(text, b) = {}
      BY <1>7, <1>10, <1>11, <2>1
    <2>2. CASE said(text, b) # {}
      <3>1. PICK s : s = said(text, b)
        OBVIOUS
      <3>2. PICK m : m = Max(s)
        OBVIOUS
      <3>3. s # {} /\ said(text', b) = s /\ text'[m] = text[m]
        BY <1>7, <1>9, <2>2, <3>1, <3>2
      <3>4. Number(text, s, SegmentUris(i))
                = Min({text[m].value + Cardinality(SegmentUris(i)), SEQ_MAX})
        BY <3>2, <3>3, Zenon
      <3>5. Number(text', s, SegmentUris(i))
                = Min({text'[m].value + Cardinality(SegmentUris(i)), SEQ_MAX})
        BY <3>2, <3>3, Zenon
      <3> HIDE DEF said, Number
      <3> QED BY <1>10, <1>11, <3>1, <3>3, <3>4, <3>5
    <2> QED BY <2>1, <2>2, SMTT(40)
  <1> QED BY <1>2, <1>4, <1>12

-----------------------------------------------------------------------------
(* Counting as the server does                                             *)

FirstUri(i) == IF SegmentUris(i) = {} THEN i ELSE Min(SegmentUris(i))

Said(i) == {j \in Before(FirstUri(i), {"seq"}) : text[j].value # None}

Base(i) == IF Said(i) = {} THEN 0 ELSE text[Max(Said(i))].value

\* The server's number, in parts.
LEMMA InParts ==
    ASSUME NEW i PROVE ServersNumber(i) = Min({Base(i) + Cardinality(SegmentUris(i)), SEQ_MAX})
  BY Zenon DEF ServersNumber, Base, Said, FirstUri

\* The parts have their types.
LEMMA PartsTyped ==
    ASSUME text \in Seq(Lines), NEW n \in Nat, n = Len(text), NEW i \in 1..(n + 1)
    PROVE  /\ FirstUri(i) \in 1..i /\ Said(i) \subseteq 1..n
           /\ SegmentUris(i) \subseteq 1..(i - 1)
           /\ IsFiniteSet(SegmentUris(i)) /\ Cardinality(SegmentUris(i)) \in Nat
           /\ Base(i) \in 0..SEQ_MAX
  <1>1. SegmentUris(i) \subseteq 1..(i - 1)
    BY DEF SegmentUris, Before
  <1>2. IsFiniteSet(SegmentUris(i)) /\ Cardinality(SegmentUris(i)) \in Nat
    <2>1. IsFiniteSet(1..(i - 1))
      BY FS_Interval
    <2> QED BY <1>1, <2>1, FS_Subset, FS_CardinalityType
  <1>3. FirstUri(i) \in 1..i
    <2>1. CASE SegmentUris(i) = {}
      BY <2>1 DEF FirstUri
    <2>2. CASE SegmentUris(i) # {}
      <3>1. SegmentUris(i) \in SUBSET Nat
        BY <1>1
      <3>2. Min(SegmentUris(i)) \in SegmentUris(i)
        BY <2>2, <3>1, Smallest
      <3> QED BY <1>1, <2>2, <3>2 DEF FirstUri
    <2> QED BY <2>1, <2>2
  <1>4. Said(i) \subseteq 1..n
    BY <1>3 DEF Said, Before
  <1>5. Base(i) \in 0..SEQ_MAX
    <2>0. SEQ_MAX \in Nat
      BY M3u8Assumption
    <2>1. CASE Said(i) = {}
      BY <2>0, <2>1 DEF Base
    <2>2. CASE Said(i) # {}
      <3>1. PICK m : m = Max(Said(i))
        OBVIOUS
      <3>2. m \in Said(i)
        BY <1>4, <2>2, <3>1, Greatest
      <3>3. text[m].t = "seq" /\ text[m].value # None /\ text[m] \in Lines
        BY <1>4, <3>2 DEF Said, Before
      <3>4. text[m].value \in 0..SEQ_MAX
        BY <3>3, M3u8Assumption
      <3> QED BY <2>2, <3>1, <3>4 DEF Base
    <2> QED BY <2>1, <2>2
  <1> QED BY <1>1, <1>2, <1>3, <1>4, <1>5

\* The smaller of a number and the limit.
LEMMA Capped ==
    ASSUME NEW a \in Nat, NEW b \in Nat
    PROVE  Min({a, b}) = IF a <= b THEN a ELSE b
  <1>1. {a, b} \in SUBSET Nat /\ {a, b} # {}
    OBVIOUS
  <1>2. Min({a, b}) \in {a, b} /\ \A y \in {a, b} : Min({a, b}) <= y
    BY <1>1, Smallest
  <1>3. PICK m : m = Min({a, b})
    OBVIOUS
  <1>4. m \in {a, b} /\ m <= a /\ m <= b
    BY <1>2, <1>3
  <1> QED BY <1>3, <1>4

\* What the address of a variant is, behind one line more.
LEMMA Announced ==
    ASSUME NEW l \in Lines, text \in Seq(Lines), text' = Append(text, l),
           NEW n \in Nat, n = Len(text)
    PROVE  OfVariant(n + 2)' = (l.t = "stream" \/ (l.t # "uri" /\ OfVariant(n + 1)))
  <1>0. \A tags : Before(n + 2, tags)' =
           IF l.t \in tags THEN Before(n + 1, tags) \cup {n + 1} ELSE Before(n + 1, tags)
    BY LineMore, ZenonT(40)
  <1>a. Before(n + 2, {"stream"})' =
           IF l.t \in {"stream"} THEN Before(n + 1, {"stream"}) \cup {n + 1}
                                 ELSE Before(n + 1, {"stream"})
    BY <1>0, Zenon
  <1>1. Before(n + 2, {"uri", "stream"})' =
           IF l.t \in {"uri", "stream"} THEN Before(n + 1, {"uri", "stream"}) \cup {n + 1}
                                        ELSE Before(n + 1, {"uri", "stream"})
    BY <1>0, Zenon
  <1>2. PICK s : s = Before(n + 1, {"stream"})
    OBVIOUS
  <1>3. PICK b : b = Before(n + 1, {"uri", "stream"})
    OBVIOUS
  <1>4. s \subseteq 1..n /\ b \subseteq 1..n
    BY <1>2, <1>3 DEF Before
  <1>5. Max(b \cup {n + 1}) = n + 1
    <2>0. PICK c : c = b \cup {n + 1}
      OBVIOUS
    <2>1. \A y \in c : y \in 1..(n + 1)
      BY <1>4, <2>0
    <2>2. c \in SUBSET (1..(n + 1)) /\ n + 1 \in c /\ n + 1 \in Nat
      BY <2>0, <2>1
    <2>3. \A y \in c : y <= n + 1
      BY <2>1
    <2> QED BY <2>0, <2>2, <2>3, MaxIs
  <1>6. OfVariant(n + 1) = (s # {} /\ Max(b) \in s)
    BY <1>2, <1>3, Zenon DEF OfVariant
  <1>7. PICK ss : ss = Before(n + 2, {"stream"})'
    OBVIOUS
  <1>8. PICK bb : bb = Before(n + 2, {"uri", "stream"})'
    OBVIOUS
  <1>9. OfVariant(n + 2)' = (ss # {} /\ Max(bb) \in ss)
    BY <1>7, <1>8, Zenon DEF OfVariant
  <1>10. n + 1 \notin s
    BY <1>4
  <1>11. CASE l.t = "stream"
    <2>1. ss = s \cup {n + 1} /\ bb = b \cup {n + 1}
      BY <1>a, <1>1, <1>2, <1>3, <1>7, <1>8, <1>11
    <2> QED BY <1>5, <1>9, <1>11, <2>1
  <1>12. CASE l.t = "uri"
    <2>1. ss = s /\ bb = b \cup {n + 1}
      BY <1>a, <1>1, <1>2, <1>3, <1>7, <1>8, <1>12
    <2> QED BY <1>5, <1>9, <1>10, <1>12, <2>1
  <1>13. CASE l.t \notin {"uri", "stream"}
    <2>1. ss = s /\ bb = b
      BY <1>a, <1>1, <1>2, <1>3, <1>7, <1>8, <1>13
    <2> QED BY <1>6, <1>9, <1>13, <2>1
  <1> QED BY <1>11, <1>12, <1>13

\* The segments' addresses, behind one line more.
LEMMA UrisMove ==
    ASSUME NEW l \in Lines, text \in Seq(Lines), text' = Append(text, l),
           NEW n \in Nat, n = Len(text)
    PROVE  SegmentUris(n + 2)' =
              IF l.t = "uri" /\ ~OfVariant(n + 1) THEN SegmentUris(n + 1) \cup {n + 1}
                                                  ELSE SegmentUris(n + 1)
  <1>0. \A tags : Before(n + 2, tags)' =
           IF l.t \in tags THEN Before(n + 1, tags) \cup {n + 1} ELSE Before(n + 1, tags)
    BY LineMore
  <1>a. Before(n + 2, {"uri"})' =
           IF l.t \in {"uri"} THEN Before(n + 1, {"uri"}) \cup {n + 1}
                              ELSE Before(n + 1, {"uri"})
    BY <1>0, Zenon
  <1>1. Before(n + 2, {"uri"})' =
           IF l.t = "uri" THEN Before(n + 1, {"uri"}) \cup {n + 1}
                          ELSE Before(n + 1, {"uri"})
    BY <1>a
  <1>2. \A j \in 1..(n + 1) : OfVariant(j)' = OfVariant(j)
    BY PastStays
  <1>3. \A j \in Before(n + 1, {"uri"}) : j \in 1..n
    BY DEF Before
  <1>4. SegmentUris(n + 2)' = {j \in Before(n + 2, {"uri"})' : ~OfVariant(j)'}
    BY Zenon DEF SegmentUris
  <1>5. SegmentUris(n + 1) = {j \in Before(n + 1, {"uri"}) : ~OfVariant(j)}
    BY Zenon DEF SegmentUris
  <1>6. PICK b : b = Before(n + 1, {"uri"})
    OBVIOUS
  <1>7. \A j \in b : OfVariant(j)' = OfVariant(j)
    BY <1>2, <1>3, <1>6
  <1>8. OfVariant(n + 1)' = OfVariant(n + 1)
    BY <1>2
  <1>9. CASE l.t # "uri"
    <2>1. SegmentUris(n + 2)' = {j \in b : ~OfVariant(j)'}
      BY <1>1, <1>4, <1>6, <1>9
    <2> QED BY <1>5, <1>6, <1>7, <1>9, <2>1, Zenon
  <1>10. CASE l.t = "uri"
    <2>1. SegmentUris(n + 2)' = {j \in b \cup {n + 1} : ~OfVariant(j)'}
      BY <1>1, <1>4, <1>6, <1>10
    <2>2. SegmentUris(n + 2)' = {j \in b \cup {n + 1} : ~OfVariant(j)}
      BY <1>7, <1>8, <2>1, Zenon
    <2>3. SegmentUris(n + 1) = {j \in b : ~OfVariant(j)}
      BY <1>5, <1>6, Zenon
    <2>4. CASE OfVariant(n + 1)
      BY <1>10, <2>2, <2>3, <2>4, Zenon
    <2>5. CASE ~OfVariant(n + 1)
      BY <1>10, <2>2, <2>3, <2>5, Zenon
    <2> QED BY <2>4, <2>5
  <1> QED BY <1>9, <1>10

\* A least element is the minimum.
LEMMA MinIs ==
    ASSUME NEW S \in SUBSET Nat, NEW x \in S, \A y \in S : x <= y
    PROVE  Min(S) = x
  <1>1. Min(S) \in S /\ \A y \in S : Min(S) <= y
    BY Smallest
  <1>2. PICK m : m = Min(S)
    OBVIOUS
  <1>3. m \in S /\ x <= m /\ m <= x
    BY <1>1, <1>2
  <1>4. m \in Nat /\ x \in Nat
    BY <1>3
  <1> QED BY <1>2, <1>3, <1>4

\* A MEDIA-SEQUENCE that the numbering heeds: valid, and before every segment.
Heeded(l, n) == l.t = "seq" /\ l.value # None /\ SegmentUris(n + 1) = {}

\* The first segment's address, behind one line more.
LEMMA FirstMoves ==
    ASSUME NEW l \in Lines, text \in Seq(Lines), text' = Append(text, l),
           NEW n \in Nat, n = Len(text)
    PROVE  FirstUri(n + 2)' =
              IF SegmentUris(n + 1) = {} /\ ~(l.t = "uri" /\ ~OfVariant(n + 1))
              THEN n + 2 ELSE FirstUri(n + 1)
  <1>1. PICK u : u = SegmentUris(n + 1)
    OBVIOUS
  <1>2. PICK v : v = SegmentUris(n + 2)'
    OBVIOUS
  <1>3. v = IF l.t = "uri" /\ ~OfVariant(n + 1) THEN u \cup {n + 1} ELSE u
    BY <1>1, <1>2, UrisMove
  <1>4. FirstUri(n + 2)' = IF v = {} THEN n + 2 ELSE Min(v)
    BY <1>2, Zenon DEF FirstUri
  <1>5. FirstUri(n + 1) = IF u = {} THEN n + 1 ELSE Min(u)
    BY <1>1, Zenon DEF FirstUri
  <1>6. \A y \in u : y \in 1..n
    <2>1. n + 1 \in 1..(n + 1)
      OBVIOUS
    <2> QED BY <1>1, <2>1, PartsTyped
  <1>7. CASE ~(l.t = "uri" /\ ~OfVariant(n + 1))
    BY <1>1, <1>3, <1>4, <1>5, <1>7
  <1>8. CASE l.t = "uri" /\ ~OfVariant(n + 1)
    <2>1. v = u \cup {n + 1}
      BY <1>3, <1>8
    <2>2. CASE u = {}
      <3>0. v = {n + 1} /\ n + 1 \in Nat
        BY <2>1, <2>2
      <3>1. v \in SUBSET Nat /\ n + 1 \in v /\ \A y \in v : n + 1 <= y
        BY <3>0
      <3>2. Min(v) = n + 1
        BY <3>1, MinIs
      <3> QED BY <1>4, <1>5, <1>8, <2>1, <2>2, <3>2
    <2>3. CASE u # {}
      <3>1. u \in SUBSET Nat
        BY <1>6
      <3>2. PICK m : m = Min(u)
        OBVIOUS
      <3>3. m \in u /\ \A y \in u : m <= y
        BY <2>3, <3>1, <3>2, Smallest
      <3>4. m \in 1..n
        BY <1>6, <3>3
      <3>a. \A y \in v : y \in Nat
        BY <2>1, <3>1
      <3>5. v \in SUBSET Nat /\ m \in v
        BY <2>1, <3>3, <3>a
      <3>6. \A y \in v : m <= y
        BY <2>1, <3>3, <3>4
      <3>7. Min(v) = m
        BY <3>5, <3>6, MinIs
      <3> QED BY <1>1, <1>4, <1>5, <1>8, <2>1, <2>3, <3>2, <3>7
    <2> QED BY <2>2, <2>3
  <1> QED BY <1>7, <1>8

\* What counts as said, behind one line more.
LEMMA SaidMoves ==
    ASSUME NEW l \in Lines, text \in Seq(Lines), text' = Append(text, l),
           NEW n \in Nat, n = Len(text)
    PROVE  Said(n + 2)' = IF Heeded(l, n) THEN Said(n + 1) \cup {n + 1} ELSE Said(n + 1)
  <1>0. /\ \A k \in 1..(n + 1) : \A tags : Before(k, tags)' = Before(k, tags)
        /\ \A k \in 1..n : text'[k] = text[k]
        /\ text'[n + 1] = l
    BY LineMore
  <1>1. Before(n + 2, {"seq"})' =
           IF l.t \in {"seq"} THEN Before(n + 1, {"seq"}) \cup {n + 1} ELSE Before(n + 1, {"seq"})
    <2>1. \A tags : Before(n + 2, tags)' =
             IF l.t \in tags THEN Before(n + 1, tags) \cup {n + 1} ELSE Before(n + 1, tags)
      BY LineMore
    <2> QED BY <2>1, Zenon
  <1>2. PICK f : f = FirstUri(n + 1)
    OBVIOUS
  <1>3. PICK g : g = FirstUri(n + 2)'
    OBVIOUS
  <1>4. g = IF SegmentUris(n + 1) = {} /\ ~(l.t = "uri" /\ ~OfVariant(n + 1)) THEN n + 2 ELSE f
    BY <1>2, <1>3, FirstMoves
  <1>5. f \in 1..(n + 1)
    <2>1. n + 1 \in 1..(n + 1)
      OBVIOUS
    <2> QED BY <1>2, <2>1, PartsTyped
  <1>6. Said(n + 1) = {j \in Before(f, {"seq"}) : text[j].value # None}
    BY <1>2, Zenon DEF Said
  <1>7. Said(n + 2)' = {j \in Before(g, {"seq"})' : text'[j].value # None}
    BY <1>3, Zenon DEF Said
  <1>8. CASE g = f
    <2>1. PICK b : b = Before(f, {"seq"})
      OBVIOUS
    <2>2. Before(g, {"seq"})' = b
      BY <1>0, <1>5, <1>8, <2>1
    <2>3. \A j \in b : text'[j] = text[j]
      BY <1>0, <1>5, <2>1 DEF Before
    <2>4. Said(n + 2)' = Said(n + 1)
      <3>1. Said(n + 1) = {j \in b : text[j].value # None}
        BY <1>6, <2>1, Zenon
      <3>2. Said(n + 2)' = {j \in b : text'[j].value # None}
        BY <1>7, <2>2, Zenon
      <3> QED BY <2>3, <3>1, <3>2, Zenon
    <2>5. ~Heeded(l, n)
      <3>1. f # n + 2
        BY <1>5
      <3> QED BY <1>4, <1>8, <3>1 DEF Heeded
    <2> QED BY <2>4, <2>5
  <1>9. CASE g # f
    <2>1. g = n + 2 /\ SegmentUris(n + 1) = {} /\ f = n + 1
      BY <1>2, <1>4, <1>9 DEF FirstUri
    <2>2. PICK b : b = Before(n + 1, {"seq"})
      OBVIOUS
    <2>3. \A j \in b : text'[j] = text[j]
      BY <1>0, <2>2 DEF Before
    <2>4. Said(n + 1) = {j \in b : text[j].value # None}
      BY <1>6, <2>1, <2>2
    <2>5. CASE l.t = "seq"
      <3>1. Said(n + 2)' = {j \in b \cup {n + 1} : text'[j].value # None}
        BY <1>1, <1>7, <2>1, <2>2, <2>5
      <3>2. CASE l.value # None
        <4>1. Said(n + 2)' = Said(n + 1) \cup {n + 1}
          BY <1>0, <2>3, <2>4, <3>1, <3>2
        <4> QED BY <2>1, <2>5, <3>2, <4>1 DEF Heeded
      <3>3. CASE l.value = None
        <4>1. Said(n + 2)' = Said(n + 1)
          BY <1>0, <2>3, <2>4, <3>1, <3>3
        <4> QED BY <3>3, <4>1 DEF Heeded
      <3> QED BY <3>2, <3>3
    <2>6. CASE l.t # "seq"
      <3>1. Said(n + 2)' = {j \in b : text'[j].value # None}
        BY <1>1, <1>7, <2>1, <2>2, <2>6
      <3>2. Said(n + 2)' = Said(n + 1)
        BY <2>3, <2>4, <3>1
      <3> QED BY <2>6, <3>2 DEF Heeded
    <2> QED BY <2>5, <2>6
  <1> QED BY <1>8, <1>9

\* Where the counting starts, behind one line more.
LEMMA BaseMoves ==
    ASSUME NEW l \in Lines, text \in Seq(Lines), text' = Append(text, l),
           NEW n \in Nat, n = Len(text)
    PROVE  Base(n + 2)' = IF Heeded(l, n) THEN l.value ELSE Base(n + 1)
  <1>0. /\ \A k \in 1..n : text'[k] = text[k]
        /\ text'[n + 1] = l
    BY LineMore
  <1>1. PICK s : s = Said(n + 1)
    OBVIOUS
  <1>2. PICK t : t = Said(n + 2)'
    OBVIOUS
  <1>3. t = IF Heeded(l, n) THEN s \cup {n + 1} ELSE s
    BY <1>1, <1>2, SaidMoves
  <1>4. \A j \in s : j \in 1..n
    <2>1. n + 1 \in 1..(n + 1)
      OBVIOUS
    <2> QED BY <1>1, <2>1, PartsTyped
  <1>5. Base(n + 1) = IF s = {} THEN 0 ELSE text[Max(s)].value
    BY <1>1, Zenon DEF Base
  <1>6. Base(n + 2)' = IF t = {} THEN 0 ELSE text'[Max(t)].value
    BY <1>2, Zenon DEF Base
  <1>7. CASE Heeded(l, n)
    <2>1. t = s \cup {n + 1}
      BY <1>3, <1>7
    <2>2. \A y \in t : y \in 1..(n + 1)
      BY <1>4, <2>1
    <2>3. t \in SUBSET (1..(n + 1)) /\ n + 1 \in t /\ n + 1 \in Nat
      BY <2>1, <2>2
    <2>4. \A y \in t : y <= n + 1
      BY <2>2
    <2>5. Max(t) = n + 1
      BY <2>3, <2>4, MaxIs
    <2> QED BY <1>0, <1>6, <1>7, <2>3, <2>5
  <1>8. CASE ~Heeded(l, n)
    <2>1. t = s
      BY <1>3, <1>8
    <2>2. CASE s = {}
      BY <1>5, <1>6, <1>8, <2>1, <2>2
    <2>3. CASE s # {}
      <3>1. PICK m : m = Max(s)
        OBVIOUS
      <3>2. s \in SUBSET (1..n)
        BY <1>4
      <3>3. m \in 1..n
        BY <2>3, <3>1, <3>2, Greatest
      <3> QED BY <1>0, <1>5, <1>6, <1>8, <2>1, <2>3, <3>1, <3>3
    <2> QED BY <2>2, <2>3
  <1> QED BY <1>7, <1>8

\* The number the next segment would have, behind one line more.
LEMMA NumberMoves ==
    ASSUME NEW l \in Lines, text \in Seq(Lines), text' = Append(text, l),
           NEW n \in Nat, n = Len(text)
    PROVE  /\ ServersNumber(n + 1) \in 0..SEQ_MAX
           /\ ServersNumber(n + 2)' =
                IF Heeded(l, n) THEN l.value
                ELSE IF l.t = "uri" /\ ~OfVariant(n + 1)
                     THEN Saturated(ServersNumber(n + 1))
                     ELSE ServersNumber(n + 1)
  <1>0. SEQ_MAX \in Nat /\ n + 1 \in 1..(n + 1)
    BY M3u8Assumption
  <1>1. PICK u : u = SegmentUris(n + 1)
    OBVIOUS
  <1>2. PICK v : v = SegmentUris(n + 2)'
    OBVIOUS
  <1>3. v = IF l.t = "uri" /\ ~OfVariant(n + 1) THEN u \cup {n + 1} ELSE u
    BY <1>1, <1>2, UrisMove
  <1>4. IsFiniteSet(u) /\ Cardinality(u) \in Nat /\ Base(n + 1) \in 0..SEQ_MAX /\ u \subseteq 1..n
    BY <1>0, <1>1, PartsTyped
  <1>5. PICK b : b = Base(n + 1)
    OBVIOUS
  <1>6. PICK c : c = Cardinality(u)
    OBVIOUS
  <1>7. b \in Nat /\ c \in Nat /\ b <= SEQ_MAX
    BY <1>0, <1>4, <1>5, <1>6
  <1>8. ServersNumber(n + 1) = Min({b + c, SEQ_MAX})
    BY <1>1, <1>5, <1>6, InParts, Zenon
  <1>9. ServersNumber(n + 1) = IF b + c <= SEQ_MAX THEN b + c ELSE SEQ_MAX
    <2>1. b + c \in Nat
      BY <1>7
    <2> QED BY <1>0, <1>8, <2>1, Capped
  <1>10. PICK k : k = ServersNumber(n + 1)
    OBVIOUS
  <1>11. k \in 0..SEQ_MAX /\ k = IF b + c <= SEQ_MAX THEN b + c ELSE SEQ_MAX
    BY <1>0, <1>7, <1>9, <1>10
  <1>12. PICK d : d = Base(n + 2)'
    OBVIOUS
  <1>13. d = IF Heeded(l, n) THEN l.value ELSE b
    BY <1>5, <1>12, BaseMoves
  <1>14. ServersNumber(n + 2)' = Min({d + Cardinality(v), SEQ_MAX})
    <2>1. ServersNumber(n + 2)' = Min({Base(n + 2)' + Cardinality(SegmentUris(n + 2)'), SEQ_MAX})
      BY Zenon DEF ServersNumber, Base, Said, FirstUri
    <2> QED BY <1>2, <1>12, <2>1, Zenon
  <1>15. CASE Heeded(l, n)
    <2>1. u = {} /\ v = {} /\ d = l.value /\ l.t = "seq"
      BY <1>1, <1>3, <1>13, <1>15 DEF Heeded
    <2>2. d \in 0..SEQ_MAX
      BY <1>15, <2>1, M3u8Assumption DEF Heeded
    <2>3. Cardinality(v) = 0
      BY <2>1, FS_EmptySet
    <2>4. ServersNumber(n + 2)' = Min({d, SEQ_MAX})
      <3>1. d + 0 = d
        BY <2>2
      <3> QED BY <1>14, <2>3, <3>1
    <2>5. Min({d, SEQ_MAX}) = d
      <3>1. d \in Nat /\ d <= SEQ_MAX
        BY <1>0, <2>2
      <3> QED BY <1>0, <3>1, Capped
    <2> QED BY <1>10, <1>11, <1>15, <2>1, <2>4, <2>5
  <1>16. CASE ~Heeded(l, n) /\ l.t = "uri" /\ ~OfVariant(n + 1)
    <2>1. v = u \cup {n + 1} /\ d = b
      BY <1>3, <1>13, <1>16
    <2>2. n + 1 \notin u
      BY <1>4
    <2>3. Cardinality(v) = c + 1
      BY <1>4, <1>6, <2>1, <2>2, FS_AddElement
    <2>4. ServersNumber(n + 2)' = Min({b + (c + 1), SEQ_MAX})
      BY <1>14, <2>1, <2>3
    <2>5. Min({b + (c + 1), SEQ_MAX}) = IF b + (c + 1) <= SEQ_MAX THEN b + (c + 1) ELSE SEQ_MAX
      <3>1. b + (c + 1) \in Nat
        BY <1>7
      <3> QED BY <1>0, <3>1, Capped
    <2>6. Saturated(k) = IF k + 1 <= SEQ_MAX THEN k + 1 ELSE SEQ_MAX
      <3>1. k + 1 \in Nat
        BY <1>0, <1>11
      <3> QED BY <1>0, <3>1, Capped DEF Saturated
    <2>7. (IF b + (c + 1) <= SEQ_MAX THEN b + (c + 1) ELSE SEQ_MAX)
             = (IF k + 1 <= SEQ_MAX THEN k + 1 ELSE SEQ_MAX)
      BY <1>0, <1>7, <1>11
    <2> QED BY <1>10, <1>11, <1>16, <2>4, <2>5, <2>6, <2>7
  <1>17. CASE ~Heeded(l, n) /\ ~(l.t = "uri" /\ ~OfVariant(n + 1))
    <2>1. v = u /\ d = b
      BY <1>3, <1>13, <1>17
    <2>2. ServersNumber(n + 2)' = k
      BY <1>6, <1>8, <1>10, <1>14, <2>1
    <2> QED BY <1>10, <1>11, <1>17, <2>2
  <1> QED BY <1>15, <1>16, <1>17

-----------------------------------------------------------------------------
(* The key before a line                                                   *)

\* What the key tag l makes of key_enc, key_uri and key_iv.
KeyOf(l) ==
    [enc |-> l.method \notin {"", "NONE"},
     uri |-> IF Usable128(l) THEN l.uri ELSE None,
     iv  |-> IF Usable128(l) THEN l.iv ELSE None]

\* The key tags before line i.
KeyTags(i) == Before(i, {"key"})

\* The key of the last of them.
KeyBefore(i) == IF KeyTags(i) = {} THEN NoKey ELSE KeyOf(text[Max(KeyTags(i))])

\* The key in force, behind one line more.
LEMMA KeyMoves ==
    ASSUME NEW l \in Lines, text \in Seq(Lines), text' = Append(text, l),
           NEW n \in Nat, n = Len(text)
    PROVE  /\ KeyBefore(n + 2)' = IF l.t = "key" THEN KeyOf(l) ELSE KeyBefore(n + 1)
           /\ \A i \in 1..(n + 1) : KeyBefore(i)' = KeyBefore(i)
  <1>1. /\ \A k \in 1..(n + 1) : \A tags : Before(k, tags)' = Before(k, tags)
        /\ \A k \in 1..n : text'[k] = text[k]
        /\ text'[n + 1] = l
    BY LineMore
  <1>2. KeyTags(n + 2)' = IF l.t \in {"key"} THEN KeyTags(n + 1) \cup {n + 1} ELSE KeyTags(n + 1)
    <2>1. \A tags : Before(n + 2, tags)' =
             IF l.t \in tags THEN Before(n + 1, tags) \cup {n + 1} ELSE Before(n + 1, tags)
      BY LineMore
    <2> QED BY <2>1, Zenon DEF KeyTags
  <1>3. \A i \in 1..(n + 1) : KeyTags(i)' = KeyTags(i) /\ KeyTags(i) \in SUBSET (1..n)
    <2>1. \A i \in 1..(n + 1) : KeyTags(i)' = KeyTags(i)
      BY <1>1 DEF KeyTags
    <2>2. \A i \in 1..(n + 1) : \A j \in KeyTags(i) : j \in 1..n
      BY DEF KeyTags, Before
    <2> QED BY <2>1, <2>2
  <1>4. ASSUME NEW i \in 1..(n + 1) PROVE KeyBefore(i)' = KeyBefore(i)
    <2>1. PICK s : s = KeyTags(i)
      OBVIOUS
    <2>2. KeyTags(i)' = s /\ s \in SUBSET (1..n)
      BY <1>3, <2>1
    <2>3. CASE s = {}
      BY <2>1, <2>2, <2>3, Zenon DEF KeyBefore
    <2>4. CASE s # {}
      <3>1. PICK m : m = Max(s)
        OBVIOUS
      <3>2. text'[m] = text[m]
        <4>1. m \in 1..n
          BY <2>2, <2>4, <3>1, Greatest
        <4> QED BY <1>1, <4>1
      <3>3. KeyBefore(i)' = KeyOf(text'[m]) /\ KeyBefore(i) = KeyOf(text[m])
        BY <2>1, <2>2, <2>4, <3>1, Zenon DEF KeyBefore
      <3> QED BY <3>2, <3>3, Zenon
    <2> QED BY <2>3, <2>4
  <1>5. KeyBefore(n + 2)' = IF l.t = "key" THEN KeyOf(l) ELSE KeyBefore(n + 1)
    <2>1. PICK s : s = KeyTags(n + 1)
      OBVIOUS
    <2>2. \A j \in s : j \in 1..n
      <3>1. n + 1 \in 1..(n + 1)
        OBVIOUS
      <3> QED BY <1>3, <2>1, <3>1
    <2>3. CASE l.t = "key"
      <3>1. PICK t : t = s \cup {n + 1}
        OBVIOUS
      <3>2. \A y \in t : y \in 1..(n + 1) /\ y <= n + 1
        BY <2>2, <3>1
      <3>3. t \in SUBSET (1..(n + 1)) /\ n + 1 \in t /\ n + 1 \in Nat
        BY <3>1, <3>2
      <3>4. Max(t) = n + 1
        BY <3>2, <3>3, MaxIs
      <3>5. KeyTags(n + 2)' = t /\ t # {}
        BY <1>2, <2>1, <2>3, <3>1, <3>3
      <3>6. KeyBefore(n + 2)' = KeyOf(text'[Max(t)])
        BY <3>5, Zenon DEF KeyBefore
      <3> QED BY <1>1, <2>3, <3>4, <3>6
    <2>4. CASE l.t # "key"
      <3>1. KeyTags(n + 2)' = s
        BY <1>2, <2>1, <2>4
      <3>2. CASE s = {}
        BY <2>1, <2>4, <3>1, <3>2, Zenon DEF KeyBefore
      <3>3. CASE s # {}
        <4>1. PICK m : m = Max(s)
          OBVIOUS
        <4>2. text'[m] = text[m]
          <5>1. s \in SUBSET (1..n)
            BY <2>2
          <5>2. m \in 1..n
            BY <3>3, <4>1, <5>1, Greatest
          <5> QED BY <1>1, <5>2
        <4>3. KeyBefore(n + 2)' = KeyOf(text'[m]) /\ KeyBefore(n + 1) = KeyOf(text[m])
          BY <2>1, <3>1, <3>3, <4>1, Zenon DEF KeyBefore
        <4> QED BY <2>4, <4>2, <4>3, Zenon
      <3> QED BY <3>2, <3>3
    <2> QED BY <2>3, <2>4
  <1> QED BY <1>4, <1>5

\* What a key in force gives a segment.
GivenBy(s, k) ==
    /\ s.encrypted = k.enc /\ s.key_uri = k.uri
    /\ s.iv = IF k.iv # None THEN <<"tag", k.iv>> ELSE <<"seq", s.seq>>

\* It is what KeyedBySource asks for.
LEMMA KeyedIsGiven ==
    ASSUME NEW s, GivenBy(s, KeyBefore(s.line)) PROVE KeyedBySource(s)
  <1>1. PICK tags : tags = Before(s.line, {"key"})
    OBVIOUS
  <1>2. PICK k : k = text[Max(tags)]
    OBVIOUS
  <1>3. CASE tags = {}
    <2>1. GivenBy(s, NoKey)
      BY <1>1, <1>3 DEF KeyBefore, KeyTags
    <2>2. s.encrypted = FALSE /\ s.key_uri = None /\ s.iv = <<"seq", s.seq>>
      BY <2>1 DEF GivenBy, NoKey
    <2>3. KeyedBySource(s) = (~s.encrypted /\ s.key_uri = None /\ s.iv = <<"seq", s.seq>>)
      BY <1>1, <1>3, Zenon DEF KeyedBySource
    <2> QED BY <2>2, <2>3
  <1>4. CASE tags # {}
    <2>1. GivenBy(s, KeyOf(k))
      BY <1>1, <1>2, <1>4 DEF KeyBefore, KeyTags
    <2>2. /\ s.encrypted = (k.method \notin {"", "NONE"})
          /\ s.key_uri = (IF Usable128(k) THEN k.uri ELSE None)
          /\ s.iv = IF Usable128(k) /\ k.iv # None THEN <<"tag", k.iv>> ELSE <<"seq", s.seq>>
      BY <2>1 DEF GivenBy, KeyOf
    <2>3. KeyedBySource(s) =
            (/\ s.encrypted = (k.method \notin {"", "NONE"})
             /\ s.key_uri = (IF Usable128(k) THEN k.uri ELSE None)
             /\ s.iv = IF Usable128(k) /\ k.iv # None THEN <<"tag", k.iv>> ELSE <<"seq", s.seq>>)
      BY <1>1, <1>2, <1>4, Zenon DEF KeyedBySource
    <2> QED BY <2>2, <2>3
  <1> QED BY <1>3, <1>4

-----------------------------------------------------------------------------
(* The choice of a variant                                                 *)

\* What best's recursion says of its function.
Choosing(F, vs, n) ==
    F = [i \in 0..n |->
            IF i = 0 THEN 0
            ELSE IF /\ vs[i].bandwidth > 0
                    /\ F[i - 1] = 0 \/ vs[i].bandwidth < vs[F[i - 1]].bandwidth
                 THEN i
            ELSE F[i - 1]]

\* There is such a function.
LEMMA ChoosingExists ==
    ASSUME NEW vs, NEW n \in Nat PROVE \E F : Choosing(F, vs, n)
  <1> DEFINE bad == {k \in Nat : ~ \E F : Choosing(F, vs, k)}
             Better(b, i) == /\ vs[i].bandwidth > 0
                             /\ b = 0 \/ vs[i].bandwidth < vs[b].bandwidth
  <1> SUFFICES ASSUME bad # {} PROVE FALSE
    OBVIOUS
  <1>1. PICK k \in bad : \A m \in bad : k <= m
    BY Least
  <1>2. CASE k = 0
    <2>1. Choosing([i \in 0..0 |-> 0], vs, 0)
      BY DEF Choosing
    <2> QED BY <1>1, <1>2, <2>1
  <1>3. CASE k # 0
    <2>1. k \in Nat /\ k - 1 \in Nat
      BY <1>1, <1>3
    <2>2. k - 1 \notin bad
      BY <1>1, <2>1
    <2>3. PICK G : Choosing(G, vs, k - 1)
      BY <2>1, <2>2
    <2> DEFINE F == [i \in 0..k |->
                        IF i = k THEN IF Better(G[k - 1], k) THEN k ELSE G[k - 1]
                        ELSE G[i]]
               H == [i \in 0..k |->
                        IF i = 0 THEN 0 ELSE IF Better(F[i - 1], i) THEN i ELSE F[i - 1]]
    <2>4. ASSUME NEW i \in 0..k PROVE F[i] = H[i]
      <3> HIDE DEF Better
      <3>1. CASE i = k
        <4>1. F[k - 1] = G[k - 1]
          BY <2>1
        <4> QED BY <1>3, <2>1, <3>1, <4>1
      <3>2. CASE i # k /\ i = 0
        <4>1. G[0] = 0
          BY <2>1, <2>3 DEF Choosing
        <4> QED BY <2>1, <3>2, <4>1
      <3>3. CASE i # k /\ i # 0
        <4>1. i \in 0..(k - 1) /\ i - 1 \in 0..(k - 1) /\ i - 1 # k /\ i - 1 \in 0..k
          BY <2>1, <3>3
        <4>2. F[i - 1] = G[i - 1] /\ F[i] = G[i]
          BY <3>3, <4>1
        <4>3. G[i] = IF Better(G[i - 1], i) THEN i ELSE G[i - 1]
          BY <2>3, <3>3, <4>1 DEF Choosing, Better
        <4> QED BY <3>3, <4>2, <4>3
      <3> QED BY <3>1, <3>2, <3>3
    <2>5. F = H
      BY <2>4
    <2>6. Choosing(F, vs, k)
      <3> HIDE DEF F
      <3> QED BY <2>5, Zenon DEF Choosing
    <2> HIDE DEF F
    <2> QED BY <1>1, <2>6
  <1> QED BY <1>2, <1>3

\* best[k] is the cheapest of the first k variants that declare a bandwidth, and the
\* first of those; the first k for which it is not would follow one for which it is.
LEMMA CheapestPicked ==
    ASSUME NEW N \in Nat, N = Len(variants), N > 0,
           \A i \in 1..N : variants[i].bandwidth \in Nat,
           DOMAIN variants = 1..N
    PROVE  PickIsLowest
  <1> DEFINE F == CHOOSE F : Choosing(F, variants, N)
             bw(i) == variants[i].bandwidth
             Cheapest(k) == IF F[k] = 0 THEN \A j \in 1..k : bw(j) = 0
                            ELSE /\ F[k] \in 1..k /\ bw(F[k]) > 0
                                 /\ \A j \in 1..k : bw(j) > 0 => bw(F[k]) <= bw(j)
                                 /\ \A j \in 1..k : j < F[k] /\ bw(j) > 0 => bw(F[k]) < bw(j)
             worse == {k \in Nat : k <= N /\ ~Cheapest(k)}
  <1>1. Choosing(F, variants, N)
    BY ChoosingExists
  <1>2. best = F
    BY Zenon DEF best, Choosing
  <1> HIDE DEF F
  <1>3. F[0] = 0
    BY <1>1 DEF Choosing
  <1>4. \A i \in 1..N :
            F[i] = IF bw(i) > 0 /\ (F[i - 1] = 0 \/ bw(i) < bw(F[i - 1])) THEN i ELSE F[i - 1]
    <2> SUFFICES ASSUME NEW i \in 1..N
                 PROVE  F[i] = IF bw(i) > 0 /\ (F[i - 1] = 0 \/ bw(i) < bw(F[i - 1]))
                               THEN i ELSE F[i - 1]
      OBVIOUS
    <2>1. i \in 0..N /\ i # 0
      OBVIOUS
    <2> QED BY <1>1, <2>1, Zenon DEF Choosing
  <1>5. \A i \in 1..N : bw(i) \in Nat
    OBVIOUS
  <1> HIDE DEF bw
  <1>6. worse = {}
    <2> SUFFICES ASSUME worse # {} PROVE FALSE
      OBVIOUS
    <2>1. PICK k \in worse : \A m \in worse : k <= m
      BY Least
    <2>2. k \in Nat /\ k <= N /\ ~Cheapest(k)
      BY <2>1
    <2>3. k # 0
      BY <1>3, <2>2
    <2>4. k \in 1..N /\ k - 1 \in Nat /\ k - 1 <= N /\ k - 1 < k
      BY <2>2, <2>3
    <2>5. Cheapest(k - 1)
      BY <2>1, <2>4
    <2>6. PICK b : b = F[k - 1]
      OBVIOUS
    <2>7. bw(k) \in Nat /\ \A j \in 1..k : bw(j) \in Nat /\ (j = k \/ j \in 1..(k - 1))
      BY <1>5, <2>4
    <2>8. b = 0 \/ b \in 1..(k - 1)
      BY <2>5, <2>6
    <2>9. CASE b = 0
      <3>1. \A j \in 1..(k - 1) : bw(j) = 0
        BY <2>5, <2>6, <2>9
      <3>2. F[k] = IF bw(k) > 0 THEN k ELSE 0
        BY <1>4, <2>4, <2>6, <2>9
      <3>3. CASE bw(k) > 0
        <4>1. F[k] = k /\ F[k] # 0 /\ F[k] \in 1..k
          BY <2>4, <3>2, <3>3
        <4>2. \A j \in 1..k : bw(j) > 0 => j = k
          BY <2>7, <3>1
        <4>3. Cheapest(k)
          BY <2>7, <3>3, <4>1, <4>2
        <4> QED BY <2>2, <4>3
      <3>4. CASE ~(bw(k) > 0)
        <4>1. F[k] = 0 /\ \A j \in 1..k : bw(j) = 0
          BY <2>7, <3>1, <3>2, <3>4
        <4> QED BY <2>2, <4>1
      <3> QED BY <3>3, <3>4
    <2>10. CASE b # 0
      <3>1. /\ b \in 1..(k - 1) /\ bw(b) > 0 /\ bw(b) \in Nat
            /\ \A j \in 1..(k - 1) : bw(j) > 0 => bw(b) <= bw(j)
            /\ \A j \in 1..(k - 1) : j < b /\ bw(j) > 0 => bw(b) < bw(j)
        BY <1>5, <2>4, <2>5, <2>6, <2>10
      <3>2. F[k] = IF bw(k) > 0 /\ bw(k) < bw(b) THEN k ELSE b
        BY <1>4, <2>4, <2>6, <2>10
      <3>3. CASE bw(k) > 0 /\ bw(k) < bw(b)
        <4>1. F[k] = k /\ F[k] # 0 /\ F[k] \in 1..k /\ bw(F[k]) > 0
          BY <2>4, <3>2, <3>3
        <4>2. ASSUME NEW j \in 1..k, bw(j) > 0 PROVE bw(k) <= bw(j)
          <5>1. CASE j = k
            BY <2>7, <5>1
          <5>2. CASE j \in 1..(k - 1)
            <6>1. bw(b) <= bw(j) /\ bw(b) \in Nat
              BY <3>1, <4>2, <5>2
            <6>2. bw(j) \in Nat /\ bw(k) \in Nat
              BY <2>7
            <6> QED BY <3>3, <6>1, <6>2
          <5> QED BY <2>7, <5>1, <5>2
        <4>3. \A j \in 1..k : j < k /\ bw(j) > 0 => bw(k) < bw(j)
          <5>1. \A j \in 1..k : j < k => j \in 1..(k - 1)
            BY <2>4
          <5> QED BY <2>7, <3>1, <3>3, <5>1
        <4>4. Cheapest(k)
          BY <4>1, <4>2, <4>3
        <4> QED BY <2>2, <4>4
      <3>4. CASE ~(bw(k) > 0 /\ bw(k) < bw(b))
        <4>1. F[k] = b /\ F[k] # 0 /\ F[k] \in 1..k /\ bw(F[k]) > 0
          BY <2>4, <3>1, <3>2, <3>4
        <4>2. \A j \in 1..k : bw(j) > 0 => bw(b) <= bw(j)
          BY <2>7, <3>1, <3>4
        <4>3. \A j \in 1..k : j < b /\ bw(j) > 0 => bw(b) < bw(j)
          <5>1. \A j \in 1..k : j < b => j \in 1..(k - 1)
            BY <2>4, <3>1
          <5> QED BY <3>1, <5>1
        <4>4. Cheapest(k)
          BY <4>1, <4>2, <4>3
        <4> QED BY <2>2, <4>4
      <3> QED BY <3>3, <3>4
    <2> QED BY <2>9, <2>10
  <1>7. Cheapest(N)
    BY <1>6
  <1>8. PICK b : b = F[N]
    OBVIOUS
  <1>9. pick_variant = Max({1, b})
    <2>1. variants # <<>>
      OBVIOUS
    <2> QED BY <1>2, <1>8, <2>1, Zenon DEF pick_variant
  <1> DEFINE declared == {i \in DOMAIN variants : variants[i].bandwidth > 0}
             lowest == {i \in declared : \A j \in declared :
                           variants[i].bandwidth <= variants[j].bandwidth}
  <1>10. declared = {i \in 1..N : bw(i) > 0}
    BY DEF bw
  <1>11. lowest = {i \in declared : \A j \in declared : bw(i) <= bw(j)}
    BY DEF bw
  <1> HIDE DEF declared, lowest
  <1>12. CASE b = 0
    <2>1. declared = {}
      BY <1>7, <1>8, <1>10, <1>12
    <2>2. Max({1, 0}) = 1
      <3>1. {1, 0} \in SUBSET (0..1)
        OBVIOUS
      <3>2. \A y \in {1, 0} : 1 >= y
        OBVIOUS
      <3>3. Max({1, 0}) \in {1, 0} /\ \A y \in {1, 0} : Max({1, 0}) >= y
        <4>1. \E x \in {1, 0} : \A y \in {1, 0} : x >= y
          BY <3>2
        <4> QED BY <4>1, Zenon DEF Max
      <3> QED BY <3>3
    <2>3. pick_variant = 1
      BY <1>9, <1>12, <2>2
    <2> QED BY <2>1, <2>3, Zenon DEF PickIsLowest, declared, lowest
  <1>13. CASE b # 0
    <2>1. /\ b \in 1..N /\ bw(b) > 0 /\ bw(b) \in Nat
          /\ \A j \in 1..N : bw(j) > 0 => bw(b) <= bw(j)
          /\ \A j \in 1..N : j < b /\ bw(j) > 0 => bw(b) < bw(j)
      BY <1>5, <1>7, <1>8, <1>13
    <2>2. b \in lowest /\ lowest \subseteq 1..N /\ declared # {}
      BY <1>10, <1>11, <2>1
    <2>3. \A i \in lowest : b <= i
      <3> SUFFICES ASSUME NEW i \in lowest, i < b PROVE FALSE
        BY <2>1, <2>2
      <3>1. i \in 1..N /\ bw(i) > 0 /\ bw(i) <= bw(b) /\ bw(i) \in Nat
        BY <1>5, <1>10, <1>11, <2>1, <2>2
      <3> QED BY <2>1, <3>1
    <2>4. Min(lowest) = b
      <3>1. \A i \in lowest : i \in Nat
        BY <2>2
      <3>2. lowest \in SUBSET Nat
        BY <3>1
      <3> QED BY <2>2, <2>3, <3>2, MinIs
    <2>5. Max({1, b}) = b
      <3>1. PICK c : c = {1, b}
        OBVIOUS
      <3>2. \A y \in c : y \in 1..N /\ y <= b
        BY <2>1, <3>1
      <3>3. c \in SUBSET (1..N) /\ b \in c
        BY <3>1, <3>2
      <3> QED BY <3>1, <3>2, <3>3, MaxIs
    <2> QED BY <1>9, <2>2, <2>4, <2>5, Zenon DEF PickIsLowest, declared, lowest
  <1> QED BY <1>12, <1>13

-----------------------------------------------------------------------------
(* The playlist's invariant                                                *)

\* The parser's registers in front of line i say what the text before it does.
Registers(i) ==
    /\ next_seq = ServersNumber(i)
    /\ seen_segment_uri = (SegmentUris(i) # {})
    /\ have_streaminf = OfVariant(i)
    /\ key = KeyBefore(i)

\* A segment that is as the server published it.
Published(s) ==
    /\ s.line \in 1..Len(text)
    /\ s.seq = ServersNumber(s.line)
    /\ GivenBy(s, KeyBefore(s.line))

\* A list of whatever elements.
IsList(s) == \E S : s \in Seq(S)

\* The types of what the numbers and the choice of a variant depend on.
M3u8Typed ==
    /\ text \in Seq(Lines) /\ IsList(variants) /\ IsList(segments)
    /\ seen_segment_uri \in BOOLEAN /\ have_streaminf \in BOOLEAN
    /\ pending_bw \in Nat
    /\ \A i \in 1..Len(variants) : variants[i].bandwidth \in Nat

\* The inductive invariant: types, the segments, and the registers held against the text.
M3u8Inv ==
    /\ M3u8Typed
    /\ \A i \in 1..Len(segments) : Published(segments[i])
    /\ rc = "more" => Registers(Len(text) + 1)
    /\ rc = "bad" \/ ~seen_header => segments = <<>> /\ variants = <<>>

\* A list with an element more.
LEMMA ListGrows ==
    ASSUME NEW s, IsList(s), NEW x
    PROVE  /\ IsList(Append(s, x)) /\ Len(s) \in Nat /\ Len(Append(s, x)) = Len(s) + 1
           /\ \A i \in 1..Len(s) : Append(s, x)[i] = s[i]
           /\ Append(s, x)[Len(s) + 1] = x
  <1>1. PICK S : s \in Seq(S)
    BY DEF IsList
  <1>2. s \in Seq(S \cup {x})
    BY <1>1
  <1>3. x \in S \cup {x}
    OBVIOUS
  <1>4. Append(s, x) \in Seq(S \cup {x})
    BY <1>2, <1>3
  <1>5. IsList(Append(s, x))
    BY <1>4 DEF IsList
  <1> QED BY <1>2, <1>3, <1>5

\* A text of no lines.
LEMMA M3u8Starts == M3u8Start => M3u8Inv
  <1> SUFFICES ASSUME M3u8Start PROVE M3u8Inv
    OBVIOUS
  <1>1. /\ text = <<>> /\ segments = <<>> /\ variants = <<>> /\ next_seq = 0 /\ key = NoKey
        /\ seen_segment_uri = FALSE /\ have_streaminf = FALSE /\ pending_bw = 0 /\ rc = "more"
    BY DEF M3u8Start
  <1>2. text \in Seq(Lines) /\ Len(text) = 0 /\ Len(segments) = 0 /\ Len(variants) = 0
    BY <1>1
  <1>3. IsList(segments) /\ IsList(variants)
    <2>1. <<>> \in Seq(Lines)
      OBVIOUS
    <2> QED BY <1>1, <2>1 DEF IsList
  <1>4. \A tags : Before(1, tags) = {}
    BY DEF Before
  <1>5. SegmentUris(1) = {} /\ ~OfVariant(1) /\ KeyTags(1) = {}
    BY <1>4, Zenon DEF SegmentUris, OfVariant, KeyTags
  <1>6. KeyBefore(1) = NoKey
    BY <1>5 DEF KeyBefore
  <1>7. ServersNumber(1) = 0
    <2>1. FirstUri(1) = 1
      BY <1>5 DEF FirstUri
    <2>2. Said(1) = {}
      BY <1>4, <2>1 DEF Said
    <2>3. Base(1) = 0
      BY <2>2 DEF Base
    <2>4. Cardinality(SegmentUris(1)) = 0
      BY <1>5, FS_EmptySet
    <2>5. ServersNumber(1) = Min({0 + 0, SEQ_MAX})
      BY <2>3, <2>4, InParts
    <2>6. Min({0, SEQ_MAX}) = 0
      <3>1. SEQ_MAX \in Nat /\ 0 <= SEQ_MAX
        BY M3u8Assumption
      <3> QED BY <3>1, Capped
    <2> QED BY <2>5, <2>6
  <1>8. Registers(1)
    <2>1. OfVariant(1) = FALSE /\ (SegmentUris(1) # {}) = FALSE
      BY <1>5 DEF OfVariant
    <2> QED BY <1>1, <1>6, <1>7, <2>1, Zenon DEF Registers
  <1>9. M3u8Typed
    <2>1. \A i \in 1..Len(variants) : variants[i].bandwidth \in Nat
      BY <1>2
    <2>2. pending_bw \in Nat /\ seen_segment_uri \in BOOLEAN /\ have_streaminf \in BOOLEAN
      BY <1>1
    <2> QED BY <1>2, <1>3, <2>1, <2>2, Zenon DEF M3u8Typed
  <1>10. Len(text) + 1 = 1
    BY <1>2
  <1> QED BY <1>1, <1>2, <1>8, <1>9, <1>10 DEF M3u8Inv

\* What the line l does to the registers.
Registered(l) ==
    /\ next_seq' = IF l.t = "seq" /\ SequenceCounts(l) THEN l.value
                   ELSE IF l.t = "uri" /\ ~have_streaminf THEN Saturated(next_seq)
                   ELSE next_seq
    /\ seen_segment_uri' = (seen_segment_uri \/ (l.t = "uri" /\ ~have_streaminf))
    /\ have_streaminf' = (l.t = "stream" \/ (l.t # "uri" /\ have_streaminf))
    /\ key' = IF l.t = "key" THEN KeyOf(l) ELSE key

\* It is what the line adds to the text.
LEMMA RegistersFollow ==
    ASSUME NEW l \in Lines, text \in Seq(Lines), text' = Append(text, l),
           NEW n \in Nat, n = Len(text), Registers(n + 1), Registered(l)
    PROVE  Registers(n + 2)'
  <1>1. /\ next_seq = ServersNumber(n + 1) /\ seen_segment_uri = (SegmentUris(n + 1) # {})
        /\ have_streaminf = OfVariant(n + 1) /\ key = KeyBefore(n + 1)
    BY DEF Registers
  <1>2. next_seq' = ServersNumber(n + 2)'
    <2>1. (l.t = "seq" /\ SequenceCounts(l)) = Heeded(l, n)
      BY <1>1 DEF SequenceCounts, Heeded
    <2>2. ServersNumber(n + 2)' =
                IF Heeded(l, n) THEN l.value
                ELSE IF l.t = "uri" /\ ~OfVariant(n + 1)
                     THEN Saturated(ServersNumber(n + 1))
                     ELSE ServersNumber(n + 1)
      BY NumberMoves
    <2> QED BY <1>1, <2>1, <2>2 DEF Registered
  <1>3. seen_segment_uri' = (SegmentUris(n + 2)' # {})
    BY <1>1, UrisMove DEF Registered
  <1>4. have_streaminf' = OfVariant(n + 2)'
    BY <1>1, Announced DEF Registered
  <1>5. key' = KeyBefore(n + 2)'
    <2>1. KeyBefore(n + 2)' = IF l.t = "key" THEN KeyOf(l) ELSE KeyBefore(n + 1)
      BY KeyMoves
    <2> QED BY <1>1, <2>1 DEF Registered
  <1> QED BY <1>2, <1>3, <1>4, <1>5, Zenon DEF Registers

\* What was published stays as it was.
LEMMA PublishedStays ==
    ASSUME NEW l \in Lines, text \in Seq(Lines), text' = Append(text, l),
           NEW s, Published(s)
    PROVE  Published(s)'
  <1>1. PICK n \in Nat : n = Len(text)
    OBVIOUS
  <1>2. PICK i : i = s.line
    OBVIOUS
  <1>3. i \in 1..n /\ i \in 1..(n + 1) /\ Len(text') = n + 1
    BY <1>1, <1>2, LineMore DEF Published
  <1>4. ServersNumber(i)' = ServersNumber(i)
    BY <1>1, <1>3, PastStays
  <1>5. KeyBefore(i)' = KeyBefore(i)
    BY <1>1, <1>3, KeyMoves
  <1> QED BY <1>2, <1>3, <1>4, <1>5 DEF Published, GivenBy

\* The step leaves the lists alone, or adds s, or v, that is in order.
Listing(s, v) ==
    /\ segments' = segments \/ (segments' = Append(segments, s) /\ Published(s)')
    /\ variants' = variants \/ (variants' = Append(variants, v) /\ v.bandwidth \in Nat)

\* A line that leaves the segments and the variants alone, or adds to one of them.
LEMMA LineKeeps ==
    ASSUME M3u8Inv, rc = "more", NEW l \in Lines, text' = Append(text, l), Registered(l),
           rc' = rc, seen_header', pending_bw' \in Nat,
           NEW s, NEW v, Listing(s, v)
    PROVE  M3u8Inv'
  <1>a. segments' = segments \/ (segments' = Append(segments, s) /\ Published(s)')
    BY DEF Listing
  <1>b. variants' = variants \/ (variants' = Append(variants, v) /\ v.bandwidth \in Nat)
    BY DEF Listing
  <1>1. PICK n \in Nat : n = Len(text)
    BY DEF M3u8Inv, M3u8Typed
  <1>2. text \in Seq(Lines) /\ IsList(segments) /\ IsList(variants)
    BY DEF M3u8Inv, M3u8Typed
  <1>3. text' \in Seq(Lines) /\ Len(text') = n + 1
    BY <1>1, <1>2, LineMore
  <1>4. Registers(Len(text) + 1)'
    <2>1. Registers(n + 1)
      BY <1>1 DEF M3u8Inv
    <2>2. Registers(n + 2)'
      BY <1>1, <1>2, <2>1, RegistersFollow
    <2>3. Len(text') + 1 = n + 2
      BY <1>3
    <2> QED BY <2>2, <2>3, Zenon
  <1>5. IsList(segments') /\ IsList(variants')
    <2>1. IsList(Append(segments, s)) /\ IsList(Append(variants, v))
      BY <1>2, ListGrows
    <2>2. segments' = segments \/ segments' = Append(segments, s)
      BY <1>a
    <2>3. variants' = variants \/ variants' = Append(variants, v)
      BY <1>b
    <2> QED BY <1>2, <2>1, <2>2, <2>3, Zenon
  <1>6. (\A i \in 1..Len(segments) : Published(segments[i]))'
    <2>1. ASSUME NEW x, Published(x) PROVE Published(x)'
      BY <1>2, <2>1, PublishedStays
    <2>2. ASSUME NEW i \in 1..Len(segments'), NEW x, x = segments'[i] PROVE Published(x)'
      <3>1. CASE segments' = segments
        BY <2>1, <2>2, <3>1 DEF M3u8Inv
      <3>2. CASE segments' # segments
        <4>1. segments' = Append(segments, s) /\ Published(s)'
          BY <1>a, <3>2
        <4>2. /\ Len(segments) \in Nat /\ Len(segments') = Len(segments) + 1
              /\ \A k \in 1..Len(segments) : segments'[k] = segments[k]
              /\ segments'[Len(segments) + 1] = s
          BY <1>2, <4>1, ListGrows
        <4>3. CASE i \in 1..Len(segments)
          <5>1. x = segments[i] /\ Published(segments[i])
            BY <2>2, <4>2, <4>3 DEF M3u8Inv
          <5> QED BY <2>1, <5>1
        <4>4. CASE i = Len(segments) + 1
          BY <2>2, <4>1, <4>2, <4>4
        <4> QED BY <4>2, <4>3, <4>4
      <3> QED BY <3>1, <3>2
    <2> QED BY <2>2
  <1>7. \A i \in 1..Len(variants') : variants'[i].bandwidth \in Nat
    <2>0. \A i \in 1..Len(variants) : variants[i].bandwidth \in Nat
      BY DEF M3u8Inv, M3u8Typed
    <2>1. CASE variants' = variants
      BY <2>0, <2>1
    <2>2. CASE variants' # variants
      <3>1. variants' = Append(variants, v) /\ v.bandwidth \in Nat
        BY <1>b, <2>2
      <3>2. /\ Len(variants) \in Nat /\ Len(variants') = Len(variants) + 1
            /\ \A i \in 1..Len(variants) : variants'[i] = variants[i]
            /\ variants'[Len(variants) + 1] = v
        BY <1>2, <3>1, ListGrows
      <3> SUFFICES ASSUME NEW i \in 1..Len(variants') PROVE variants'[i].bandwidth \in Nat
        OBVIOUS
      <3>3. i \in 1..Len(variants) \/ i = Len(variants) + 1
        BY <3>2
      <3> QED BY <2>0, <3>1, <3>2, <3>3, Zenon
    <2> QED BY <2>1, <2>2
  <1>8. seen_segment_uri' \in BOOLEAN /\ have_streaminf' \in BOOLEAN
    BY DEF Registered
  <1>9. M3u8Typed'
    BY <1>3, <1>5, <1>7, <1>8, Zenon DEF M3u8Typed
  <1>10. rc' # "bad"
    OBVIOUS
  <1> QED BY <1>4, <1>6, <1>9, <1>10, Zenon DEF M3u8Inv

\* A line that leaves both lists alone.
LEMMA QuietLineKeeps ==
    ASSUME M3u8Inv, rc = "more", NEW l \in Lines, text' = Append(text, l), Registered(l),
           rc' = rc, seen_header', pending_bw' \in Nat, segments' = segments, variants' = variants
    PROVE  M3u8Inv'
  <1>1. Listing(0, 0)
    BY DEF Listing
  <1> QED BY <1>1, LineKeeps

\* No playlist, or a NUL in it: nothing is kept.
LEMMA BadLineKeeps ==
    ASSUME M3u8Inv, NEW l \in Lines, text' = Append(text, l), BadLine(l)
    PROVE  M3u8Inv'
  <1>1. rc' = "bad" /\ segments' = <<>> /\ variants' = <<>>
        /\ UNCHANGED <<pending_bw, have_streaminf, seen_segment_uri>>
    BY DEF BadLine, Discarded, pending
  <1>2. Len(segments') = 0 /\ Len(variants') = 0
    BY <1>1
  <1>3. IsList(segments') /\ IsList(variants')
    <2>1. <<>> \in Seq(Lines)
      OBVIOUS
    <2> QED BY <1>1, <2>1 DEF IsList
  <1>4. text' \in Seq(Lines)
    BY DEF M3u8Inv, M3u8Typed
  <1>5. \A i \in 1..Len(variants') : variants'[i].bandwidth \in Nat
    BY <1>2
  <1>6. (\A i \in 1..Len(segments) : Published(segments[i]))'
    BY <1>2
  <1>7. pending_bw' \in Nat /\ seen_segment_uri' \in BOOLEAN /\ have_streaminf' \in BOOLEAN
    BY <1>1 DEF M3u8Inv, M3u8Typed
  <1>8. M3u8Typed'
    BY <1>3, <1>4, <1>5, <1>7, Zenon DEF M3u8Typed
  <1>9. rc' # "more"
    BY <1>1
  <1> QED BY <1>1, <1>6, <1>8, <1>9, Zenon DEF M3u8Inv

\* The header.
LEMMA HeaderKeeps ==
    ASSUME M3u8Inv, rc = "more", NEW l \in Lines, text' = Append(text, l), Header(l)
    PROVE  M3u8Inv'
  <1>1. /\ l.t = "header" /\ rc' = rc /\ seen_header'
        /\ UNCHANGED <<have_streaminf, pending_bw, next_seq, seen_segment_uri>>
        /\ UNCHANGED <<key, variants, segments>>
    BY DEF Header, pending, numbers, playlist
  <1>2. seen_segment_uri \in BOOLEAN /\ have_streaminf \in BOOLEAN /\ pending_bw \in Nat
    BY DEF M3u8Inv, M3u8Typed
  <1>3. Registered(l)
    BY <1>1, <1>2 DEF Registered
  <1> QED BY <1>1, <1>2, <1>3, QuietLineKeeps

\* Every other tag.
LEMMA TaggedKeeps ==
    ASSUME M3u8Inv, rc = "more", NEW l \in Lines, text' = Append(text, l), rc' = rc,
           seen_header', Tagged(l)
    PROVE  M3u8Inv'
  <1>2. seen_segment_uri \in BOOLEAN /\ have_streaminf \in BOOLEAN /\ pending_bw \in Nat
    BY DEF M3u8Inv, M3u8Typed
  <1>3. Registered(l) /\ pending_bw' \in Nat /\ segments' = segments /\ variants' = variants
    <2>1. CASE Comment(l)
      <3>1. /\ l.t \in {"comment", "header"}
            /\ UNCHANGED <<have_streaminf, pending_bw, next_seq, seen_segment_uri, key, variants,
                           segments>>
        BY <2>1 DEF Comment, pending, numbers, playlist
      <3> QED BY <1>2, <3>1 DEF Registered
    <2>2. CASE Extinf(l)
      <3>1. /\ l.t = "inf"
            /\ UNCHANGED <<have_streaminf, pending_bw, next_seq, seen_segment_uri, key, variants,
                           segments>>
        BY <2>2 DEF Extinf, numbers, playlist
      <3> QED BY <1>2, <3>1 DEF Registered
    <2>3. CASE StreamInf(l)
      <3>1. /\ l.t = "stream" /\ pending_bw' = l.bandwidth /\ have_streaminf' = TRUE
            /\ UNCHANGED <<next_seq, seen_segment_uri, key, variants, segments>>
        BY <2>3 DEF StreamInf, numbers
      <3>2. l.bandwidth \in Nat
        <4>1. \A k \in Lines : k.t = "stream" => k.bandwidth \in Nat
          BY M3u8Assumption
        <4> QED BY <3>1, <4>1, Zenon
      <3> QED BY <1>2, <3>1, <3>2 DEF Registered
    <2>4. CASE TargetDuration(l)
      <3>1. /\ l.t = "target"
            /\ UNCHANGED <<have_streaminf, pending_bw, next_seq, seen_segment_uri, key, variants,
                           segments>>
        BY <2>4 DEF TargetDuration, pending, numbers
      <3> QED BY <1>2, <3>1 DEF Registered
    <2>5. CASE MediaSequence(l)
      <3>1. /\ l.t = "seq"
            /\ next_seq' = IF SequenceCounts(l) THEN l.value ELSE next_seq
            /\ UNCHANGED <<have_streaminf, pending_bw, seen_segment_uri, key, variants, segments>>
        BY <2>5 DEF MediaSequence, pending, playlist
      <3> QED BY <1>2, <3>1 DEF Registered
    <2>6. CASE PlaylistBreak(l)
      <3>1. /\ l.t = "disc"
            /\ UNCHANGED <<have_streaminf, pending_bw, next_seq, seen_segment_uri, key, variants,
                           segments>>
        BY <2>6 DEF PlaylistBreak, numbers, playlist
      <3> QED BY <1>2, <3>1 DEF Registered
    <2>7. CASE EndList(l)
      <3>1. /\ l.t = "end"
            /\ UNCHANGED <<have_streaminf, pending_bw, next_seq, seen_segment_uri, key, variants,
                           segments>>
        BY <2>7 DEF EndList, pending, numbers
      <3> QED BY <1>2, <3>1 DEF Registered
    <2>8. CASE KeyTag(l)
      <3>1. /\ l.t = "key" /\ key' = KeyOf(l)
            /\ UNCHANGED <<have_streaminf, pending_bw, next_seq, seen_segment_uri, variants,
                           segments>>
        BY <2>8 DEF KeyTag, KeyOf, pending, numbers, playlist
      <3> QED BY <1>2, <3>1 DEF Registered
    <2> QED BY <2>1, <2>2, <2>3, <2>4, <2>5, <2>6, <2>7, <2>8, Zenon DEF Tagged
  <1> QED BY <1>3, QuietLineKeeps

\* An address takes its number whether or not it is kept.
LEMMA UriRegistered ==
    ASSUME NEW l, Uri(l), have_streaminf' = FALSE,
           have_streaminf \in BOOLEAN, seen_segment_uri \in BOOLEAN
    PROVE  Registered(l)
  <1>1. l.t = "uri" /\ key' = key
    BY DEF Uri
  <1>2. CASE have_streaminf
    BY <1>1, <1>2 DEF Uri, Numbering, Registered
  <1>3. CASE ~have_streaminf
    BY <1>1, <1>3 DEF Uri, Numbering, SeqTaken, Registered
  <1> QED BY <1>2, <1>3

\* The addresses of segments and of variants, kept or dropped.
LEMMA AddressedKeeps ==
    ASSUME M3u8Inv, rc = "more", NEW l \in Lines, text' = Append(text, l), rc' = rc,
           seen_header', Addressed(l)
    PROVE  M3u8Inv'
  <1>2. seen_segment_uri \in BOOLEAN /\ have_streaminf \in BOOLEAN /\ pending_bw \in Nat
    BY DEF M3u8Inv, M3u8Typed
  <1>3. Uri(l) /\ have_streaminf' = FALSE /\ pending_bw' = pending_bw
    BY <1>2 DEF Addressed, Unannounced, Unresolvable, Variant, Segment, pending
  <1>4. Registered(l)
    BY <1>2, <1>3, UriRegistered
  <1>5. CASE Unannounced(l) \/ Unresolvable(l)
    <2>1. segments' = segments /\ variants' = variants
      BY <1>5 DEF Unannounced, Unresolvable
    <2> QED BY <1>2, <1>3, <1>4, <2>1, QuietLineKeeps
  <1>6. CASE Variant(l)
    <2>1. PICK v : v = [line |-> Len(text) + 1, bandwidth |-> pending_bw]
      OBVIOUS
    <2>2. variants' = Append(variants, v) /\ segments' = segments
      BY <1>6, <2>1 DEF Variant
    <2>3. v.bandwidth \in Nat
      BY <1>2, <2>1
    <2>4. Listing(0, v)
      BY <2>2, <2>3 DEF Listing
    <2>5. pending_bw' \in Nat
      BY <1>2, <1>3
    <2> QED BY <1>4, <2>4, <2>5, LineKeeps
  <1>7. CASE Segment(l)
    <2>1. PICK s : s = [line |-> Len(text) + 1, seq |-> next_seq, discontinuity |-> pending_disc,
                        encrypted |-> key.enc, key_uri |-> key.uri, iv |-> Iv(next_seq)]
      OBVIOUS
    <2>2. segments' = Append(segments, s) /\ variants' = variants
      BY <1>7, <2>1 DEF Segment
    <2>3. PICK n \in Nat : n = Len(text)
      BY DEF M3u8Inv, M3u8Typed
    <2>4. text \in Seq(Lines) /\ Registers(n + 1)
      BY <2>3 DEF M3u8Inv, M3u8Typed
    <2>5. next_seq = ServersNumber(n + 1) /\ key = KeyBefore(n + 1)
      BY <2>4 DEF Registers
    <2>6. ServersNumber(n + 1)' = ServersNumber(n + 1) /\ KeyBefore(n + 1)' = KeyBefore(n + 1)
      <3>1. n + 1 \in 1..(n + 1)
        OBVIOUS
      <3> QED BY <2>3, <2>4, <3>1, PastStays, KeyMoves
    <2>7. GivenBy(s, key)
      BY <2>1 DEF GivenBy, Iv
    <2>8. s.line = n + 1 /\ s.seq = next_seq /\ Len(text') = n + 1
      BY <2>1, <2>3, <2>4, LineMore
    <2>9. Published(s)'
      <3>1. s.line \in 1..Len(text') /\ s.seq = ServersNumber(n + 1)'
        BY <2>3, <2>5, <2>6, <2>8
      <3>2. GivenBy(s, KeyBefore(n + 1)')
        BY <2>5, <2>6, <2>7
      <3> QED BY <2>8, <3>1, <3>2 DEF Published, GivenBy
    <2>10. Listing(s, 0)
      BY <2>2, <2>9 DEF Listing
    <2>11. pending_bw' \in Nat
      BY <1>2, <1>3
    <2> QED BY <1>4, <2>10, <2>11, LineKeeps
  <1> QED BY <1>5, <1>6, <1>7, Zenon DEF Addressed

\* What the registers and the segments are held against depends on the text alone.
LEMMA SameReading ==
    ASSUME text' = text
    PROVE  \A i : /\ OfVariant(i)' = OfVariant(i) /\ SegmentUris(i)' = SegmentUris(i)
                  /\ ServersNumber(i)' = ServersNumber(i) /\ KeyBefore(i)' = KeyBefore(i)
  <1>1. \A i, tags : Before(i, tags)' = Before(i, tags)
    BY DEF Before
  <1>2. \A i : OfVariant(i)' = OfVariant(i)
    BY <1>1, Zenon DEF OfVariant
  <1>3. \A i : SegmentUris(i)' = SegmentUris(i)
    BY <1>1, <1>2, Zenon DEF SegmentUris
  <1>4. \A i : ServersNumber(i)' = ServersNumber(i)
    <2>1. \A i : FirstUri(i)' = FirstUri(i)
      BY <1>3, Zenon DEF FirstUri
    <2>2. \A i : Said(i)' = Said(i)
      BY <1>1, <2>1 DEF Said
    <2>3. \A i : Base(i)' = Base(i)
      BY <2>2, Zenon DEF Base
    <2>4. ASSUME NEW i PROVE ServersNumber(i)' = ServersNumber(i)
      <3>1. ServersNumber(i)' = Min({Base(i)' + Cardinality(SegmentUris(i)'), SEQ_MAX})
        BY Zenon DEF ServersNumber, Base, Said, FirstUri
      <3>2. ServersNumber(i) = Min({Base(i) + Cardinality(SegmentUris(i)), SEQ_MAX})
        BY InParts
      <3> QED BY <1>3, <2>3, <3>1, <3>2
    <2> QED BY <2>4
  <1>5. \A i : KeyBefore(i)' = KeyBefore(i)
    BY <1>1, Zenon DEF KeyBefore, KeyTags
  <1> QED BY <1>2, <1>3, <1>4, <1>5

\* The segments stay published.
LEMMA SameText ==
    ASSUME text' = text, segments' = segments, \A i \in 1..Len(segments) : Published(segments[i])
    PROVE  (\A i \in 1..Len(segments) : Published(segments[i]))'
  <1>6. ASSUME NEW s, Published(s) PROVE Published(s)'
    BY <1>6, SameReading DEF Published, GivenBy
  <1>7. ASSUME NEW i \in 1..Len(segments'), NEW s, s = segments'[i] PROVE Published(s)'
    BY <1>6, <1>7
  <1> QED BY <1>7

\* Every step of m3u8_parse keeps its invariant.
LEMMA M3u8Step == M3u8Inv /\ M3u8Next => M3u8Inv'
  <1> SUFFICES ASSUME M3u8Inv, M3u8Next PROVE M3u8Inv'
    OBVIOUS
  <1>1. CASE ReadLine
    <2>1. PICK l \in Lines :
             /\ rc = "more" /\ text' = Append(text, l)
             /\ \/ BadLine(l) \/ Header(l)
                \/ rc' = rc /\ seen_header' /\ (Tagged(l) \/ Addressed(l))
      <3>1. PICK l \in Lines :
               /\ text' = Append(text, l)
               /\ \/ BadLine(l) \/ Header(l)
                  \/ seen_header /\ UNCHANGED <<rc, seen_header>> /\ (Tagged(l) \/ Addressed(l))
        BY <1>1 DEF ReadLine
      <3>2. rc = "more"
        BY <1>1 DEF ReadLine
      <3>3. CASE seen_header /\ UNCHANGED <<rc, seen_header>>
        BY <3>1, <3>2, <3>3
      <3> QED BY <3>1, <3>2, <3>3
    <2> QED BY <2>1, BadLineKeeps, HeaderKeeps, TaggedKeeps, AddressedKeeps, Zenon
  <1>2. CASE TextEnds
    <2>1. /\ rc' # "more" /\ rc = "more"
          /\ UNCHANGED <<text, seen_header, have_streaminf, pending_bw, next_seq,
                         seen_segment_uri, key, variants, segments>>
      BY <1>2 DEF TextEnds, parsing, pending, numbers, playlist
    <2>2. M3u8Typed'
      BY <2>1 DEF M3u8Inv, M3u8Typed
    <2>3. (\A i \in 1..Len(segments) : Published(segments[i]))'
      BY <2>1, SameText DEF M3u8Inv
    <2>4. rc' = "bad" => segments' = <<>> /\ variants' = <<>>
      BY <1>2, <2>1 DEF TextEnds, M3u8Inv
    <2> QED BY <2>1, <2>2, <2>3, <2>4, Zenon DEF M3u8Inv
  <1> QED BY <1>1, <1>2, Zenon DEF M3u8Next

\* And so does every step of another component.
LEMMA M3u8Rests == M3u8Inv /\ UNCHANGED m3u8Vars => M3u8Inv'
  <1> SUFFICES ASSUME M3u8Inv, UNCHANGED m3u8Vars PROVE M3u8Inv'
    OBVIOUS
  <1>1. UNCHANGED <<text, rc, seen_header, have_streaminf, pending_bw, next_seq,
                    seen_segment_uri, key, variants, segments>>
    BY DEF m3u8Vars, parsing, pending, numbers, playlist
  <1>2. M3u8Typed'
    BY <1>1 DEF M3u8Inv, M3u8Typed
  <1>3. (\A i \in 1..Len(segments) : Published(segments[i]))'
    BY <1>1, SameText DEF M3u8Inv
  <1>4. (rc = "more" => Registers(Len(text) + 1))'
    <2>1. \A i : Registers(i) => Registers(i)'
      BY <1>1, SameReading DEF Registers
    <2>2. Len(text') + 1 = Len(text) + 1
      BY <1>1
    <2> QED BY <1>1, <2>1, <2>2 DEF M3u8Inv
  <1> QED BY <1>1, <1>2, <1>3, <1>4, Zenon DEF M3u8Inv

\* The playlist's invariant always holds.
LEMMA M3u8Always == Spec => []M3u8Inv
  <1>1. Init => M3u8Inv
    BY M3u8Starts, Zenon DEF Init
  <1>2. M3u8Inv /\ [Next]_vars => M3u8Inv'
    BY M3u8Step, M3u8Rests, Zenon DEF Next, vars
  <1> QED BY <1>1, <1>2, PTL DEF Spec

-----------------------------------------------------------------------------
(* The playlist's breaks                                                   *)

\* pending_disc says of the line to come what a segment's mark says of its own.
BreakInv ==
    /\ pending_disc \in BOOLEAN
    /\ \A k \in 1..Len(segments) :
          MarkedRight(segments[k].discontinuity, segments[k].line, LineOf(k - 1))
    /\ rc = "more" => MarkedRight(pending_disc, Len(text) + 1, LineOf(Len(segments)))

\* A mark is judged by the text before its line, which stays.
LEMMA MarkStays ==
    ASSUME NEW l \in Lines, text \in Seq(Lines), text' = Append(text, l),
           NEW n \in Nat, n = Len(text), NEW i \in 1..(n + 1), NEW b, NEW m,
           MarkedRight(b, i, m)
    PROVE  MarkedRight(b, i, m)'
  <1>1. \A tags : Before(i, tags)' = Before(i, tags)
    BY LineMore
  <1>2. /\ Before(i, {"disc"})' = Before(i, {"disc"})
        /\ Before(i, {"uri"})' = Before(i, {"uri"})
    BY <1>1
  <1> QED BY <1>2 DEF MarkedRight

\* What a line does to the mark for the line behind it.
LEMMA MarkMoves ==
    ASSUME NEW l \in Lines, text \in Seq(Lines), text' = Append(text, l),
           NEW n \in Nat, n = Len(text), NEW b \in BOOLEAN, NEW c \in BOOLEAN,
           NEW m \in 0..n, MarkedRight(b, n + 1, m),
           l.t = "disc" => c,
           l.t = "uri" /\ c => b,
           l.t \notin {"disc", "uri"} => c = b
    PROVE  MarkedRight(c, n + 2, m)'
  <1>1. \A tags : Before(n + 2, tags)' =
            IF l.t \in tags THEN Before(n + 1, tags) \cup {n + 1} ELSE Before(n + 1, tags)
    BY LineMore
  <1>2. \A tags : Before(n + 1, tags) \subseteq 1..n
    BY DEF Before
  <1>3. PICK D, E, U, V : /\ D = Before(n + 1, {"disc"}) /\ E = Before(n + 2, {"disc"})'
                          /\ U = Before(n + 1, {"uri"}) /\ V = Before(n + 2, {"uri"})'
    OBVIOUS
  <1>4. /\ D \subseteq 1..n /\ U \subseteq 1..n
        /\ E = (IF l.t = "disc" THEN D \cup {n + 1} ELSE D)
        /\ V = (IF l.t = "uri" THEN U \cup {n + 1} ELSE U)
    BY <1>1, <1>2, <1>3
  <1>5. /\ b => \E j \in D : m < j
        /\ (\E j \in D : \A u \in U : u < j) => b
    BY <1>3, Zenon DEF MarkedRight
  <1>6. /\ c => \E j \in E : m < j
        /\ (\E j \in E : \A u \in V : u < j) => c
    <2>1. CASE l.t = "disc"
      <3>1. n + 1 \in E /\ m < n + 1
        BY <1>4, <2>1
      <3> QED BY <2>1, <3>1
    <2>2. CASE l.t = "uri"
      <3>1. n + 1 \in V /\ E = D
        BY <1>4, <2>2
      <3>2. \A j \in E : ~(n + 1 < j)
        BY <1>4, <3>1
      <3> QED BY <1>5, <2>2, <3>1, <3>2
    <2>3. CASE l.t \notin {"disc", "uri"}
      <3>1. E = D /\ V = U /\ c = b
        BY <1>4, <2>3
      <3> QED BY <1>5, <3>1
    <2> QED BY <2>1, <2>2, <2>3
  <1> QED BY <1>3, <1>6, Zenon DEF MarkedRight

\* The segments handed over come from lines already read.
LEMMA LinesRead ==
    ASSUME M3u8Inv
    PROVE  /\ Len(segments) \in Nat /\ LineOf(Len(segments)) \in 0..Len(text)
           /\ \A k \in 1..Len(segments) : segments[k].line \in 1..Len(text)
  <1>1. \A k \in 1..Len(segments) : segments[k].line \in 1..Len(text)
    BY DEF M3u8Inv, Published
  <1>2. Len(segments) \in Nat
    BY ListGrows DEF M3u8Inv, M3u8Typed
  <1>3. Len(text) \in Nat
    BY DEF M3u8Inv, M3u8Typed
  <1> QED BY <1>1, <1>2, <1>3 DEF LineOf

\* The marks given stay right, whatever is read behind them.
LEMMA MarksStay ==
    ASSUME M3u8Inv, BreakInv, NEW l \in Lines, text' = Append(text, l),
           \A k \in 1..Len(segments) : segments'[k] = segments[k],
           NEW k \in 1..Len(segments)
    PROVE  MarkedRight(segments[k].discontinuity, segments[k].line, LineOf(k - 1))'
  <1>1. PICK n \in Nat : n = Len(text)
    BY DEF M3u8Inv, M3u8Typed
  <1>2. PICK b, i, m : /\ b = segments[k].discontinuity /\ i = segments[k].line
                       /\ m = LineOf(k - 1)
    OBVIOUS
  <1>3. i \in 1..(n + 1)
    BY <1>1, <1>2, LinesRead
  <1>4. MarkedRight(b, i, m)
    BY <1>2, Zenon DEF BreakInv
  <1>5. MarkedRight(b, i, m)'
    BY <1>1, <1>3, <1>4, MarkStays DEF M3u8Inv, M3u8Typed
  <1>6. LineOf(k - 1)' = LineOf(k - 1)
    <2>1. k - 1 = 0 \/ k - 1 \in 1..Len(segments)
      BY LinesRead
    <2> QED BY <2>1 DEF LineOf
  <1>7. b = segments'[k].discontinuity /\ i = segments'[k].line /\ m = LineOf(k - 1)'
    BY <1>2, <1>6
  <1> QED BY <1>5, <1>7, Zenon

\* A line that adds no segment.
LEMMA QuietBreaks ==
    ASSUME M3u8Inv, BreakInv, rc = "more", NEW l \in Lines, text' = Append(text, l),
           segments' = segments, pending_disc' \in BOOLEAN,
           l.t = "disc" => pending_disc',
           l.t = "uri" /\ pending_disc' => pending_disc,
           l.t \notin {"disc", "uri"} => pending_disc' = pending_disc
    PROVE  BreakInv'
  <1>1. PICK n \in Nat : n = Len(text) /\ Len(text') = n + 1
    BY LineMore DEF M3u8Inv, M3u8Typed
  <1>2. PICK b, c, m : b = pending_disc /\ c = pending_disc' /\ m = LineOf(Len(segments))
    OBVIOUS
  <1>3. m \in 0..n /\ b \in BOOLEAN /\ c \in BOOLEAN
    BY <1>1, <1>2, LinesRead DEF BreakInv
  <1>4. MarkedRight(b, n + 1, m)
    BY <1>1, <1>2, Zenon DEF BreakInv
  <1>5. MarkedRight(c, n + 2, m)'
    BY <1>1, <1>2, <1>3, <1>4, MarkMoves DEF M3u8Inv, M3u8Typed
  <1>6. Len(text') + 1 = n + 2 /\ m = LineOf(Len(segments))'
    BY <1>1, <1>2 DEF LineOf
  <1>7. MarkedRight(pending_disc, Len(text) + 1, LineOf(Len(segments)))'
    BY <1>2, <1>5, <1>6, Zenon
  <1>8. \A k \in 1..Len(segments') :
            MarkedRight(segments[k].discontinuity, segments[k].line, LineOf(k - 1))'
    BY MarksStay
  <1> QED BY <1>7, <1>8, Zenon DEF BreakInv

\* An address that is handed over as a segment.
LEMMA SegmentBreaks ==
    ASSUME M3u8Inv, BreakInv, rc = "more", NEW l \in Lines, text' = Append(text, l),
           l.t = "uri", NEW s, segments' = Append(segments, s), s.line = Len(text) + 1,
           s.discontinuity = pending_disc, pending_disc' = FALSE
    PROVE  BreakInv'
  <1>1. PICK n \in Nat : n = Len(text) /\ Len(text') = n + 1
    BY LineMore DEF M3u8Inv, M3u8Typed
  <1>2. PICK b, N, m : b = pending_disc /\ N = Len(segments) /\ m = LineOf(N)
    OBVIOUS
  <1>3. /\ N \in Nat /\ Len(segments') = N + 1 /\ segments'[N + 1] = s
        /\ \A k \in 1..N : segments'[k] = segments[k]
    BY <1>2, ListGrows DEF M3u8Inv, M3u8Typed
  <1>4. m \in 0..n /\ b \in BOOLEAN
    BY <1>1, <1>2, LinesRead DEF BreakInv
  <1>5. MarkedRight(b, n + 1, m)
    BY <1>1, <1>2, Zenon DEF BreakInv
  <1>6. LineOf(N)' = m
    BY <1>2, <1>3 DEF LineOf
  <1>7. MarkedRight(segments[N + 1].discontinuity, segments[N + 1].line, LineOf(N))'
    <2>1. MarkedRight(b, n + 1, m)'
      <3>1. n + 1 \in 1..(n + 1)
        OBVIOUS
      <3> QED BY <1>1, <1>5, <3>1, MarkStays DEF M3u8Inv, M3u8Typed
    <2>2. b = segments'[N + 1].discontinuity /\ n + 1 = segments'[N + 1].line
      BY <1>1, <1>2, <1>3
    <2> QED BY <1>6, <2>1, <2>2, Zenon
  <1>8. \A k \in 1..Len(segments') :
            MarkedRight(segments[k].discontinuity, segments[k].line, LineOf(k - 1))'
    <2>1. ASSUME NEW k \in 1..(N + 1)
          PROVE  MarkedRight(segments[k].discontinuity, segments[k].line, LineOf(k - 1))'
      <3>1. CASE k \in 1..N
        BY <1>2, <1>3, <3>1, MarksStay
      <3>2. CASE k = N + 1
        <4>1. k - 1 = N
          BY <1>3, <3>2
        <4> QED BY <1>7, <3>2, <4>1, Zenon
      <3> QED BY <1>3, <3>1, <3>2
    <2> QED BY <1>3, <2>1
  <1>9. MarkedRight(pending_disc, Len(text) + 1, LineOf(Len(segments)))'
    <2>1. \A tags : Before(n + 2, tags)' =
              IF l.t \in tags THEN Before(n + 1, tags) \cup {n + 1} ELSE Before(n + 1, tags)
      BY <1>1, LineMore DEF M3u8Inv, M3u8Typed
    <2>2. n + 1 \in Before(n + 2, {"uri"})'
      BY <2>1
    <2>3. \A j \in Before(n + 2, {"disc"})' : ~(n + 1 < j)
      <3>1. Before(n + 2, {"disc"})' = Before(n + 1, {"disc"})
        BY <2>1
      <3> QED BY <3>1 DEF Before
    <2>4. Len(text') + 1 = n + 2
      BY <1>1
    <2> QED BY <2>2, <2>3, <2>4, Zenon DEF MarkedRight
  <1> QED BY <1>8, <1>9, Zenon DEF BreakInv

\* Every line of a playlist.
LEMMA ReadBreaks ==
    ASSUME M3u8Inv, BreakInv, rc = "more", NEW l \in Lines, text' = Append(text, l),
           Header(l) \/ Tagged(l) \/ Addressed(l)
    PROVE  BreakInv'
  <1>0. pending_disc \in BOOLEAN
    BY DEF BreakInv
  <1>1. CASE Header(l) \/ Tagged(l)
    <2>1. /\ segments' = segments
          /\ l.t = "disc" => pending_disc' = TRUE
          /\ l.t # "disc" => pending_disc' = pending_disc
          /\ l.t # "uri"
      BY <1>1 DEF Header, Tagged, Comment, Extinf, StreamInf, TargetDuration, MediaSequence,
                  PlaylistBreak, EndList, KeyTag, pending, playlist
    <2> QED BY <1>0, <2>1, QuietBreaks
  <1>2. CASE Unannounced(l) \/ Unresolvable(l) \/ Variant(l)
    <2>1. /\ l.t = "uri" /\ segments' = segments
          /\ pending_disc' = pending_disc \/ pending_disc' = FALSE
      BY <1>0, <1>2 DEF Unannounced, Unresolvable, Variant, Uri, pending
    <2>2. pending_disc' \in BOOLEAN /\ (pending_disc' => pending_disc)
      <3>1. CASE pending_disc' = pending_disc
        <4>1. PICK b \in BOOLEAN : b = pending_disc
          BY <1>0
        <4>2. b = pending_disc'
          BY <3>1, <4>1
        <4> QED BY <4>1, <4>2
      <3>2. CASE pending_disc' = FALSE
        BY <3>2
      <3> QED BY <2>1, <3>1, <3>2
    <2>3. l.t # "disc" /\ l.t \in {"disc", "uri"}
      BY <2>1
    <2> QED BY <2>1, <2>2, <2>3, QuietBreaks, Zenon
  <1>3. CASE Segment(l)
    <2>1. PICK s : s = [line |-> Len(text) + 1, seq |-> next_seq, discontinuity |-> pending_disc,
                        encrypted |-> key.enc, key_uri |-> key.uri, iv |-> Iv(next_seq)]
      OBVIOUS
    <2>2. /\ segments' = Append(segments, s) /\ pending_disc' = FALSE /\ l.t = "uri"
      BY <1>3, <2>1 DEF Segment, Uri
    <2>3. s.line = Len(text) + 1 /\ s.discontinuity = pending_disc
      BY <2>1
    <2> QED BY <2>2, <2>3, SegmentBreaks
  <1> QED BY <1>1, <1>2, <1>3, Zenon DEF Addressed

\* Where the text and the segments stay, so do the marks.
LEMMA BreaksRest ==
    ASSUME M3u8Inv, BreakInv, UNCHANGED <<text, segments, pending_disc>>,
           rc' = "more" => rc = "more"
    PROVE  BreakInv'
  <1>1. \A i, tags : Before(i, tags)' = Before(i, tags)
    BY DEF Before
  <1>2. \A k : LineOf(k)' = LineOf(k)
    BY DEF LineOf
  <1>3. \A b, i, m : MarkedRight(b, i, m)' = MarkedRight(b, i, m)
    BY <1>1, Zenon DEF MarkedRight
  <1>4. ASSUME NEW k \in 1..Len(segments')
        PROVE  MarkedRight(segments[k].discontinuity, segments[k].line, LineOf(k - 1))'
    <2>1. PICK b, i, m : /\ b = segments[k].discontinuity /\ i = segments[k].line
                         /\ m = LineOf(k - 1)
      OBVIOUS
    <2>2. MarkedRight(b, i, m)
      BY <2>1, Zenon DEF BreakInv
    <2>3. MarkedRight(b, i, m)'
      BY <1>3, <2>2
    <2>4. b = segments'[k].discontinuity /\ i = segments'[k].line /\ m = LineOf(k - 1)'
      BY <1>2, <2>1
    <2> QED BY <2>3, <2>4, Zenon
  <1>5. ASSUME rc' = "more"
        PROVE  MarkedRight(pending_disc, Len(text) + 1, LineOf(Len(segments)))'
    <2>1. PICK b, i, m : b = pending_disc /\ i = Len(text) + 1 /\ m = LineOf(Len(segments))
      OBVIOUS
    <2>2. MarkedRight(b, i, m)
      BY <1>5, <2>1, Zenon DEF BreakInv
    <2>3. MarkedRight(b, i, m)'
      BY <1>3, <2>2
    <2>4. b = pending_disc' /\ i = Len(text') + 1 /\ m = LineOf(Len(segments))'
      BY <1>2, <2>1
    <2> QED BY <2>3, <2>4, Zenon
  <1> QED BY <1>4, <1>5, Zenon DEF BreakInv

\* Every step keeps the marks right.
LEMMA BreakStep == M3u8Inv /\ BreakInv /\ [Next]_vars => BreakInv'
  <1> SUFFICES ASSUME M3u8Inv, BreakInv, [Next]_vars PROVE BreakInv'
    OBVIOUS
  <1>1. CASE ReadLine
    <2>1. PICK l \in Lines :
             /\ rc = "more" /\ text' = Append(text, l)
             /\ BadLine(l) \/ Header(l) \/ Tagged(l) \/ Addressed(l)
      BY <1>1 DEF ReadLine
    <2>2. CASE BadLine(l)
      <3>1. rc' # "more" /\ segments' = <<>> /\ pending_disc' = pending_disc
        BY <2>2 DEF BadLine, Discarded, pending
      <3>2. Len(segments') = 0
        BY <3>1
      <3> QED BY <3>1, <3>2 DEF BreakInv
    <2> QED BY <2>1, <2>2, ReadBreaks
  <1>2. CASE TextEnds
    <2>1. UNCHANGED <<text, segments, pending_disc>> /\ rc = "more"
      BY <1>2 DEF TextEnds, parsing, pending, playlist
    <2> QED BY <2>1, BreaksRest
  <1>3. CASE UNCHANGED m3u8Vars
    BY <1>3, BreaksRest DEF m3u8Vars, parsing, pending, playlist
  <1> QED BY <1>1, <1>2, <1>3, Zenon DEF Next, M3u8Next, vars

\* The marks are always right.
LEMMA BreaksAlways == Spec => []BreakInv
  <1>1. Init => BreakInv
    <2> SUFFICES ASSUME M3u8Start PROVE BreakInv
      BY Zenon DEF Init
    <2>1. text = <<>> /\ segments = <<>> /\ pending_disc = FALSE
      BY DEF M3u8Start
    <2>2. Len(segments) = 0 /\ Len(text) + 1 = 1
      BY <2>1
    <2>3. \A tags : Before(1, tags) = {}
      BY DEF Before
    <2>4. MarkedRight(pending_disc, Len(text) + 1, LineOf(Len(segments)))
      BY <2>1, <2>2, <2>3 DEF MarkedRight
    <2>5. pending_disc \in BOOLEAN
      BY <2>1, Zenon
    <2>6. \A k \in 1..Len(segments) : FALSE
      <3>1. \A k \in 1..0 : FALSE
        OBVIOUS
      <3> QED BY <2>2, <3>1, Zenon
    <2> QED BY <2>4, <2>5, <2>6, Zenon DEF BreakInv
  <1>2. M3u8Inv /\ BreakInv /\ [Next]_vars => BreakInv'
    BY BreakStep
  <1> QED BY <1>1, <1>2, M3u8Always, PTL DEF Spec

\* PublishedAsServed for every playlist, of any length and in any order of its lines: what
\* m3u8_parse hands over has the numbers, breaks, keys and IVs of the server,
\* m3u8_pick_variant's choice is the cheapest, and what is no playlist yields nothing.
THEOREM PlaylistsAreRead == Spec => []PublishedAsServed
  <1>1. M3u8Inv /\ BreakInv => PublishedAsServed
    <2> SUFFICES ASSUME M3u8Inv, BreakInv PROVE PublishedAsServed
      OBVIOUS
    <2>1. IsList(segments) /\ IsList(variants)
          /\ \A i \in 1..Len(variants) : variants[i].bandwidth \in Nat
      BY DEF M3u8Inv, M3u8Typed
    <2>2. /\ DOMAIN segments = 1..Len(segments)
          /\ DOMAIN variants = 1..Len(variants) /\ Len(variants) \in Nat
          /\ Len(variants) = 0 => variants = <<>>
      <3>1. PICK S : segments \in Seq(S)
        BY <2>1 DEF IsList
      <3>2. PICK V : variants \in Seq(V)
        BY <2>1 DEF IsList
      <3> QED BY <3>1, <3>2
    <2>3. ASSUME NEW i \in DOMAIN segments
          PROVE  segments[i].seq = ServersNumber(segments[i].line) /\ KeyedBySource(segments[i])
      <3>1. Published(segments[i])
        BY <2>2 DEF M3u8Inv
      <3> QED BY <3>1, KeyedIsGiven DEF Published
    <2>4. PickIsLowest
      <3>1. CASE variants = <<>>
        BY <3>1 DEF PickIsLowest
      <3>2. CASE variants # <<>>
        <4>1. PICK N : N = Len(variants)
          OBVIOUS
        <4>2. N \in Nat /\ N > 0 /\ DOMAIN variants = 1..N
              /\ \A i \in 1..N : variants[i].bandwidth \in Nat
          BY <2>1, <2>2, <3>2, <4>1
        <4> QED BY <4>1, <4>2, CheapestPicked
      <3> QED BY <3>1, <3>2
    <2>5. BreaksTagged
      BY <2>2, Zenon DEF BreaksTagged, BreakInv
    <2> QED BY <2>3, <2>4, <2>5 DEF PublishedAsServed, M3u8Inv
  <1> QED BY <1>1, M3u8Always, BreaksAlways, PTL

-----------------------------------------------------------------------------
(* The ADTS scanner                                                        *)

\* The types; and drain leaves nothing to take of a chunk behind a buffer that is not full.
ScanInv ==
    /\ stream \in Seq(AdtsUnit) /\ breaks \in Nat
    /\ at \in Nat /\ rest \in Nat /\ at + rest <= Len(stream) /\ heard \in 0..at
    /\ step \in {"out", "fill", "drain"} /\ n0 \in 0..SCAN_CAP
    /\ scan \in Seq(AdtsUnit) /\ Len(scan) <= SCAN_CAP /\ skip_left \in 0..ID3_MAX
    /\ locked \in BOOLEAN /\ stopped \in BOOLEAN /\ failed = FALSE
    /\ step = "drain" /\ rest > 0 => n0 = SCAN_CAP

\* What is left behind the first n units.
LEMMA AfterIs ==
    ASSUME NEW S, NEW p \in Seq(S), NEW n \in Nat
    PROVE  /\ After(p, n) \in Seq(S)
           /\ Len(After(p, n)) = IF n <= Len(p) THEN Len(p) - n ELSE 0
  <1>1. Len(p) \in Nat /\ n + 1 \in Nat /\ \A i \in (n + 1)..Len(p) : i \in 1..Len(p) /\ p[i] \in S
    BY LenProperties, ElementOfSeq
  <1>2. CASE n <= Len(p)
    BY <1>1, <1>2, SubSeqProperties DEF After
  <1>3. CASE ~(n <= Len(p))
    <2>1. SubSeq(p, n + 1, Len(p)) = <<>>
      BY <1>1, <1>3, SubSeqProperties
    <2> QED BY <1>3, <2>1, EmptySeq DEF After
  <1> QED BY <1>2, <1>3

\* The lengths a header declares; a frame and what has to follow it fit in the buffer.
LEMMA Declared ==
    ASSUME NEW p \in Seq(AdtsUnit)
    PROVE  /\ adts_len(p) \in Nat
           /\ adts_len(p) # 0 => adts_len(p) + ADTS_LOOK <= SCAN_CAP
           /\ id3_len(p) \in 0..ID3_MAX
  <1>0. ADTS_HDR \in Nat /\ ADTS_LOOK \in Nat /\ ADTS_HDR > 0 /\ ADTS_LOOK > 0 /\ ID3_MAX \in Nat
    BY AdtsAssumption
  <1>1. CASE p = <<>>
    BY <1>0, <1>1 DEF adts_len, id3_len, Begins
  <1>2. CASE p # <<>>
    <2>1. p[1] \in AdtsUnit
      BY <1>2
    <2>2. p[1][3] \in Nat /\ (p[1][1] \in {"frame", "fake"} => p[1][3] + ADTS_LOOK <= SCAN_CAP)
      BY <2>1 DEF AdtsUnit
    <2> QED BY <1>0, <2>2 DEF adts_len, id3_len, Begins, Says
  <1> QED BY <1>1, <1>2

\* A fresh scanner, on any stream.
LEMMA ScanStarts ==
    ASSUME NEW s, s.units \in Seq(AdtsUnit), s.breaks \in Nat, AdtsStart(s)
    PROVE  ScanInv
  <1>1. /\ <<>> \in Seq(AdtsUnit) /\ Len(<<>>) = 0
        /\ Len(stream) \in Nat /\ SCAN_CAP \in Nat /\ ID3_MAX \in Nat
    BY AdtsAssumption, EmptySeq DEF AdtsStart
  <1>2. locked \in BOOLEAN /\ stopped \in BOOLEAN
    BY Zenon DEF AdtsStart
  <1> QED BY <1>1, <1>2 DEF AdtsStart, ScanInv

\* The streams of the model, and the one the scanner rests on.
LEMMA ScanInitially == AdtsInit \/ AdtsStart(AdtsIdle) => ScanInv
  <1>1. ASSUME AdtsInit PROVE ScanInv
    <2>1. PICK s \in Streams : AdtsStart(s)
      BY <1>1 DEF AdtsInit
    <2>2. s.units \in Seq(AdtsUnit) /\ s.breaks \in Nat
      BY AdtsAssumption
    <2> QED BY <2>1, <2>2, ScanStarts
  <1>2. ASSUME AdtsStart(AdtsIdle) PROVE ScanInv
    <2>1. AdtsIdle.units \in Seq(AdtsUnit) /\ AdtsIdle.breaks \in Nat
      BY DEF AdtsIdle
    <2> QED BY <1>2, <2>1, ScanStarts
  <1> QED BY <1>1, <1>2

\* A reset.
LEMMA AdtsDiscontinuityKeeps == ASSUME ScanInv, AdtsDiscontinuity PROVE ScanInv'
  <1>1. <<>> \in Seq(AdtsUnit) /\ Len(<<>>) = 0 /\ SCAN_CAP \in Nat /\ ID3_MAX \in Nat
    BY AdtsAssumption, EmptySeq
  <1>2. locked' \in BOOLEAN
    BY Zenon DEF AdtsDiscontinuity
  <1> QED BY <1>1, <1>2 DEF ScanInv, AdtsDiscontinuity

\* A chunk.
LEMMA AdtsFeedKeeps == ASSUME ScanInv, AdtsFeed PROVE ScanInv'
  <1>1. PICK n \in Pieces : rest' = Min({n, Len(stream) - at})
    BY DEF AdtsFeed
  <1>2. n \in Nat /\ Len(stream) \in Nat /\ at < Len(stream)
    BY AdtsAssumption DEF ScanInv, AdtsFeed
  <1>3. Len(stream) - at \in Nat
    BY <1>2 DEF ScanInv
  <1>4. rest' \in Nat /\ at + rest' <= Len(stream)
    BY <1>1, <1>2, <1>3, Capped DEF ScanInv
  <1> QED BY <1>4 DEF ScanInv, AdtsFeed, scanner

\* What is skipped of a tag: in the buffer, then in the chunk.
LEMMA Skipping ==
    ASSUME ScanInv
    PROVE  /\ Inside \in Nat /\ Inside <= skip_left /\ Inside <= Len(scan)
           /\ Passed \in Nat /\ Inside + Passed <= skip_left /\ Passed <= rest
           /\ After(scan, Inside) \in Seq(AdtsUnit)
           /\ Len(After(scan, Inside)) \in Nat /\ Len(After(scan, Inside)) <= SCAN_CAP
  <1>1. skip_left \in Nat /\ Len(scan) \in Nat /\ rest \in Nat /\ SCAN_CAP \in Nat
        /\ scan \in Seq(AdtsUnit) /\ Len(scan) <= SCAN_CAP
    BY AdtsAssumption DEF ScanInv
  <1>2. Inside = IF skip_left <= Len(scan) THEN skip_left ELSE Len(scan)
    BY <1>1, Capped DEF Inside
  <1>3. Inside \in Nat /\ Inside <= skip_left /\ Inside <= Len(scan)
    BY <1>1, <1>2
  <1>4. skip_left - Inside \in Nat
    BY <1>1, <1>3
  <1>5. Passed = IF skip_left - Inside <= rest THEN skip_left - Inside ELSE rest
    BY <1>1, <1>4, Capped DEF Passed
  <1>6. After(scan, Inside) \in Seq(AdtsUnit) /\ Len(After(scan, Inside)) = Len(scan) - Inside
    BY <1>1, <1>3, AfterIs
  <1> QED BY <1>1, <1>3, <1>4, <1>5, <1>6

\* A buffer topped up: if input is left, it is full.
LEMMA FillKeeps == ASSUME ScanInv, Fill PROVE ScanInv'
  <1> DEFINE kept == After(scan, Inside)
             from0 == at + Passed
             k == Min({SCAN_CAP - Len(kept), rest - Passed})
             more == SubSeq(stream, from0 + 1, from0 + k)
  <1>1. /\ scan' = kept \o more /\ at' = from0 + k /\ rest' = rest - Passed - k
        /\ n0' = Len(kept) + k /\ step' = IF Len(kept) + k = 0 THEN "out" ELSE "drain"
        /\ skip_left' = 0 /\ locked' = LockAfterTag
        /\ UNCHANGED <<stream, heard, stopped, failed, breaks>>
    BY DEF Fill
  <1>2. /\ Passed \in Nat /\ Passed <= rest /\ kept \in Seq(AdtsUnit) /\ Len(kept) \in Nat
        /\ Len(kept) <= SCAN_CAP /\ SCAN_CAP \in Nat /\ ID3_MAX \in Nat
    BY Skipping, AdtsAssumption
  <1>3. /\ stream \in Seq(AdtsUnit) /\ at \in Nat /\ rest \in Nat /\ at + rest <= Len(stream)
        /\ Len(stream) \in Nat
    BY DEF ScanInv
  <1> HIDE DEF kept
  <1>4. SCAN_CAP - Len(kept) \in Nat /\ rest - Passed \in Nat
    BY <1>2, <1>3
  <1>5. /\ k \in Nat /\ k <= SCAN_CAP - Len(kept) /\ k <= rest - Passed
        /\ k = SCAN_CAP - Len(kept) \/ k = rest - Passed
    BY <1>4, Capped
  <1> HIDE DEF k
  <1>6. /\ from0 \in Nat /\ from0 + k <= Len(stream)
        /\ \A i \in (from0 + 1)..(from0 + k) : i \in 1..Len(stream)
    BY <1>2, <1>3, <1>5
  <1>7. more \in Seq(AdtsUnit) /\ Len(more) = k
    <2> HIDE DEF from0
    <2>1. from0 + 1 \in Nat /\ from0 + k \in Nat
      BY <1>5, <1>6
    <2>2. \A i \in (from0 + 1)..(from0 + k) : stream[i] \in AdtsUnit
      BY <1>3, <1>6
    <2> QED BY <1>5, <1>6, <2>1, <2>2, SubSeqProperties
  <1> HIDE DEF more
  <1>8. scan' \in Seq(AdtsUnit) /\ Len(scan') = Len(kept) + k
    BY <1>1, <1>2, <1>7, ConcatProperties
  <1>9. at' \in Nat /\ rest' \in Nat /\ at' + rest' <= Len(stream) /\ heard' \in 0..at'
    BY <1>1, <1>2, <1>3, <1>5 DEF ScanInv
  <1>10. n0' \in 0..SCAN_CAP /\ Len(scan') <= SCAN_CAP /\ (rest' > 0 => n0' = SCAN_CAP)
    BY <1>1, <1>2, <1>3, <1>5, <1>8
  <1>11. locked' \in BOOLEAN
    BY <1>1 DEF LockAfterTag, ScanInv
  <1> QED BY <1>1, <1>2, <1>8, <1>9, <1>10, <1>11 DEF ScanInv

\* A chunk that ends inside a tag.
LEMMA SwallowKeeps == ASSUME ScanInv, Swallow PROVE ScanInv'
  <1>1. /\ Inside \in Nat /\ Passed \in Nat /\ Inside + Passed <= skip_left /\ Passed <= rest
        /\ After(scan, Inside) \in Seq(AdtsUnit) /\ Len(After(scan, Inside)) <= SCAN_CAP
    BY Skipping
  <1>2. PICK p : p = After(scan, Inside)
    OBVIOUS
  <1>3. scan' = p /\ p \in Seq(AdtsUnit) /\ Len(p) <= SCAN_CAP
    BY <1>1, <1>2 DEF Swallow
  <1>4. at' \in Nat /\ at' <= Len(stream) /\ heard' \in 0..at'
    BY <1>1 DEF ScanInv, Swallow
  <1>5. skip_left' \in 0..ID3_MAX
    BY <1>1, AdtsAssumption DEF ScanInv, Swallow
  <1> QED BY <1>3, <1>4, <1>5 DEF ScanInv, Swallow

\* drain's turns only shorten the buffer.
LEMMA DropTagKeeps == ASSUME ScanInv, DropTag PROVE ScanInv'
  <1>1. scan \in Seq(AdtsUnit) /\ Len(scan) \in Nat /\ Len(scan) <= SCAN_CAP
    BY DEF ScanInv
  <1>2. Tag \in 0..ID3_MAX /\ ID3_MAX \in Nat /\ SCAN_CAP \in Nat
    BY <1>1, Declared, AdtsAssumption DEF Tag
  <1>3. scan' \in Seq(AdtsUnit) /\ Len(scan') <= SCAN_CAP
    <2>1. Tag \in Nat /\ scan' = After(scan, Tag)
      BY <1>2 DEF DropTag
    <2>2. /\ scan' \in Seq(AdtsUnit)
          /\ Len(scan') = IF Tag <= Len(scan) THEN Len(scan) - Tag ELSE 0
      BY <1>1, <1>2, <2>1, AfterIs
    <2> QED BY <1>1, <1>2, <2>2
  <1>4. skip_left' \in 0..ID3_MAX
    BY <1>1, <1>2 DEF DropTag
  <1> QED BY <1>3, <1>4 DEF ScanInv, DropTag

\* A frame is taken off the front of the buffer.
LEMMA EmitFrameKeeps == ASSUME ScanInv, EmitFrame PROVE ScanInv'
  <1>1. scan \in Seq(AdtsUnit) /\ Len(scan) \in Nat /\ Len(scan) <= SCAN_CAP
    BY DEF ScanInv
  <1>2. adts_len(scan) \in Nat /\ SCAN_CAP \in Nat
    BY <1>1, Declared, AdtsAssumption
  <1>3. scan' \in Seq(AdtsUnit) /\ Len(scan') <= SCAN_CAP
    <2>1. scan' = After(scan, adts_len(scan))
      BY DEF EmitFrame
    <2>2. /\ scan' \in Seq(AdtsUnit)
          /\ Len(scan') = IF adts_len(scan) <= Len(scan) THEN Len(scan) - adts_len(scan) ELSE 0
      BY <1>1, <1>2, <2>1, AfterIs
    <2> QED BY <1>1, <1>2, <2>2
  <1>4. locked' \in BOOLEAN /\ stopped' \in BOOLEAN
    BY Zenon DEF EmitFrame, ScanInv
  <1> QED BY <1>3, <1>4 DEF ScanInv, EmitFrame

\* One byte is passed over.
LEMMA SkipUnitKeeps == ASSUME ScanInv, SkipUnit PROVE ScanInv'
  <1>1. scan \in Seq(AdtsUnit) /\ scan # <<>> /\ Len(scan) <= SCAN_CAP /\ SCAN_CAP \in Nat
    BY AdtsAssumption DEF ScanInv, SkipUnit, Draining
  <1>2. Tail(scan) \in Seq(AdtsUnit) /\ Len(Tail(scan)) = Len(scan) - 1 /\ Len(scan) \in Nat
    BY <1>1
  <1>3. scan' \in Seq(AdtsUnit) /\ Len(scan') <= SCAN_CAP
    BY <1>1, <1>2 DEF SkipUnit
  <1>4. locked' \in BOOLEAN
    BY DEF SkipUnit, ScanInv
  <1> QED BY <1>3, <1>4 DEF ScanInv, SkipUnit

\* "the buffer is full without a decision being possible, which the capacity rules out"
LEMMA DrainEndsKeeps == ASSUME ScanInv, DrainEnds PROVE ScanInv'
  <1>1. scan \in Seq(AdtsUnit) /\ Len(scan) \in Nat /\ rest \in Nat /\ step = "drain"
    BY DEF ScanInv, DrainEnds
  <1>2. SCAN_CAP \in Nat /\ SCAN_CAP > 0 /\ ADTS_LOOK \in Nat /\ ADTS_HDR \in Nat
        /\ ADTS_HDR <= ADTS_LOOK /\ ADTS_LOOK <= SCAN_CAP
    BY AdtsAssumption
  <1>3. ~(Len(scan) = n0 /\ rest > 0)
    <2> SUFFICES ASSUME Len(scan) = n0, rest > 0 PROVE FALSE
      OBVIOUS
    <2>1. Len(scan) = SCAN_CAP
      BY <1>1 DEF ScanInv
    <2>2. Undecided
      BY <1>1, <1>2, <2>1 DEF DrainEnds
    <2>3. /\ adts_len(scan) \in Nat
          /\ adts_len(scan) # 0 => adts_len(scan) + ADTS_LOOK <= SCAN_CAP
      BY <1>1, Declared
    <2>4. ~(Len(scan) < ADTS_LOOK) /\ ~(Len(scan) < ADTS_HDR)
      BY <1>2, <2>1
    <2>5. adts_len(scan) # 0
          /\ Len(scan) < adts_len(scan) + (IF locked THEN 0 ELSE ADTS_LOOK)
      BY <2>2, <2>4 DEF Undecided
    <2> QED BY <1>2, <2>1, <2>3, <2>5
  <1>4. failed' = FALSE
    BY <1>3 DEF DrainEnds
  <1>5. rest' \in Nat /\ at' + rest' <= Len(stream) /\ step' \in {"out", "fill"}
    BY <1>1 DEF ScanInv, DrainEnds
  <1> QED BY <1>4, <1>5 DEF ScanInv, DrainEnds, scanner

\* Every step of the scanner keeps its invariant.
LEMMA ScanStep == ScanInv /\ AdtsNext => ScanInv'
  BY AdtsDiscontinuityKeeps, AdtsFeedKeeps, FillKeeps, SwallowKeeps, DropTagKeeps,
     EmitFrameKeeps, SkipUnitKeeps, DrainEndsKeeps, Zenon DEF AdtsNext

\* And so does every step of another component.
LEMMA ScanRests == ScanInv /\ UNCHANGED adtsVars => ScanInv'
  BY DEF ScanInv, adtsVars, scanner

\* The scanner's invariant always holds.
LEMMA ScanAlways == Spec => []ScanInv
  <1>1. Init => ScanInv
    BY ScanInitially, Zenon DEF Init
  <1>2. ScanInv /\ [Next]_vars => ScanInv'
    BY ScanStep, ScanRests, Zenon DEF Next, vars
  <1> QED BY <1>1, <1>2, PTL DEF Spec

\* adts_scan_feed never fails, whatever arrives and however it is cut: "the buffer is full
\* without a decision being possible, which the capacity rules out" (adts_scan.c:230).
THEOREM ScannerNeverFails == Spec => []~failed
  <1>1. ScanInv => ~failed
    BY DEF ScanInv
  <1> QED BY <1>1, ScanAlways, PTL

-----------------------------------------------------------------------------
(* The ADTS scanner: whole frames, each once, in order                     *)

\* Where the next unit to be judged is in the stream.
Cursor == at - Len(scan) + skip_left + 1

\* The buffer is a stretch of what was fed since the reset, and empty inside a long tag.
Window ==
    /\ Len(scan) <= at - heard
    /\ \A i \in 1..Len(scan) : scan[i] = stream[at - Len(scan) + i]
    /\ skip_left > 0 => scan = <<>>

\* The emitted items are real, each later than the one before, all of them passed.
Ascending ==
    /\ \A i \in 1..Len(frames) : frames[i] > (IF i = 1 THEN 0 ELSE frames[i - 1])
    /\ frames # <<>> =>
           \E p \in Heads("frame") : p < Cursor /\ frames[Len(frames)] = stream[p][4]

\* The frames that had to be emitted so far are.
Done == \A q \in Sure : q < Cursor => \E i \in 1..Len(frames) : frames[i] = stream[q][4]

\* None of them is being looked into, and behind one the scanner is in sync.
Aligned ==
    /\ \A p \in Sure : ~(p < Cursor /\ Cursor < p + stream[p][3])
    /\ \A p \in Followed : p + stream[p][3] = Cursor /\ Cursor \in Free => locked /\ skip_left = 0
    /\ locked /\ skip_left = 0 => InSync(stream, Cursor)

PlaceInv ==
    /\ OnAirRight(stream) /\ frames \in Seq(Nat)
    /\ Window /\ Ascending /\ Done /\ Aligned
    /\ step = "out" /\ ~stopped => scan = <<>> \/ Undecided

\* What a header at v promises to who looks no further.
Promising(v) ==
    /\ v[2] = 0
    /\ (v[1] \in {"frame", "fake"} /\ v[3] # 0) \/ (v[1] = "tag" /\ v[3] \in 1..ID3_MAX)

\* The units of the stream, and where a unit's item ends.
LEMMA UnitIs ==
    ASSUME ScanInv, NEW q \in 1..Len(stream)
    PROVE  stream[q] \in AdtsUnit /\ stream[q][2] \in Nat /\ stream[q][3] \in Nat
           /\ stream[q][4] \in Nat
  <1>1. stream[q] \in AdtsUnit
    BY DEF ScanInv
  <1> QED BY <1>1 DEF AdtsUnit

\* The lengths the code compares with.
LEMMA Lengths ==
    /\ ADTS_HDR \in Nat /\ ADTS_HDR > 0 /\ ADTS_LOOK \in Nat /\ ADTS_HDR <= ADTS_LOOK
    /\ SCAN_CAP \in Nat /\ ADTS_LOOK <= SCAN_CAP /\ ID3_MAX \in Nat
  BY AdtsAssumption

\* The next unit to be judged is the front of the buffer.
LEMMA AtCursor ==
    ASSUME ScanInv, Window, scan # <<>>
    PROVE  /\ skip_left = 0 /\ Cursor \in Nat /\ heard < Cursor /\ Cursor <= at
           /\ Len(scan) \in Nat /\ Len(scan) = at - Cursor + 1 /\ at \in Nat /\ at <= Len(stream)
           /\ Len(stream) \in Nat
           /\ \A i \in 1..Len(scan) : scan[i] = stream[Cursor + i - 1]
           /\ scan[1] = stream[Cursor] /\ Cursor \in 1..Len(stream)
  <1>1. /\ at \in Nat /\ rest \in Nat /\ at + rest <= Len(stream) /\ heard \in 0..at
        /\ Len(stream) \in Nat /\ Len(scan) \in Nat /\ Len(scan) > 0 /\ skip_left \in Nat
        /\ Len(scan) <= at - heard
    BY Lengths DEF ScanInv, Window
  <1>2. skip_left = 0
    BY <1>1 DEF Window
  <1>3. Cursor = at - Len(scan) + 1
    BY <1>1, <1>2 DEF Cursor
  <1>4. \A i \in 1..Len(scan) : scan[i] = stream[Cursor + i - 1]
    <2> SUFFICES ASSUME NEW i \in 1..Len(scan) PROVE scan[i] = stream[Cursor + i - 1]
      OBVIOUS
    <2>1. scan[i] = stream[at - Len(scan) + i]
      BY DEF Window
    <2>2. at - Len(scan) + i = Cursor + i - 1
      BY <1>1, <1>3
    <2> QED BY <2>1, <2>2
  <1>5. scan[1] = stream[Cursor]
    <2>1. 1 \in 1..Len(scan) /\ Cursor + 1 - 1 = Cursor
      BY <1>1, <1>3
    <2> QED BY <1>4, <2>1
  <1> QED BY <1>1, <1>2, <1>3, <1>4, <1>5

\* A frame on the air: its units are its own, and the next frame is behind it.
LEMMA FrameIs ==
    ASSUME ScanInv, OnAirRight(stream), NEW q \in 1..Len(stream), Heading(stream[q], "frame")
    PROVE  /\ stream[q][3] \in Nat /\ stream[q][3] >= ADTS_HDR /\ stream[q][3] > 0
           /\ stream[q][4] \in Nat /\ stream[q][4] > 0
           /\ \A r \in 1..Len(stream) :
                 q < r /\ r < q + stream[q][3] =>
                    stream[r][4] = stream[q][4] /\ ~Heading(stream[r], "frame")
           /\ \A r \in 1..Len(stream) :
                 q < r /\ Heading(stream[r], "frame") => stream[r][4] > stream[q][4]
           /\ InSync(stream, q + stream[q][3])
  <1>1. stream[q][3] \in Nat /\ stream[q][4] \in Nat /\ Len(stream) \in Nat
    <2>1. stream[q][3] \in Nat /\ stream[q][4] \in Nat
      BY UnitIs
    <2> QED BY <2>1 DEF ScanInv
  <1>2. /\ stream[q][3] >= ADTS_HDR /\ stream[q][4] > 0
        /\ \A r \in (q + 1)..Min({q + stream[q][3] - 1, Len(stream)}) :
              stream[r][4] = stream[q][4]
        /\ \A r \in (q + 1)..Len(stream) : Heading(stream[r], "frame") => stream[r][4] > stream[q][4]
        /\ InSync(stream, q + stream[q][3])
    <2>1. q \in DOMAIN stream
      BY DEF ScanInv
    <2> QED BY <2>1 DEF OnAirRight
  <1>3. \A r \in 1..Len(stream) : q < r /\ Heading(stream[r], "frame") => stream[r][4] > stream[q][4]
    BY <1>1, <1>2
  <1>4. ASSUME NEW r \in 1..Len(stream), q < r, r < q + stream[q][3]
        PROVE  stream[r][4] = stream[q][4] /\ ~Heading(stream[r], "frame")
    <2>1. q + stream[q][3] - 1 \in Nat
      BY <1>1
    <2>2. Min({q + stream[q][3] - 1, Len(stream)})
             = IF q + stream[q][3] - 1 <= Len(stream) THEN q + stream[q][3] - 1 ELSE Len(stream)
      BY <1>1, <2>1, Capped
    <2>3. r \in (q + 1)..Min({q + stream[q][3] - 1, Len(stream)})
      BY <1>1, <1>4, <2>1, <2>2
    <2>4. stream[r][4] = stream[q][4]
      BY <1>2, <2>3
    <2> QED BY <1>1, <1>3, <1>4, <2>4
  <1> QED BY <1>1, <1>2, <1>3, <1>4, Lengths

\* Bytes inside a frame that read as a header lead to no other.
LEMMA FakeIs ==
    ASSUME ScanInv, OnAirRight(stream), NEW q \in 1..Len(stream), Heading(stream[q], "fake")
    PROVE  /\ stream[q][3] \in Nat /\ stream[q][3] >= ADTS_HDR
           /\ q + stream[q][3] + ADTS_LOOK <= Len(stream) + 1
           /\ ~Promising(stream[q + stream[q][3]])
  <1>1. q \in DOMAIN stream
    BY DEF ScanInv
  <1>2. /\ stream[q][3] >= ADTS_HDR /\ q + stream[q][3] + ADTS_LOOK <= Len(stream) + 1
        /\ ~(Real(stream[q + stream[q][3]]) \/ Heading(stream[q + stream[q][3]], "fake"))
    BY <1>1 DEF OnAirRight
  <1> QED BY <1>2, UnitIs DEF Promising, Real, Heading

\* A tag that fits the buffer ends where the scanner can go on in sync.
LEMMA TagIs ==
    ASSUME ScanInv, OnAirRight(stream), NEW q \in 1..Len(stream), Heading(stream[q], "tag"),
           stream[q][3] \in 1..SCAN_CAP
    PROVE  InSync(stream, q + stream[q][3])
  <1>1. q \in DOMAIN stream
    BY DEF ScanInv
  <1> QED BY <1>1, Zenon DEF OnAirRight

\* The frames that count.
LEMMA SureIs ==
    ASSUME ScanInv, NEW q \in Sure
    PROVE  /\ q \in 1..Len(stream) /\ heard < q /\ Heading(stream[q], "frame")
           /\ q \notin Covered /\ q + stream[q][3] - 1 <= Len(stream)
           /\ q \in Free /\ (q \in Followed \/ \E p \in Followed : p + stream[p][3] = q)
  <1>1. q \in Free /\ (q \in Followed \/ \E p \in Followed : p + stream[p][3] = q)
    BY DEF Sure, Followed
  <1>2. q \in Heads("frame") /\ q \notin Covered /\ q + stream[q][3] - 1 <= Len(stream)
    BY <1>1 DEF Free
  <1>3. heard \in Nat /\ Len(stream) \in Nat
    BY DEF ScanInv
  <1> QED BY <1>1, <1>2, <1>3 DEF Heads, Heading

\* Looking behind the first n units of a buffer.
LEMMA LookingAt ==
    ASSUME NEW p \in Seq(AdtsUnit), NEW n \in Nat, n + ADTS_LOOK <= Len(p)
    PROVE  /\ Len(After(p, n)) >= ADTS_LOOK
           /\ adts_len(After(p, n)) # 0 \/ id3_len(After(p, n)) # 0 <=> Promising(p[n + 1])
  <1>1. PICK s : s = After(p, n)
    OBVIOUS
  <1>2. s \in Seq(AdtsUnit) /\ Len(s) = Len(p) - n /\ Len(p) \in Nat
    <2>1. s \in Seq(AdtsUnit) /\ Len(s) = IF n <= Len(p) THEN Len(p) - n ELSE 0
      BY <1>1, AfterIs
    <2>2. Len(p) \in Nat /\ n <= Len(p)
      BY Lengths
    <2> QED BY <2>1, <2>2
  <1>3. Len(s) >= ADTS_LOOK /\ Len(s) >= ADTS_HDR /\ s # <<>>
    BY <1>2, Lengths
  <1>4. s[1] = p[n + 1]
    <2>1. \A i \in (n + 1)..Len(p) : p[i] \in AdtsUnit
      BY <1>2
    <2>2. n + 1 <= Len(p) /\ n + 1 \in Nat
      BY <1>2, Lengths
    <2>3. s[1] = p[n + 1 + 1 - 1]
      BY <1>1, <1>2, <2>1, <2>2, SubSeqProperties DEF After
    <2> QED BY <2>2, <2>3
  <1>5. s[1] \in AdtsUnit /\ s[1][3] \in Nat
    <2>1. s[1] \in AdtsUnit
      BY <1>2, <1>3
    <2> QED BY <2>1 DEF AdtsUnit
  <1>6. adts_len(s) # 0 <=> s[1][2] = 0 /\ s[1][1] \in {"frame", "fake"} /\ s[1][3] # 0
    BY <1>3, <1>5 DEF adts_len, Begins, Says
  <1>7. id3_len(s) # 0 <=> s[1][2] = 0 /\ s[1][1] = "tag" /\ s[1][3] \in 1..ID3_MAX
    BY <1>3, <1>5, Lengths DEF id3_len, Begins, Says
  <1> QED BY <1>1, <1>3, <1>4, <1>6, <1>7 DEF Promising

\* What follows such a frame.
LEMMA FollowedIs ==
    ASSUME ScanInv, OnAirRight(stream), NEW q \in Followed
    PROVE  /\ q \in Sure /\ q + stream[q][3] - 1 + ADTS_LOOK <= Len(stream)
           /\ Promising(stream[q + stream[q][3]])
  <1>1. q \in Sure
    BY DEF Sure
  <1>2. q \in 1..Len(stream) /\ stream[q][3] \in Nat /\ stream[q][3] > 0
        /\ Len(stream) \in Nat /\ stream \in Seq(AdtsUnit)
    <2>1. q \in 1..Len(stream) /\ Heading(stream[q], "frame")
      BY <1>1, SureIs
    <2>2. stream[q][3] \in Nat /\ stream[q][3] > 0
      BY <2>1, FrameIs
    <2>3. stream \in Seq(AdtsUnit) /\ Len(stream) \in Nat
      BY DEF ScanInv
    <2> QED BY <2>1, <2>2, <2>3
  <1>3. PICK n : n = q + stream[q][3] - 1
    OBVIOUS
  <1>4. n \in Nat /\ n + 1 = q + stream[q][3]
    BY <1>2, <1>3
  <1>5. /\ Len(After(stream, n)) >= ADTS_LOOK
        /\ adts_len(After(stream, n)) # 0 \/ id3_len(After(stream, n)) # 0
    BY <1>3 DEF Followed
  <1>6. n + ADTS_LOOK <= Len(stream)
    <2>1. Len(After(stream, n)) = IF n <= Len(stream) THEN Len(stream) - n ELSE 0
      BY <1>2, <1>4, AfterIs
    <2> QED BY <1>2, <1>4, <1>5, <2>1, Lengths
  <1>7. Promising(stream[n + 1])
    BY <1>2, <1>4, <1>5, <1>6, LookingAt
  <1> QED BY <1>1, <1>3, <1>4, <1>6, <1>7

\* The header at the cursor, once all of it is there.
LEMMA HeaderAt ==
    ASSUME ScanInv, OnAirRight(stream), Window, scan # <<>>
    PROVE  /\ IsFF(scan) <=> \E k \in {"frame", "fake", "bad"} : Heading(stream[Cursor], k)
           /\ adts_len(scan) # 0 =>
                 /\ Len(scan) >= ADTS_HDR /\ adts_len(scan) = stream[Cursor][3]
                 /\ Heading(stream[Cursor], "frame") \/ Heading(stream[Cursor], "fake")
           /\ Len(scan) >= ADTS_HDR
              /\ (Heading(stream[Cursor], "frame") \/ Heading(stream[Cursor], "fake")) =>
                 adts_len(scan) = stream[Cursor][3] /\ adts_len(scan) # 0
  <1>1. scan[1] = stream[Cursor] /\ Cursor \in 1..Len(stream)
    BY AtCursor
  <1>2. Heading(stream[Cursor], "frame") \/ Heading(stream[Cursor], "fake") =>
           stream[Cursor][3] \in Nat /\ stream[Cursor][3] >= ADTS_HDR
    BY <1>1, FrameIs, FakeIs
  <1> QED BY <1>1, <1>2, Lengths DEF adts_len, IsFF, Begins, Says, Heading

\* A frame that counts is never passed over.
LEMMA NotPassed ==
    ASSUME ScanInv, PlaceInv, scan # <<>>, ~Undecided, ~Accepted
    PROVE  Cursor \notin Sure
  <1> SUFFICES ASSUME Cursor \in Sure PROVE FALSE
    OBVIOUS
  <1>1. /\ Cursor \in 1..Len(stream) /\ Heading(stream[Cursor], "frame") /\ Cursor \in Free
        /\ Cursor \in Followed \/ \E p \in Followed : p + stream[p][3] = Cursor
    BY SureIs
  <1>2. OnAirRight(stream) /\ Window /\ Aligned
    BY DEF PlaceInv
  <1>3. IsFF(scan) /\ Len(scan) \in Nat /\ Len(scan) >= ADTS_HDR
    <2>1. IsFF(scan)
      BY <1>1, <1>2, HeaderAt
    <2>2. Len(scan) \in Nat
      BY DEF ScanInv
    <2> QED BY <2>1, <2>2, Lengths DEF Undecided
  <1>4. adts_len(scan) = stream[Cursor][3] /\ adts_len(scan) # 0
    BY <1>1, <1>2, <1>3, HeaderAt
  <1>5. ~locked /\ ~FollowedByReal
    BY <1>4 DEF Accepted
  <1>6. adts_len(scan) + ADTS_LOOK <= Len(scan) /\ adts_len(scan) \in Nat
    <2>1. adts_len(scan) \in Nat
      BY Declared DEF ScanInv
    <2>2. ~(Len(scan) < adts_len(scan) + ADTS_LOOK)
      BY <1>4, <1>5 DEF Undecided
    <2> QED BY <1>3, <2>1, <2>2, Lengths
  <1>7. ~Promising(scan[adts_len(scan) + 1])
    BY <1>5, <1>6, LookingAt DEF FollowedByReal, ScanInv
  <1>8. scan[adts_len(scan) + 1] = stream[Cursor + stream[Cursor][3]]
    <2>1. \A i \in 1..Len(scan) : scan[i] = stream[Cursor + i - 1]
      BY <1>2, AtCursor
    <2>2. adts_len(scan) + 1 \in 1..Len(scan)
      BY <1>3, <1>6, Lengths
    <2>3. scan[adts_len(scan) + 1] = stream[Cursor + (adts_len(scan) + 1) - 1]
      BY <2>1, <2>2
    <2>4. Cursor + (adts_len(scan) + 1) - 1 = Cursor + stream[Cursor][3]
      BY <1>1, <1>4, <1>6
    <2> QED BY <2>3, <2>4
  <1>9. Cursor \notin Followed
    BY <1>2, <1>7, <1>8, FollowedIs
  <1>10. locked
    BY <1>1, <1>2, <1>9 DEF Aligned
  <1> QED BY <1>5, <1>10

\* What is emitted is a frame, and all of it is there.
LEMMA RealOnly ==
    ASSUME ScanInv, PlaceInv, scan # <<>>, ~Undecided, Accepted
    PROVE  /\ Heading(stream[Cursor], "frame") /\ Cursor \in 1..Len(stream)
           /\ adts_len(scan) = stream[Cursor][3] /\ adts_len(scan) \in Nat
           /\ adts_len(scan) > 0 /\ adts_len(scan) <= Len(scan)
  <1>1. /\ OnAirRight(stream) /\ Window /\ Aligned /\ Cursor \in 1..Len(stream)
        /\ Len(scan) \in Nat /\ skip_left = 0 /\ Len(scan) = at - Cursor + 1
        /\ Len(stream) \in Nat
    BY AtCursor DEF PlaceInv
  <1>2. adts_len(scan) # 0 /\ (locked \/ FollowedByReal)
    BY DEF Accepted
  <1>3. /\ adts_len(scan) = stream[Cursor][3]
        /\ Heading(stream[Cursor], "frame") \/ Heading(stream[Cursor], "fake")
    BY <1>1, <1>2, HeaderAt
  <1>4. adts_len(scan) \in Nat /\ adts_len(scan) > 0
    BY <1>2, Declared DEF ScanInv
  <1>5. adts_len(scan) <= Len(scan) /\ (~locked => adts_len(scan) + ADTS_LOOK <= Len(scan))
    <2>1. ~(Len(scan) < adts_len(scan) + (IF locked THEN 0 ELSE ADTS_LOOK))
      BY <1>2 DEF Undecided
    <2> QED BY <1>1, <1>4, <2>1, Lengths
  <1>6. ~Heading(stream[Cursor], "fake")
    <2> SUFFICES ASSUME Heading(stream[Cursor], "fake") PROVE FALSE
      OBVIOUS
    <2>1. CASE locked
      <3>1. InSync(stream, Cursor)
        BY <1>1, <2>1 DEF Aligned
      <3>2. PICK h \in Cursor..Cursor : Real(stream[h])
        BY <1>1, <3>1 DEF InSync
      <3>3. h = Cursor
        BY <1>1
      <3> QED BY <3>2, <3>3 DEF Real, Heading
    <2>2. CASE ~locked
      <3>1. Promising(scan[adts_len(scan) + 1])
        BY <1>2, <1>4, <1>5, <2>2, LookingAt DEF FollowedByReal, ScanInv
      <3>2. scan[adts_len(scan) + 1] = stream[Cursor + stream[Cursor][3]]
        <4>1. \A i \in 1..Len(scan) : scan[i] = stream[Cursor + i - 1]
          BY <1>1, AtCursor
        <4>2. adts_len(scan) + 1 \in 1..Len(scan)
          BY <1>1, <1>4, <1>5, <2>2, Lengths
        <4>3. scan[adts_len(scan) + 1] = stream[Cursor + (adts_len(scan) + 1) - 1]
          BY <4>1, <4>2
        <4>4. Cursor + (adts_len(scan) + 1) - 1 = Cursor + stream[Cursor][3]
          BY <1>1, <1>3, <1>4
        <4> QED BY <4>3, <4>4
      <3> QED BY <1>1, <3>1, <3>2, FakeIs
    <2> QED BY <2>1, <2>2
  <1> QED BY <1>1, <1>3, <1>4, <1>5, <1>6

\* The frames that count depend on the stream and on where it was last reset.
LEMMA SameFrames ==
    ASSUME UNCHANGED <<stream, heard>>
    PROVE  /\ Sure' = Sure /\ Followed' = Followed /\ Free' = Free
           /\ Heads("frame")' = Heads("frame")
           /\ \A q : InSync(stream', q) <=> InSync(stream, q)
           /\ OnAirRight(stream') <=> OnAirRight(stream)
  <1>1. stream' = stream /\ heard' = heard
    OBVIOUS
  <1>2. Heads("frame")' = Heads("frame") /\ Heads("tag")' = Heads("tag")
    BY <1>1 DEF Heads
  <1>3. Covered' = Covered
    BY <1>1, <1>2 DEF Covered
  <1>4. Free' = Free
    BY <1>1, <1>2, <1>3 DEF Free
  <1>5. Followed' = Followed
    BY <1>1, <1>4 DEF Followed
  <1>6. Sure' = Sure
    BY <1>1, <1>4, <1>5 DEF Sure
  <1> QED BY <1>1, <1>2, <1>4, <1>5, <1>6

\* The cursor moves over n units of the buffer, or over a tag that is longer than it.
LEMMA CursorMoves ==
    ASSUME ScanInv, Window, scan # <<>>, NEW n \in Nat, UNCHANGED <<stream, at, heard>>,
           scan' = After(scan, n),
           skip_left' = IF n > Len(scan) THEN n - Len(scan) ELSE 0
    PROVE  Window' /\ Cursor' = Cursor + n
  <1>1. /\ skip_left = 0 /\ at \in Nat /\ heard \in Nat /\ Len(scan) \in Nat
        /\ Len(scan) <= at - heard /\ scan \in Seq(AdtsUnit)
    BY AtCursor DEF ScanInv, Window
  <1>2. /\ scan' \in Seq(AdtsUnit)
        /\ Len(scan') = IF n <= Len(scan) THEN Len(scan) - n ELSE 0
    BY <1>1, AfterIs
  <1>3. Cursor' = Cursor + n
    <2>1. Cursor = at - Len(scan) + 1
      BY <1>1 DEF Cursor
    <2>2. Cursor' = at - Len(scan') + skip_left' + 1
      BY DEF Cursor
    <2>3. skip_left' - Len(scan') = n - Len(scan)
      BY <1>1, <1>2
    <2>4. Len(scan') \in Nat /\ skip_left' \in Nat
      BY <1>1, <1>2
    <2> QED BY <1>1, <2>1, <2>2, <2>3, <2>4
  <1>4. ASSUME NEW i \in 1..Len(scan') PROVE scan'[i] = stream'[at' - Len(scan') + i]
    <2>1. n <= Len(scan) /\ i \in Nat /\ i >= 1 /\ i <= Len(scan) - n
      BY <1>1, <1>2, <1>4
    <2>2. scan'[i] = scan[n + i]
      <3>1. \A j \in (n + 1)..Len(scan) : scan[j] \in AdtsUnit
        BY <1>1
      <3>2. n + 1 <= Len(scan) /\ n + 1 \in Nat
        BY <1>1, <2>1
      <3>3. scan'[i] = scan[n + 1 + i - 1]
        BY <1>1, <1>2, <1>4, <3>1, <3>2, SubSeqProperties DEF After
      <3> QED BY <2>1, <3>3
    <2>3. n + i \in 1..Len(scan)
      BY <1>1, <2>1
    <2>4. scan[n + i] = stream[at - Len(scan) + (n + i)]
      BY <2>3 DEF Window
    <2>5. at - Len(scan) + (n + i) = at' - Len(scan') + i
      BY <1>1, <1>2, <2>1
    <2> QED BY <2>2, <2>4, <2>5
  <1>5. skip_left' > 0 => scan' = <<>>
    BY <1>1, <1>2, EmptySeq
  <1>6. Len(scan') <= at' - heard'
    BY <1>1, <1>2
  <1> QED BY <1>3, <1>4, <1>5, <1>6 DEF Window

\* A step that leaves the cursor, the sync and the frames alone.
LEMMA StandingStill ==
    ASSUME PlaceInv, UNCHANGED <<stream, heard, frames>>, Window', Cursor' = Cursor,
           locked' /\ skip_left' = 0 <=> locked /\ skip_left = 0,
           step' = "out" /\ ~stopped' => scan' = <<>> \/ Undecided'
    PROVE  PlaceInv'
  <1>1. /\ Sure' = Sure /\ Followed' = Followed /\ Free' = Free
        /\ Heads("frame")' = Heads("frame")
        /\ \A q : InSync(stream', q) <=> InSync(stream, q)
        /\ OnAirRight(stream') <=> OnAirRight(stream)
    BY SameFrames
  <1>2. stream' = stream /\ frames' = frames
    OBVIOUS
  <1>3. Ascending'
    BY <1>1, <1>2 DEF Ascending, PlaceInv
  <1>4. Done'
    BY <1>1, <1>2 DEF Done, PlaceInv
  <1>5. Aligned'
    <2>1. \A p \in Sure' : ~(p < Cursor' /\ Cursor' < p + stream'[p][3])
      BY <1>1, <1>2 DEF Aligned, PlaceInv
    <2>2. \A p \in Followed' :
             p + stream'[p][3] = Cursor' /\ Cursor' \in Free' => locked' /\ skip_left' = 0
      BY <1>1, <1>2 DEF Aligned, PlaceInv
    <2>3. locked' /\ skip_left' = 0 => InSync(stream', Cursor')
      BY <1>1, <1>2 DEF Aligned, PlaceInv
    <2> QED BY <2>1, <2>2, <2>3 DEF Aligned
  <1> QED BY <1>1, <1>2, <1>3, <1>4, <1>5 DEF PlaceInv

\* A step of drain over n units of which none begins a frame that counts.
LEMMA MovingOn ==
    ASSUME ScanInv, PlaceInv, scan # <<>>, NEW n \in Nat, n > 0, UNCHANGED <<stream, heard, frames>>,
           Window', Cursor' = Cursor + n, step' = "drain",
           \A q \in Sure : ~(Cursor <= q /\ q < Cursor + n),
           locked' /\ skip_left' = 0 => InSync(stream, Cursor')
    PROVE  PlaceInv'
  <1>1. /\ Sure' = Sure /\ Followed' = Followed /\ Free' = Free
        /\ Heads("frame")' = Heads("frame")
        /\ \A q : InSync(stream', q) <=> InSync(stream, q)
        /\ OnAirRight(stream') <=> OnAirRight(stream)
    BY SameFrames
  <1>2. /\ stream' = stream /\ frames' = frames /\ Cursor \in Nat
        /\ OnAirRight(stream) /\ Done /\ Aligned /\ Ascending
    BY AtCursor DEF PlaceInv
  <1>3. Ascending'
    <2> SUFFICES ASSUME frames # <<>>
                 PROVE  \E p \in Heads("frame") : p < Cursor' /\ frames[Len(frames)] = stream[p][4]
      BY <1>1, <1>2 DEF Ascending
    <2>1. PICK p \in Heads("frame") : p < Cursor /\ frames[Len(frames)] = stream[p][4]
      BY <1>2 DEF Ascending
    <2>2. p < Cursor'
      <3>1. p \in Nat
        BY DEF Heads, ScanInv
      <3> QED BY <1>2, <2>1, <3>1
    <2> QED BY <2>1, <2>2
  <1>4. \A q \in Sure : q \in Nat /\ stream[q][3] \in Nat /\ (q < Cursor' => q < Cursor)
    <2> TAKE q \in Sure
    <2>1. q \in 1..Len(stream)
      BY SureIs
    <2>2. stream[q][3] \in Nat
      BY <2>1, UnitIs
    <2> QED BY <1>2, <2>1, <2>2
  <1>5. Done'
    BY <1>1, <1>2, <1>4 DEF Done
  <1>6. \A p \in Sure : p < Cursor' => p + stream[p][3] <= Cursor
    <2> SUFFICES ASSUME NEW p \in Sure, p < Cursor' PROVE p + stream[p][3] <= Cursor
      OBVIOUS
    <2>1. ~(p < Cursor /\ Cursor < p + stream[p][3])
      BY <1>2 DEF Aligned
    <2> QED BY <1>2, <1>4, <2>1
  <1>7. Aligned'
    <2>1. \A p \in Sure' : ~(p < Cursor' /\ Cursor' < p + stream'[p][3])
      BY <1>1, <1>2, <1>4, <1>6
    <2>2. ASSUME NEW p \in Followed, p + stream[p][3] = Cursor' PROVE FALSE
      <3>1. p \in Sure /\ stream[p][3] > 0
        <4>1. p \in Sure
          BY DEF Sure
        <4> QED BY <1>2, <4>1, SureIs, FrameIs
      <3> QED BY <1>2, <1>4, <1>6, <2>2, <3>1
    <2> QED BY <1>1, <1>2, <2>1, <2>2 DEF Aligned
  <1> QED BY <1>1, <1>2, <1>3, <1>5, <1>7 DEF PlaceInv

\* A tag is dropped: what it covers has no frame that counts, and only behind one that
\* was in the buffer is the scanner still in sync.
LEMMA DropTagPlaces == ASSUME ScanInv, PlaceInv, DropTag PROVE PlaceInv'
  <1>1. /\ scan # <<>> /\ Tag # 0 /\ scan' = After(scan, Tag)
        /\ skip_left' = (IF Tag > Len(scan) THEN Tag - Len(scan) ELSE 0)
        /\ UNCHANGED <<stream, at, heard, frames>> /\ step' = "drain"
    BY DEF DropTag, Draining
  <1>2. Tag \in Nat /\ Window /\ OnAirRight(stream) /\ Len(scan) \in Nat /\ Len(scan) <= SCAN_CAP
    BY Declared DEF Tag, ScanInv, PlaceInv
  <1>3. Window' /\ Cursor' = Cursor + Tag
    BY <1>1, <1>2, CursorMoves
  <1>4. /\ Cursor \in 1..Len(stream) /\ heard < Cursor /\ scan[1] = stream[Cursor]
        /\ Len(stream) \in Nat /\ heard \in Nat
    <2>1. heard \in Nat
      BY DEF ScanInv
    <2> QED BY <1>1, <1>2, <2>1, AtCursor
  <1>5. Heading(stream[Cursor], "tag") /\ Tag = stream[Cursor][3] /\ Tag <= ID3_MAX
    BY <1>1, <1>4 DEF Tag, id3_len, Begins, Says, Heading
  <1>6. ASSUME NEW q \in Sure, Cursor <= q, q < Cursor + Tag PROVE FALSE
    <2>1. q \in 1..Len(stream) /\ q \notin Covered
      BY SureIs
    <2>2. Cursor \in {t \in Heads("tag") : stream[t][3] <= ID3_MAX}
      BY <1>4, <1>5 DEF Heads, Heading
    <2>3. q \in Cursor..(Cursor + stream[Cursor][3] - 1)
      BY <1>2, <1>4, <1>5, <1>6, <2>1
    <2> QED BY <2>1, <2>2, <2>3 DEF Covered
  <1>7. locked' /\ skip_left' = 0 => InSync(stream, Cursor')
    <2> SUFFICES ASSUME skip_left' = 0 PROVE InSync(stream, Cursor + Tag)
      BY <1>3
    <2>1. Tag <= SCAN_CAP
      BY <1>1, <1>2, Lengths
    <2>2. stream[Cursor][3] \in 1..SCAN_CAP
      BY <1>1, <1>2, <1>5, <2>1, Lengths
    <2> QED BY <1>2, <1>4, <1>5, <2>2, TagIs
  <1> QED BY <1>1, <1>2, <1>3, <1>6, <1>7, MovingOn

\* A unit is passed over: it begins no frame that counts, nor one in sync.
LEMMA SkipUnitPlaces == ASSUME ScanInv, PlaceInv, SkipUnit PROVE PlaceInv'
  <1>1. /\ scan # <<>> /\ ~Undecided /\ Tag = 0 /\ ~Accepted /\ scan' = Tail(scan)
        /\ locked' = (locked /\ ~IsFF(scan)) /\ step' = "drain"
        /\ UNCHANGED <<stream, at, heard, frames, skip_left>>
    BY DEF SkipUnit, Draining
  <1>2. /\ Window /\ OnAirRight(stream) /\ Aligned /\ skip_left = 0 /\ Cursor \in 1..Len(stream)
        /\ scan[1] = stream[Cursor] /\ Len(stream) \in Nat
    BY <1>1, AtCursor DEF PlaceInv
  <1>3. scan \in Seq(AdtsUnit) /\ Len(scan) \in Nat /\ Len(scan) > 0
    BY <1>1 DEF ScanInv
  <1>4. scan' = After(scan, 1)
    BY <1>1, <1>3 DEF After
  <1>5. Window' /\ Cursor' = Cursor + 1
    <2>1. skip_left' = IF 1 > Len(scan) THEN 1 - Len(scan) ELSE 0
      BY <1>1, <1>2, <1>3
    <2> QED BY <1>1, <1>2, <1>4, <2>1, CursorMoves
  <1>6. ASSUME NEW q \in Sure, Cursor <= q, q < Cursor + 1 PROVE FALSE
    <2>1. q = Cursor
      BY <1>2, <1>6, SureIs
    <2> QED BY <1>1, <2>1, NotPassed
  <1>7. locked' /\ skip_left' = 0 => InSync(stream, Cursor')
    <2> SUFFICES ASSUME locked', NEW r \in (Cursor + 1)..Len(stream), Heading(stream[r], "fake")
                 PROVE  \E h \in (Cursor + 1)..r : Real(stream[h])
      BY <1>5 DEF InSync
    <2>1. locked /\ ~IsFF(scan)
      BY <1>1
    <2>2. InSync(stream, Cursor)
      BY <1>2, <2>1 DEF Aligned
    <2>3. r \in Cursor..Len(stream)
      BY <1>2
    <2>4. PICK h \in Cursor..r : Real(stream[h])
      BY <2>2, <2>3 DEF InSync
    <2>5. h # Cursor
      <3> SUFFICES ASSUME Real(stream[Cursor]) PROVE FALSE
        BY <2>4
      <3>1. CASE Heading(stream[Cursor], "frame")
        BY <1>1, <1>2, <2>1, <3>1, HeaderAt
      <3>2. CASE Heading(stream[Cursor], "tag") /\ stream[Cursor][3] \in 1..ID3_MAX
        <4>1. Begins(scan, {"tag"})
          BY <1>1, <1>2, <3>2 DEF Begins, Heading
        <4>2. Len(scan) >= ADTS_LOOK
          BY <1>1, <1>3, <4>1, Lengths DEF Undecided
        <4> QED BY <1>1, <1>2, <3>2, <4>1, <4>2, Lengths DEF Tag, id3_len, Says
      <3> QED BY <3>1, <3>2 DEF Real
    <2> QED BY <1>2, <2>4, <2>5
  <1> QED BY <1>1, <1>5, <1>6, <1>7, MovingOn

\* A frame is emitted: whole, itself, and later than the one before.
LEMMA EmitFramePlaces == ASSUME ScanInv, PlaceInv, EmitFrame PROVE PlaceInv'
  <1> DEFINE f == adts_len(scan)
             item == stream[Cursor][4]
  <1>1. /\ scan # <<>> /\ ~Undecided /\ Accepted /\ locked' = TRUE
        /\ frames' = Append(frames, Emitted) /\ scan' = After(scan, f)
        /\ step' = "out" => stopped' \/ step = "out"
        /\ UNCHANGED <<stream, at, heard, skip_left>> /\ step = "drain"
    BY DEF EmitFrame, Draining
  <1>2. /\ Heading(stream[Cursor], "frame") /\ Cursor \in 1..Len(stream)
        /\ f = stream[Cursor][3] /\ f \in Nat /\ f > 0 /\ f <= Len(scan)
    BY <1>1, RealOnly
  <1>3. /\ OnAirRight(stream) /\ Window /\ Ascending /\ Done /\ Aligned
        /\ frames \in Seq(Nat) /\ Len(frames) \in Nat /\ Len(stream) \in Nat
    BY DEF PlaceInv, ScanInv
  <1>4. /\ skip_left = 0 /\ heard < Cursor /\ Len(scan) \in Nat
        /\ \A i \in 1..Len(scan) : scan[i] = stream[Cursor + i - 1]
    BY <1>1, <1>3, AtCursor
  <1>5. /\ item \in Nat /\ item > 0
        /\ \A r \in 1..Len(stream) :
              Cursor < r /\ r < Cursor + f => stream[r][4] = item /\ ~Heading(stream[r], "frame")
        /\ InSync(stream, Cursor + f)
    BY <1>2, <1>3, FrameIs
  <1> HIDE DEF f, item
  <1>6. Window' /\ Cursor' = Cursor + f
    <2>1. skip_left' = IF f > Len(scan) THEN f - Len(scan) ELSE 0
      BY <1>1, <1>2, <1>4
    <2> QED BY <1>1, <1>2, <1>3, <2>1, CursorMoves
  <1>7. Emitted = item
    <2>1. PICK p : p = SubSeq(scan, 1, f)
      OBVIOUS
    <2>2. scan \in Seq(AdtsUnit) /\ \A i \in 1..f : scan[i] \in AdtsUnit
      BY <1>2, <1>4 DEF ScanInv
    <2>3. DOMAIN p = 1..f /\ \A i \in 1..f : p[i] = scan[1 + i - 1]
      BY <1>2, <2>1, <2>2, SubSeqProperties
    <2>4. at <= Len(stream) /\ Len(scan) = at - Cursor + 1 /\ at \in Nat
      BY <1>1, <1>3, AtCursor
    <2>5. ASSUME NEW i \in 1..f PROVE p[i][4] = item
      <3>1. p[i] = scan[i] /\ i \in 1..Len(scan)
        BY <1>2, <1>4, <2>3
      <3>2. scan[i] = stream[Cursor + i - 1]
        BY <1>4, <3>1
      <3>3. CASE i = 1
        <4>1. Cursor + i - 1 = Cursor
          BY <1>2, <3>3
        <4> QED BY <3>1, <3>2, <4>1 DEF item
      <3>4. CASE i # 1
        <4>1. Cursor + i - 1 \in 1..Len(stream) /\ Cursor < Cursor + i - 1
              /\ Cursor + i - 1 < Cursor + f
          <5>1. i \in Nat /\ i > 1 /\ i <= f /\ i <= Len(scan)
            BY <1>2, <1>4, <3>1, <3>4
          <5> QED BY <1>2, <1>3, <1>4, <2>4, <5>1, SMTT(40)
        <4> QED BY <1>5, <3>1, <3>2, <4>1
      <3> QED BY <3>3, <3>4
    <2>6. p[1][4] = item /\ \A i \in DOMAIN p : p[i][4] = p[1][4]
      BY <1>2, <2>3, <2>5
    <2> QED BY <2>1, <2>6 DEF Emitted, f
  <1>8. /\ Sure' = Sure /\ Followed' = Followed /\ Free' = Free
        /\ Heads("frame")' = Heads("frame")
        /\ \A q : InSync(stream', q) <=> InSync(stream, q)
        /\ OnAirRight(stream') <=> OnAirRight(stream)
    BY <1>1, SameFrames
  <1>9. /\ frames' \in Seq(Nat) /\ Len(frames') = Len(frames) + 1 /\ frames' # <<>>
        /\ frames'[Len(frames) + 1] = item
        /\ \A i \in 1..Len(frames) : frames'[i] = frames[i]
    <2>1. frames' = Append(frames, item)
      BY <1>1, <1>7
    <2> QED BY <1>3, <1>5, <2>1, AppendProperties
  <1>10. frames # <<>> => item > frames[Len(frames)]
    <2> SUFFICES ASSUME frames # <<>> PROVE item > frames[Len(frames)]
      OBVIOUS
    <2>1. PICK p \in Heads("frame") : p < Cursor /\ frames[Len(frames)] = stream[p][4]
      BY <1>3 DEF Ascending
    <2>2. p \in 1..Len(stream) /\ Heading(stream[p], "frame")
      BY <1>3 DEF Heads, Heading, ScanInv
    <2> QED BY <1>2, <1>3, <2>1, <2>2, FrameIs DEF item
  <1>11. Ascending'
    <2>1. ASSUME NEW i \in 1..Len(frames')
          PROVE  frames'[i] > (IF i = 1 THEN 0 ELSE frames'[i - 1])
      <3>1. CASE i \in 1..Len(frames)
        <4>1. frames[i] > (IF i = 1 THEN 0 ELSE frames[i - 1])
          BY <1>3, <3>1 DEF Ascending
        <4>2. i # 1 => i - 1 \in 1..Len(frames)
          BY <1>3, <3>1
        <4> QED BY <1>9, <3>1, <4>1, <4>2
      <3>2. CASE i = Len(frames) + 1
        <4>1. i = 1 => frames'[i] > 0
          BY <1>5, <1>9, <3>2
        <4>2. i # 1 => frames # <<>> /\ i - 1 = Len(frames) /\ i - 1 \in 1..Len(frames)
          BY <1>3, <3>2, EmptySeq
        <4> QED BY <1>9, <1>10, <3>2, <4>1, <4>2
      <3> QED BY <1>3, <1>9, <2>1, <3>1, <3>2
    <2>2. Cursor \in Heads("frame") /\ Cursor < Cursor' /\ frames'[Len(frames')] = stream'[Cursor][4]
      <3>1. Cursor \in Heads("frame")
        BY <1>2, <1>3, <1>4 DEF Heads, Heading, ScanInv
      <3> QED BY <1>1, <1>2, <1>6, <1>9, <3>1 DEF item
    <2> QED BY <1>8, <2>1, <2>2 DEF Ascending
  <1>12. \A q \in Sure : q \in 1..Len(stream) /\ stream[q][3] \in Nat
                         /\ (q < Cursor + f => q < Cursor \/ q = Cursor)
    <2> SUFFICES ASSUME NEW q \in Sure
                 PROVE  q \in 1..Len(stream) /\ stream[q][3] \in Nat
                        /\ (q < Cursor + f => q < Cursor \/ q = Cursor)
      OBVIOUS
    <2>1. q \in 1..Len(stream) /\ Heading(stream[q], "frame")
      BY SureIs
    <2>2. ~(Cursor < q /\ q < Cursor + f)
      BY <1>5, <2>1
    <2>3. stream[q][3] \in Nat
      BY <2>1, UnitIs
    <2>4. q \in Nat /\ Cursor \in Nat
      BY <1>2, <2>1
    <2> QED BY <1>2, <2>1, <2>2, <2>3, <2>4
  <1>13. Done'
    <2> SUFFICES ASSUME NEW q \in Sure, q < Cursor + f
                 PROVE  \E i \in 1..Len(frames') : frames'[i] = stream[q][4]
      BY <1>1, <1>6, <1>8 DEF Done
    <2>1. CASE q < Cursor
      <3>1. PICK i \in 1..Len(frames) : frames[i] = stream[q][4]
        BY <1>3, <2>1 DEF Done
      <3> QED BY <1>3, <1>9, <3>1
    <2>2. CASE q = Cursor
      <3>1. Len(frames) + 1 \in 1..Len(frames')
        BY <1>3, <1>9
      <3> QED BY <1>9, <2>2, <3>1 DEF item
    <2> QED BY <1>12, <2>1, <2>2
  <1>14. Aligned'
    <2>1. ASSUME NEW p \in Sure, p < Cursor + f, Cursor + f < p + stream[p][3] PROVE FALSE
      <3>1. CASE p < Cursor
        <4>1. ~(Cursor < p + stream[p][3])
          BY <1>3, <3>1 DEF Aligned
        <4> QED BY <1>2, <1>12, <2>1, <4>1
      <3>2. CASE p = Cursor
        BY <1>2, <2>1, <3>2
      <3> QED BY <1>12, <2>1, <3>1, <3>2
    <2>2. locked' /\ skip_left' = 0 /\ InSync(stream', Cursor')
      BY <1>1, <1>4, <1>5, <1>6
    <2> QED BY <1>1, <1>6, <1>8, <2>1, <2>2 DEF Aligned
  <1>15. step' = "out" /\ ~stopped' => scan' = <<>> \/ Undecided'
    BY <1>1
  <1> QED BY <1>1, <1>3, <1>6, <1>8, <1>9, <1>11, <1>13, <1>14, <1>15 DEF PlaceInv

\* drain returns, and the call with it: nothing is left that could be judged.
LEMMA DrainEndsPlaces == ASSUME ScanInv, PlaceInv, DrainEnds PROVE PlaceInv'
  <1>1. /\ UNCHANGED <<stream, at, scan, skip_left, locked, frames, heard, stopped>>
        /\ scan = <<>> \/ Undecided
    BY DEF DrainEnds, scanner
  <1>2. Window' /\ Cursor' = Cursor
    BY <1>1 DEF Window, Cursor, PlaceInv
  <1>3. scan' = <<>> \/ Undecided'
    BY <1>1 DEF Undecided
  <1> QED BY <1>1, <1>2, <1>3, StandingStill

\* A chunk.
LEMMA AdtsFeedPlaces == ASSUME ScanInv, PlaceInv, AdtsFeed PROVE PlaceInv'
  <1>1. /\ UNCHANGED <<stream, at, scan, skip_left, locked, frames, heard, stopped>>
        /\ step' = "fill"
    BY DEF AdtsFeed, scanner
  <1>2. Window' /\ Cursor' = Cursor
    BY <1>1 DEF Window, Cursor, PlaceInv
  <1> QED BY <1>1, <1>2, StandingStill

\* The buffer and a tag longer than it exclude each other.
LEMMA NothingInside ==
    ASSUME ScanInv, Window
    PROVE  Inside = 0 /\ After(scan, Inside) = scan
           /\ scan \in Seq(AdtsUnit) /\ Len(scan) \in Nat /\ skip_left \in Nat /\ rest \in Nat
           /\ Passed = IF skip_left <= rest THEN skip_left ELSE rest
  <1>1. /\ scan \in Seq(AdtsUnit) /\ Len(scan) \in Nat /\ skip_left \in Nat /\ rest \in Nat
        /\ skip_left > 0 => Len(scan) = 0
    <2>1. scan \in Seq(AdtsUnit) /\ Len(scan) \in Nat /\ skip_left \in Nat /\ rest \in Nat
      BY Lengths DEF ScanInv
    <2> QED BY <2>1 DEF Window
  <1>2. Inside = IF skip_left <= Len(scan) THEN skip_left ELSE Len(scan)
    BY <1>1, Capped DEF Inside
  <1>3. Inside = 0
    BY <1>1, <1>2
  <1>4. After(scan, 0) = scan
    <2>1. After(scan, 0) = SubSeq(scan, 1, Len(scan))
      BY DEF After
    <2> QED BY <1>1, <2>1
  <1>5. Passed = Min({skip_left, rest})
    BY <1>1, <1>3 DEF Passed
  <1> QED BY <1>1, <1>3, <1>4, <1>5, Capped

\* The buffer is topped up: behind a tag longer than it, out of sync.
LEMMA FillPlaces == ASSUME ScanInv, PlaceInv, Fill PROVE PlaceInv'
  <1> DEFINE from0 == at + Passed
             k == Min({SCAN_CAP - Len(scan), rest - Passed})
             more == SubSeq(stream, from0 + 1, from0 + k)
  <1>1. /\ Inside = 0 /\ After(scan, Inside) = scan
        /\ scan \in Seq(AdtsUnit) /\ Len(scan) \in Nat /\ skip_left \in Nat /\ rest \in Nat
        /\ Passed = IF skip_left <= rest THEN skip_left ELSE rest
    BY NothingInside DEF PlaceInv
  <1>2. /\ skip_left = Inside + Passed
        /\ scan' = scan \o more /\ at' = from0 + k
        /\ step' = IF Len(scan) + k = 0 THEN "out" ELSE "drain"
        /\ skip_left' = 0 /\ locked' = LockAfterTag
        /\ UNCHANGED <<stream, frames, heard, stopped>>
    BY <1>1 DEF Fill
  <1>3. /\ stream \in Seq(AdtsUnit) /\ at \in Nat /\ at + rest <= Len(stream)
        /\ Len(stream) \in Nat /\ Len(scan) <= SCAN_CAP /\ heard \in Nat
    BY DEF ScanInv
  <1>4. /\ Passed = skip_left /\ Passed \in Nat /\ rest - Passed \in Nat
        /\ SCAN_CAP - Len(scan) \in Nat
    BY <1>1, <1>2, <1>3, Lengths
  <1>5. k \in Nat /\ k <= SCAN_CAP - Len(scan) /\ k <= rest - Passed
    BY <1>4, Capped
  <1> HIDE DEF k
  <1>6. /\ from0 \in Nat /\ from0 + k <= Len(stream)
    BY <1>1, <1>3, <1>4, <1>5
  <1>7. more \in Seq(AdtsUnit) /\ Len(more) = k /\ \A i \in 1..k : more[i] = stream[from0 + i]
    <2> HIDE DEF from0
    <2>1. from0 + 1 \in Nat /\ from0 + k \in Nat
      BY <1>5, <1>6
    <2>2. \A i \in (from0 + 1)..(from0 + k) : stream[i] \in AdtsUnit
      <3>1. \A i \in (from0 + 1)..(from0 + k) : i \in 1..Len(stream)
        BY <1>3, <1>5, <1>6
      <3> QED BY <1>3, <3>1
    <2>3. more \in Seq(AdtsUnit) /\ Len(more) = k
          /\ \A i \in 1..Len(more) : more[i] = stream[from0 + 1 + i - 1]
      BY <1>5, <1>6, <2>1, <2>2, SubSeqProperties
    <2>4. ASSUME NEW i \in 1..k PROVE more[i] = stream[from0 + i]
      <3>1. more[i] = stream[from0 + 1 + i - 1]
        BY <2>3
      <3>2. from0 + 1 + i - 1 = from0 + i
        BY <1>6
      <3> QED BY <3>1, <3>2
    <2> QED BY <2>3, <2>4
  <1> HIDE DEF more
  <1>8. /\ Len(scan') = Len(scan) + k /\ scan' \in Seq(AdtsUnit)
        /\ \A i \in 1..Len(scan) : scan'[i] = scan[i]
        /\ \A i \in 1..k : scan'[Len(scan) + i] = more[i]
    <2>1. /\ Len(scan \o more) = Len(scan) + Len(more) /\ scan \o more \in Seq(AdtsUnit)
          /\ \A i \in 1..(Len(scan) + Len(more)) :
                (scan \o more)[i] = IF i <= Len(scan) THEN scan[i] ELSE more[i - Len(scan)]
      BY <1>1, <1>7, ConcatProperties
    <2>2. ASSUME NEW i \in 1..k PROVE scan'[Len(scan) + i] = more[i]
      <3>1. Len(scan) + i \in 1..(Len(scan) + Len(more)) /\ ~(Len(scan) + i <= Len(scan))
            /\ Len(scan) + i - Len(scan) = i
        BY <1>1, <1>5, <1>7
      <3> QED BY <1>2, <2>1, <3>1
    <2>3. ASSUME NEW i \in 1..Len(scan) PROVE scan'[i] = scan[i]
      <3>1. i \in 1..(Len(scan) + Len(more)) /\ i <= Len(scan)
        BY <1>1, <1>5, <1>7
      <3> QED BY <1>2, <2>1, <3>1
    <2> QED BY <1>2, <1>7, <2>1, <2>2, <2>3
  <1>9. Cursor' = Cursor
    <2>1. Cursor' = at' - Len(scan') + skip_left' + 1 /\ Cursor = at - Len(scan) + skip_left + 1
      BY DEF Cursor
    <2>2. at' = at + skip_left + k /\ Len(scan') = Len(scan) + k /\ skip_left' = 0
      BY <1>2, <1>4, <1>8
    <2> QED BY <1>1, <1>3, <1>5, <2>1, <2>2
  <1>10. Window'
    <2>1. Len(scan) <= at - heard /\ (skip_left > 0 => Len(scan) = 0)
          /\ \A i \in 1..Len(scan) : scan[i] = stream[at - Len(scan) + i]
      BY DEF Window, PlaceInv
    <2>2. Len(scan') <= at' - heard'
      BY <1>1, <1>2, <1>3, <1>4, <1>5, <1>8, <2>1
    <2>3. ASSUME NEW i \in 1..Len(scan') PROVE scan'[i] = stream'[at' - Len(scan') + i]
      <3>1. at' - Len(scan') + i = at + Passed - Len(scan) + i
        <4>1. at' = at + Passed + k /\ Len(scan') = Len(scan) + k /\ i \in Nat
          BY <1>2, <1>8, <2>3
        <4> QED BY <1>1, <1>3, <1>4, <1>5, <4>1
      <3>2. CASE i <= Len(scan)
        <4>1. i \in 1..Len(scan) /\ Passed = 0
          BY <1>1, <1>4, <2>1, <3>2
        <4>2. scan'[i] = scan[i] /\ scan[i] = stream[at - Len(scan) + i]
          BY <1>8, <2>1, <4>1
        <4>3. at' - Len(scan') + i = at - Len(scan) + i
          BY <1>1, <1>3, <3>1, <4>1
        <4> QED BY <1>2, <4>2, <4>3
      <3>3. CASE ~(i <= Len(scan))
        <4>1. PICK j : j = i - Len(scan)
          OBVIOUS
        <4>2. j \in 1..k /\ i = Len(scan) + j
          BY <1>1, <1>5, <1>8, <3>3, <4>1
        <4>3. scan'[i] = stream[from0 + j]
          BY <1>7, <1>8, <4>2
        <4>4. from0 + j = at' - Len(scan') + i
          BY <1>1, <1>3, <1>4, <3>1, <4>1, <4>2
        <4> QED BY <1>2, <4>3, <4>4
      <3> QED BY <3>2, <3>3
    <2> QED BY <1>2, <2>2, <2>3 DEF Window
  <1>11. locked' /\ skip_left' = 0 <=> locked /\ skip_left = 0
    BY <1>2 DEF LockAfterTag
  <1>12. step' = "out" => scan' = <<>>
    BY <1>1, <1>2, <1>5, <1>8, EmptySeq
  <1> QED BY <1>2, <1>9, <1>10, <1>11, <1>12, StandingStill

\* A chunk that ends inside a tag.
LEMMA SwallowPlaces == ASSUME ScanInv, PlaceInv, Swallow PROVE PlaceInv'
  <1>1. /\ Inside = 0 /\ After(scan, Inside) = scan
        /\ scan \in Seq(AdtsUnit) /\ Len(scan) \in Nat /\ skip_left \in Nat /\ rest \in Nat
        /\ Passed = IF skip_left <= rest THEN skip_left ELSE rest
    BY NothingInside DEF PlaceInv
  <1>2. /\ skip_left > Passed /\ skip_left' = skip_left - Passed /\ scan' = scan
        /\ at' = at + Passed /\ UNCHANGED <<stream, frames, heard, stopped>>
    BY <1>1 DEF Swallow
  <1>3. Passed \in Nat /\ skip_left > 0 /\ skip_left' > 0 /\ at \in Nat
        /\ heard \in Nat /\ heard <= at
    BY <1>1, <1>2 DEF ScanInv
  <1>4. scan = <<>> /\ Len(scan) = 0
    BY <1>3 DEF Window, PlaceInv
  <1>5. Cursor' = Cursor
    <2>1. Cursor' = (at + Passed) - Len(scan) + (skip_left - Passed) + 1
      BY <1>2 DEF Cursor
    <2> QED BY <1>1, <1>3, <2>1 DEF Cursor
  <1>6. Window'
    <2>1. scan' = <<>> /\ Len(scan') = 0 /\ at' - heard' >= 0
      BY <1>2, <1>3, <1>4
    <2> QED BY <2>1 DEF Window
  <1>7. ~(locked' /\ skip_left' = 0) /\ ~(locked /\ skip_left = 0)
    BY <1>3
  <1> QED BY <1>2, <1>4, <1>5, <1>6, <1>7, StandingStill

\* A fresh scanner, on any stream that is on the air.
LEMMA FreshPlaces ==
    ASSUME stream \in Seq(AdtsUnit), OnAirRight(stream), at \in Nat, at <= Len(stream), heard = at,
           scan = <<>>, skip_left = 0, ~locked, frames = <<>>, ScanInv
    PROVE  PlaceInv
  <1>1. Len(scan) = 0 /\ Len(frames) = 0 /\ frames \in Seq(Nat) /\ Len(stream) \in Nat
    BY EmptySeq
  <1>2. Cursor = at + 1
    BY <1>1 DEF Cursor
  <1>3. Window /\ Ascending
    BY <1>1 DEF Window, Ascending
  <1>4. \A q \in Sure : q \in Nat /\ q > at /\ stream[q][3] \in Nat /\ stream[q][3] > 0
    <2> TAKE q \in Sure
    <2>1. q \in 1..Len(stream) /\ heard < q /\ Heading(stream[q], "frame")
      BY SureIs
    <2>2. stream[q][3] \in Nat /\ stream[q][3] > 0
      BY <2>1, FrameIs
    <2> QED BY <2>1, <2>2
  <1>5. Done
    BY <1>2, <1>4 DEF Done
  <1>6. Aligned
    <2>1. \A p \in Followed : p + stream[p][3] # Cursor
      <3> SUFFICES ASSUME NEW p \in Followed PROVE p + stream[p][3] # Cursor
        OBVIOUS
      <3>1. p \in Sure
        BY DEF Sure
      <3> QED BY <1>2, <1>4, <3>1
    <2>2. \A p \in Sure : ~(p < Cursor)
      BY <1>2, <1>4
    <2> QED BY <2>1, <2>2 DEF Aligned
  <1> QED BY <1>1, <1>3, <1>5, <1>6 DEF PlaceInv

\* A reset is a fresh start from where the stream is.
LEMMA AdtsDiscontinuityPlaces ==
    ASSUME ScanInv, PlaceInv, AdtsDiscontinuity PROVE PlaceInv'
  <1>1. /\ stream' = stream /\ at' = at /\ heard' = at /\ scan' = <<>> /\ skip_left' = 0
        /\ locked' = FALSE /\ frames' = <<>>
    BY DEF AdtsDiscontinuity
  <1>2. /\ stream \in Seq(AdtsUnit) /\ OnAirRight(stream) /\ at \in Nat /\ Len(stream) \in Nat
        /\ at <= Len(stream)
    BY DEF ScanInv, PlaceInv
  <1>3. Len(scan') = 0 /\ Len(frames') = 0 /\ frames' \in Seq(Nat)
    BY <1>1, EmptySeq
  <1>4. Cursor' = at + 1
    BY <1>1, <1>2, <1>3 DEF Cursor
  <1>5. Window' /\ Ascending'
    BY <1>1, <1>2, <1>3 DEF Window, Ascending
  <1>6. ASSUME NEW q \in Free' PROVE q \in Nat /\ q > at /\ q + stream[q][3] > Cursor'
    <2>1. q \in (at + 1)..Len(stream) /\ Heading(stream[q], "frame")
      BY <1>1 DEF Free, Heads, Heading
    <2>2. q \in 1..Len(stream)
      BY <1>2, <2>1
    <2>3. stream[q][3] \in Nat /\ stream[q][3] > 0
      BY <1>2, <2>1, <2>2, FrameIs
    <2> QED BY <1>2, <1>4, <2>1, <2>2, <2>3
  <1>7. Sure' \subseteq Free' /\ Followed' \subseteq Free'
    BY DEF Sure, Followed
  <1>8. Done'
    BY <1>2, <1>4, <1>6, <1>7 DEF Done
  <1>9. Aligned'
    <2>1. \A p \in Sure' : ~(p < Cursor')
      BY <1>2, <1>4, <1>6, <1>7
    <2>2. \A p \in Followed' : p + stream'[p][3] # Cursor'
      <3> SUFFICES ASSUME NEW p \in Followed' PROVE p + stream[p][3] # Cursor'
        BY <1>1
      <3>1. p \in Nat /\ p + stream[p][3] > Cursor' /\ Cursor' \in Nat
        BY <1>2, <1>4, <1>6, <1>7
      <3> QED BY <1>2, <1>4, <3>1
    <2> QED BY <1>1, <2>1, <2>2 DEF Aligned
  <1>10. OnAirRight(stream') /\ (step' = "out" /\ ~stopped' => scan' = <<>> \/ Undecided')
    BY <1>1, <1>2
  <1> QED BY <1>3, <1>5, <1>8, <1>9, <1>10 DEF PlaceInv

\* A scanner with nothing to do on its stream, and one on any of the streams.
LEMMA PlacesInitially == AdtsInit \/ AdtsStart(AdtsIdle) => PlaceInv
  <1>1. ASSUME AdtsInit \/ AdtsStart(AdtsIdle)
        PROVE  stream \in Seq(AdtsUnit) /\ OnAirRight(stream)
    <2>1. ASSUME AdtsInit PROVE OnAirRight(stream) /\ stream \in Seq(AdtsUnit)
      <3>1. PICK s \in Streams : AdtsStart(s)
        BY <2>1 DEF AdtsInit
      <3>2. stream = s.units /\ OnAirRight(s.units) /\ s.units \in Seq(AdtsUnit)
        <4>1. OnAirRight(s.units)
          BY StreamsAssumption
        <4>2. s.units \in Seq(AdtsUnit)
          BY AdtsAssumption
        <4> QED BY <3>1, <4>1, <4>2 DEF AdtsStart
      <3> QED BY <3>2
    <2>2. ASSUME AdtsStart(AdtsIdle) PROVE OnAirRight(stream) /\ stream \in Seq(AdtsUnit)
      <3>1. stream = <<>>
        BY <2>2 DEF AdtsStart, AdtsIdle
      <3>2. DOMAIN stream = {} /\ stream \in Seq(AdtsUnit)
        BY <3>1, EmptySeq
      <3> QED BY <3>2 DEF OnAirRight
    <2> QED BY <1>1, <2>1, <2>2
  <1>2. ASSUME AdtsInit \/ AdtsStart(AdtsIdle)
        PROVE  at = 0 /\ heard = 0 /\ scan = <<>> /\ skip_left = 0 /\ ~locked /\ frames = <<>>
    BY <1>2 DEF AdtsInit, AdtsStart
  <1>3. ASSUME AdtsInit \/ AdtsStart(AdtsIdle) PROVE PlaceInv
    <2>1. at \in Nat /\ at <= Len(stream) /\ heard = at
      BY <1>1, <1>2, <1>3
    <2> QED BY <1>1, <1>2, <1>3, <2>1, ScanInitially, FreshPlaces
  <1> QED BY <1>3

\* Every step of the scanner keeps the frames' invariant.
LEMMA PlaceStep == ScanInv /\ PlaceInv /\ AdtsNext => PlaceInv'
  BY AdtsDiscontinuityPlaces, AdtsFeedPlaces, FillPlaces, SwallowPlaces, DropTagPlaces,
     EmitFramePlaces, SkipUnitPlaces, DrainEndsPlaces, Zenon DEF AdtsNext

\* And so does every step of another component.
LEMMA PlaceRests == PlaceInv /\ UNCHANGED adtsVars => PlaceInv'
  <1> SUFFICES ASSUME PlaceInv, UNCHANGED adtsVars PROVE PlaceInv'
    OBVIOUS
  <1>1. UNCHANGED <<stream, at, scan, skip_left, locked, frames, heard, stopped, step>>
    BY DEF adtsVars, scanner
  <1>2. Window' /\ Cursor' = Cursor
    BY <1>1 DEF Window, Cursor, PlaceInv
  <1>3. Undecided' <=> Undecided
    BY <1>1 DEF Undecided
  <1>4. step' = "out" /\ ~stopped' => scan' = <<>> \/ Undecided'
    BY <1>1, <1>3 DEF PlaceInv
  <1> QED BY <1>1, <1>2, <1>4, StandingStill

\* When all has been fed and the sink has not stopped it, the cursor is behind every
\* frame that counts: a header that is still undecided begins none of them.
LEMMA AllPassed ==
    ASSUME ScanInv, PlaceInv, step = "out", ~stopped, at = Len(stream), NEW q \in Sure
    PROVE  q < Cursor
  <1> SUFFICES ASSUME ~(q < Cursor) PROVE FALSE
    OBVIOUS
  <1>1. /\ Window /\ OnAirRight(stream) /\ Aligned /\ at \in Nat /\ Len(stream) \in Nat
        /\ skip_left \in Nat /\ (scan = <<>> \/ Undecided)
    BY Lengths DEF ScanInv, PlaceInv
  <1>2. \A p \in Sure : /\ p \in 1..Len(stream) /\ Heading(stream[p], "frame")
                        /\ stream[p][3] \in Nat /\ stream[p][3] > 0 /\ stream[p][3] >= ADTS_HDR
                        /\ p + stream[p][3] - 1 <= Len(stream)
    BY <1>1, SureIs, FrameIs
  <1>3. scan # <<>>
    <2> SUFFICES ASSUME scan = <<>> PROVE FALSE
      OBVIOUS
    <2>1. Cursor = at + skip_left + 1
      BY <1>1, EmptySeq DEF Cursor
    <2> QED BY <1>1, <1>2, <2>1
  <1>4. /\ skip_left = 0 /\ Cursor \in 1..Len(stream) /\ Len(scan) \in Nat
        /\ Len(scan) = Len(stream) - Cursor + 1 /\ scan[1] = stream[Cursor]
    BY <1>1, <1>3, AtCursor
  \* Behind a unit that is followed the buffer is long enough to judge it.
  <1>5. \A p \in Followed : p \in Sure /\ p + stream[p][3] - 1 + ADTS_LOOK <= Len(stream)
    BY <1>1, FollowedIs
  <1>6. \A p \in Sure : p < Cursor => p + stream[p][3] <= Cursor
    <2> SUFFICES ASSUME NEW p \in Sure, p < Cursor PROVE p + stream[p][3] <= Cursor
      OBVIOUS
    <2>1. ~(Cursor < p + stream[p][3])
      BY <1>1 DEF Aligned
    <2> QED BY <1>2, <1>4, <2>1
  \* Of a frame that counts, either it or the one right before is followed.
  <1>7. \/ q \in Followed
        \/ \E p \in Followed : p + stream[p][3] = q /\ ~(p < Cursor)
        \/ q = Cursor /\ \E p \in Followed : p + stream[p][3] = q
    <2>1. q \in Followed \/ \E p \in Followed : p + stream[p][3] = q
      BY SureIs
    <2>2. ASSUME NEW p \in Followed, p + stream[p][3] = q, p < Cursor PROVE q = Cursor
      <3>1. q <= Cursor
        BY <1>5, <1>6, <2>2
      <3> QED BY <1>2, <1>4, <3>1
    <2> QED BY <2>1, <2>2
  <1>8. (\E p \in Followed : ~(p < Cursor)) => Len(scan) >= ADTS_LOOK
    <2> SUFFICES ASSUME NEW p \in Followed, ~(p < Cursor) PROVE Len(scan) >= ADTS_LOOK
      OBVIOUS
    <2>1. /\ p \in Nat /\ stream[p][3] \in Nat /\ stream[p][3] > 0
          /\ p + stream[p][3] - 1 + ADTS_LOOK <= Len(stream)
      BY <1>2, <1>5
    <2> QED BY <1>1, <1>4, <2>1, Lengths, SMTT(40)
  <1>9. Undecided
    BY <1>1, <1>3
  <1>10. CASE Begins(scan, {"tag"}) /\ Len(scan) < ADTS_LOOK
    <2>1. q = Cursor
      BY <1>4, <1>7, <1>8, <1>10, Lengths
    <2> QED BY <1>2, <1>4, <1>10, <2>1 DEF Begins, Heading
  <1>11. CASE IsFF(scan) /\ Len(scan) < ADTS_HDR
    <2>1. Len(scan) < ADTS_LOOK
      BY <1>4, <1>11, Lengths
    <2>2. q = Cursor
      BY <1>4, <1>7, <1>8, <2>1, Lengths
    <2>3. stream[Cursor][3] \in Nat /\ stream[Cursor][3] >= ADTS_HDR
          /\ Cursor + stream[Cursor][3] - 1 <= Len(stream)
      BY <1>2, <2>2
    <2> QED BY <1>1, <1>4, <1>11, <2>3, Lengths
  <1>12. CASE adts_len(scan) # 0
              /\ Len(scan) < adts_len(scan) + (IF locked THEN 0 ELSE ADTS_LOOK)
    <2> DEFINE f == stream[Cursor][3]
    <2>1. /\ adts_len(scan) = f
          /\ Heading(stream[Cursor], "frame") \/ Heading(stream[Cursor], "fake")
      BY <1>1, <1>3, <1>12, HeaderAt
    <2>2. f \in Nat
      BY <1>4, UnitIs
    <2>3. CASE Heading(stream[Cursor], "fake")
      <3>1. CASE locked
        <4>1. InSync(stream, Cursor)
          BY <1>1, <1>4, <3>1 DEF Aligned
        <4>2. PICK h \in Cursor..Cursor : Real(stream[h])
          BY <1>4, <2>3, <4>1 DEF InSync
        <4>3. h = Cursor
          BY <1>4
        <4> QED BY <2>3, <4>2, <4>3 DEF Real, Heading
      <3>2. CASE ~locked
        <4>1. Cursor + f + ADTS_LOOK <= Len(stream) + 1
          BY <1>1, <1>4, <2>3, FakeIs
        <4>2. Len(scan) < f + ADTS_LOOK
          BY <1>12, <2>1, <3>2
        <4> QED BY <1>1, <1>4, <2>2, <4>1, <4>2, Lengths, SMTT(40)
      <3> QED BY <3>1, <3>2
    <2>4. CASE Heading(stream[Cursor], "frame")
      <3>1. \A p \in Sure : ~(p < Cursor) => p = Cursor \/ p >= Cursor + f
        <4> SUFFICES ASSUME NEW p \in Sure, ~(p < Cursor), p # Cursor PROVE p >= Cursor + f
          OBVIOUS
        <4>1. p \in 1..Len(stream) /\ Heading(stream[p], "frame")
          BY <1>2
        <4>2. ~(Cursor < p /\ p < Cursor + f)
          BY <1>1, <1>4, <2>4, <4>1, FrameIs
        <4> QED BY <1>4, <2>2, <4>1, <4>2
      <3>2. Len(scan) >= f
        <4>1. CASE q = Cursor
          <5>1. Cursor + f - 1 <= Len(stream)
            BY <1>2, <4>1
          <5> QED BY <1>1, <1>4, <2>2, <5>1
        <4>2. CASE q # Cursor
          <5>1. q >= Cursor + f /\ q \in Nat /\ q <= Len(stream)
            BY <1>2, <3>1, <4>2
          <5> QED BY <1>1, <1>4, <2>2, <5>1
        <4> QED BY <4>1, <4>2
      <3>3. ~locked /\ Len(scan) < f + ADTS_LOOK
        BY <1>4, <1>12, <2>1, <2>2, <3>2, Lengths
      <3>4. \A p \in Followed : p < Cursor
        <4> SUFFICES ASSUME NEW p \in Followed, ~(p < Cursor) PROVE FALSE
          OBVIOUS
        <4>1. /\ p \in Nat /\ stream[p][3] \in Nat /\ stream[p][3] > 0
              /\ p + stream[p][3] - 1 + ADTS_LOOK <= Len(stream)
          BY <1>2, <1>5
        <4>2. p + stream[p][3] >= Cursor + f
          <5>1. CASE p = Cursor
            BY <1>4, <2>2, <5>1
          <5>2. CASE p # Cursor
            <6>1. p >= Cursor + f
              BY <1>5, <3>1, <5>2
            <6> QED BY <1>4, <2>2, <4>1, <6>1
          <5> QED BY <5>1, <5>2
        <4>3. PICK x : x = p + stream[p][3]
          OBVIOUS
        <4>4. x \in Nat /\ x >= Cursor + f /\ x - 1 + ADTS_LOOK <= Len(stream)
          BY <4>1, <4>2, <4>3
        <4> HIDE DEF f
        <4> QED BY <1>1, <1>4, <2>2, <3>3, <4>4, Lengths
      <3>5. q = Cursor /\ q \in Free /\ \E p \in Followed : p + stream[p][3] = q
        <4>1. q \in Free
          BY SureIs
        <4> QED BY <1>7, <3>4, <4>1
      <3>6. locked
        BY <1>1, <3>5 DEF Aligned
      <3> QED BY <3>3, <3>6
    <2> QED BY <2>1, <2>3, <2>4
  <1> QED BY <1>9, <1>10, <1>11, <1>12 DEF Undecided

\* FramesAreWhole for every stream on the air, of any length, and however it is cut into
\* chunks: adts_scan_feed never fails, emits each frame at most once, whole and in order, no
\* fragment and no bytes that only read as a header, and every frame whose place can be told.
THEOREM FramesStayWhole == Spec => []FramesAreWhole
  <1>1. Init => PlaceInv
    BY PlacesInitially, Zenon DEF Init
  <1>2. ScanInv /\ PlaceInv /\ [Next]_vars => PlaceInv'
    BY PlaceStep, PlaceRests, Zenon DEF Next, vars
  <1>3. ScanInv /\ PlaceInv => FramesAreWhole
    <2> SUFFICES ASSUME ScanInv, PlaceInv PROVE FramesAreWhole
      OBVIOUS
    <2>1. ~failed /\ Ascending /\ Done
      BY DEF ScanInv, PlaceInv
    <2>2. DOMAIN frames = 1..Len(frames)
      BY DEF PlaceInv
    <2>3. ASSUME AdtsOver, ~stopped, NEW q \in Sure
          PROVE  \E i \in DOMAIN frames : frames[i] = stream[q][4]
      <3>1. q < Cursor
        BY <2>3, AllPassed DEF AdtsOver
      <3> QED BY <2>1, <2>2, <3>1 DEF Done
    <2> QED BY <2>1, <2>2, <2>3 DEF FramesAreWhole, Ascending
  <1> QED BY <1>1, <1>2, <1>3, ScanAlways, PTL DEF Spec

-----------------------------------------------------------------------------
(* The demuxer                                                             *)

\* A section being put together.
Sect == [open : BOOLEAN, have : Seq(AirUnit)]

\* A PES being put together.
PesType == {p \in [state : {"idle", "hdr", "skip", "data"}, hdr : Seq(AirUnit), skip : Nat] :
               Len(p.hdr) < PES_HDR}

\* A PID of the broadcast, or none.
SomePid == Pids \cup {NoPid}

\* The types of the tables, the counters and the PES.
ParsedOk ==
    /\ pmt_pid \in SomePid /\ aud_pid \in SomePid
    /\ pat \in Sect /\ pmt \in Sect /\ pes \in PesType
    /\ cc \in [Pids -> -1..(CC_MOD - 1)] /\ cc_errors \in Nat
    /\ refused \in BOOLEAN

\* The inductive invariant: types, and how much is in the buffer and counted as junk.
TsInv ==
    /\ air \in Seq(AirUnit) /\ resets \in Nat
    /\ pos \in Nat /\ left \in Nat /\ pos + left <= Len(air) /\ from \in 0..pos
    /\ calling \in BOOLEAN /\ synced \in BOOLEAN
    /\ buf \in Seq(AirUnit) /\ Len(buf) <= Want
    /\ junk \in 0..(RESYNC_MAX + PKT) /\ (synced => junk = 0)
    /\ ParsedOk

\* The numbers.
LEMMA Sizes ==
    /\ PKT \in Nat /\ PKT > 0 /\ PES_HDR \in Nat /\ PES_HDR > 0 /\ CC_MOD \in Nat /\ CC_MOD > 0
    /\ RESYNC_MAX \in Nat /\ Len(Broadcast) \in Nat /\ DOMAIN Broadcast = 1..Len(Broadcast)
  BY TsAssumption, BroadcastAssumption

\* A packet of the broadcast.
LEMMA Sending ==
    ASSUME NEW i \in 1..Len(Broadcast)
    PROVE  /\ Broadcast[i].pid \in Pids /\ Broadcast[i].pusi \in BOOLEAN
           /\ Broadcast[i].af \in 0..(PKT - 1) /\ Broadcast[i].body \in Seq(PayloadUnit)
           /\ Len(Broadcast[i].body) = PKT - 1 - Broadcast[i].af
           /\ Counter[i] \in 0..(CC_MOD - 1)
  <1>1. i \in DOMAIN Broadcast
    BY Sizes
  <1>2. /\ Broadcast[i].pusi \in BOOLEAN
        /\ Broadcast[i].af \in 0..(PKT - 1) /\ Broadcast[i].body \in Seq(PayloadUnit)
    <2> DEFINE P == [pid : STRING, pusi : BOOLEAN, af : 0..(PKT - 1),
                     signal : BOOLEAN, body : Seq(PayloadUnit)]
    <2>1. Broadcast \in Seq(P)
      BY BroadcastAssumption
    <2>2. Broadcast[i] \in P
      <3> HIDE DEF P
      <3> QED BY <2>1, ElementOfSeq
    <2> QED BY <2>2
  <1>3. Broadcast[i].pid \in Pids
    BY <1>1 DEF Pids
  <1>4. Counter[i] \in 0..(CC_MOD - 1)
    <2> DEFINE before == {j \in 1..(i - 1) : Broadcast[j].pid = Broadcast[i].pid /\ Carries(j)}
    <2>1. IsFiniteSet(1..(i - 1)) /\ before \subseteq 1..(i - 1)
      <3>1. i - 1 \in Int /\ 1 \in Int
        BY Sizes
      <3>2. IsFiniteSet(1..(i - 1))
        BY <3>1, FS_Interval
      <3> QED BY <3>2
    <2>2. Cardinality(before) \in Nat
      <3>1. IsFiniteSet(before)
        BY <2>1, FS_Subset
      <3> QED BY <3>1, FS_CardinalityType
    <2>3. Counter[i] = Cardinality(before) % CC_MOD
      BY <1>1 DEF Counter
    <2> HIDE DEF before
    <2> QED BY <2>2, <2>3, Sizes
  <1> QED BY <1>1, <1>2, <1>3, <1>4, BroadcastAssumption

\* What a payload unit may say.
LEMMA Saying ==
    ASSUME NEW c \in PayloadUnit
    PROVE  /\ c.is = "ptr" => c.n \in Nat
           /\ c.is = "sec" => c.total \in Nat \ {0} /\ c.names \in Pids
           /\ c.is = "hdr" => c.skip \in Nat
  BY DEF PayloadUnit

\* What a unit on the air carries is a unit of the broadcast, or nothing.
LEMMA ContentType == ASSUME NEW u \in AirUnit PROVE Content(u) \in PayloadUnit
  <1>1. u[1] \in 0..Len(Broadcast) /\ u[2] \in 0..(PKT - 1)
    BY DEF AirUnit
  <1>2. CASE u[1] > 0 /\ u[2] > Packet(u).af
    <2>1. u[1] \in 1..Len(Broadcast)
      BY <1>1, <1>2, Sizes
    <2> DEFINE af == Packet(u).af  body == Packet(u).body
    <2>2. af \in 0..(PKT - 1) /\ body \in Seq(PayloadUnit) /\ Len(body) = PKT - 1 - af
      BY <2>1, Sending DEF Packet
    <2>3. Content(u) = body[u[2] - af] /\ u[2] > af
      BY <1>2 DEF Content
    <2> HIDE DEF af, body
    <2>4. u[2] - af \in 1..Len(body)
      <3>1. PICK m : m = Len(body)
        OBVIOUS
      <3>2. u[2] \in 0..(PKT - 1) /\ m = PKT - 1 - af /\ PKT \in Nat /\ af \in Nat /\ af < u[2]
        BY <1>1, <2>2, <2>3, <3>1, Sizes
      <3> QED BY <3>1, <3>2
    <2> QED BY <2>2, <2>3, <2>4
  <1>3. CASE ~(u[1] > 0 /\ u[2] > Packet(u).af)
    <2>1. Content(u) = [is |-> "other"]
      BY <1>3 DEF Content
    <2> QED BY <2>1 DEF PayloadUnit
  <1> QED BY <1>2, <1>3

\* What is left behind the first n units.
LEMMA FromIs ==
    ASSUME NEW S, NEW p \in Seq(S), NEW n \in Nat
    PROVE  /\ From(p, n) \in Seq(S)
           /\ Len(From(p, n)) = IF n <= Len(p) THEN Len(p) - n ELSE 0
  BY AfterIs DEF From, After

\* The first n units.
LEMMA FrontIs ==
    ASSUME NEW S, NEW p \in Seq(S), NEW n \in 0..Len(p)
    PROVE  SubSeq(p, 1, n) \in Seq(S) /\ Len(SubSeq(p, 1, n)) = n
  <1>1. Len(p) \in Nat /\ n \in Nat /\ n <= Len(p)
    BY LenProperties
  <1>2. \A i \in 1..n : i \in 1..Len(p) /\ p[i] \in S
    BY <1>1, ElementOfSeq
  <1> QED BY <1>1, <1>2, SubSeqProperties

\* What a packet brings to a section.
LEMMA SecPushType ==
    ASSUME NEW s \in Sect, NEW p \in Seq(AirUnit) PROVE SecPush(s, p) \in Sect
  <1>1. s.have \in Seq(AirUnit) /\ s.open \in BOOLEAN
    BY DEF Sect
  <1>2. s.have \o p \in Seq(AirUnit)
    BY <1>1, ConcatProperties
  <1> QED BY <1>1, <1>2 DEF SecPush, Sect

\* A section before its first byte, open or not.
LEMMA FreshSections == Closed \in Sect /\ Opened \in Sect
  <1>1. <<>> \in Seq(AirUnit)
    BY EmptySeq
  <1> QED BY <1>1 DEF Closed, Opened, Sect

\* A packet ends one section and may open the next.
LEMMA PsiPartsType ==
    ASSUME NEW s \in Sect, NEW p \in Seq(AirUnit), p # <<>>, NEW pusi \in BOOLEAN
    PROVE  Head(PsiParts(s, p, pusi)) \in Sect /\ Last(PsiParts(s, p, pusi)) \in Sect
  <1> DEFINE rest0 == Tail(p)
             ptr == IF Content(p[1]).is = "ptr" THEN Content(p[1]).n ELSE PKT
             old == SecPush(s, SubSeq(rest0, 1, ptr))
             new == SecPush(Opened, SubSeq(rest0, ptr + 1, Len(rest0)))
  <1>1. p[1] \in AirUnit /\ rest0 \in Seq(AirUnit) /\ Len(rest0) \in Nat
    BY ElementOfSeq
  <1>2. ptr \in Nat
    BY <1>1, ContentType, Saying, Sizes
  <1>3. PsiParts(s, p, pusi) = IF ~pusi THEN <<SecPush(s, p)>>
                               ELSE IF ptr > Len(rest0) THEN <<Closed>> ELSE <<old, new>>
    BY DEF PsiParts
  <1> HIDE DEF ptr, rest0
  <1>4. CASE ~pusi
    <2>1. PICK x : x = SecPush(s, p)
      OBVIOUS
    <2>2. x \in Sect /\ PsiParts(s, p, pusi) = <<x>>
      BY <1>3, <1>4, <2>1, SecPushType
    <2> QED BY <2>2 DEF Last
  <1>5. CASE pusi /\ ptr > Len(rest0)
    <2>1. PsiParts(s, p, pusi) = <<Closed>>
      BY <1>3, <1>5
    <2> QED BY <2>1, FreshSections DEF Last
  <1>6. CASE pusi /\ ~(ptr > Len(rest0))
    <2>1. ptr \in 0..Len(rest0)
      BY <1>1, <1>2, <1>6
    <2>2. SubSeq(rest0, 1, ptr) \in Seq(AirUnit)
      BY <1>1, <2>1, FrontIs
    <2>3. SubSeq(rest0, ptr + 1, Len(rest0)) \in Seq(AirUnit)
      BY <1>1, <1>2, FromIs DEF From
    <2>4. old \in Sect /\ new \in Sect
      BY <2>2, <2>3, SecPushType, FreshSections
    <2> HIDE DEF old, new
    <2>5. PsiParts(s, p, pusi) = <<old, new>>
      BY <1>3, <1>6
    <2> QED BY <2>4, <2>5 DEF Last
  <1> QED BY <1>4, <1>5, <1>6

\* psi_feed keeps the section that is not done.
LEMMA KeptType ==
    ASSUME NEW parts, Last(parts) \in Sect PROVE Kept(parts) \in Sect
  BY FreshSections DEF Kept

\* A section names a PID of the broadcast, or leaves the one there was.
LEMMA NamedType ==
    ASSUME NEW s \in Sect, NEW was \in SomePid PROVE Named(s, was) \subseteq SomePid
  <1>1. CASE ~Complete(s)
    BY <1>1 DEF Named
  <1>2. CASE Complete(s)
    <2> DEFINE c == [k \in 1..Total(s) |-> Content(s.have[k])]
               whole == \A k \in DOMAIN c : c[k].is = "sec" /\ c[k].k = k /\ c[k].id = c[1].id
    <2>1. Named(s, was) = IF whole THEN {Last(c).names} ELSE Pids
      BY <1>2 DEF Named
    <2>2. s.have \in Seq(AirUnit) /\ s.have # <<>> /\ Len(s.have) >= Total(s) /\ Len(s.have) \in Nat
      BY <1>2 DEF Complete, Sect
    <2>3. Total(s) \in Nat \ {0}
      <3>1. s.have[1] \in AirUnit
        BY <2>2
      <3> QED BY <3>1, ContentType, Saying DEF Total
    <2>4. PICK n \in Nat \ {0} : n = Total(s)
      BY <2>3
    <2>5. c = [k \in 1..n |-> Content(s.have[k])]
      BY <2>4
    <2>6. \A k \in 1..n : Content(s.have[k]) \in PayloadUnit
      BY <2>2, <2>4, ContentType
    <2>7. c \in Seq(PayloadUnit) /\ Len(c) = n
      <3>1. c \in [1..n -> PayloadUnit]
        BY <2>5, <2>6
      <3> HIDE DEF c
      <3>2. c \in Seq(PayloadUnit)
        BY <3>1, SeqDef
      <3> QED BY <3>1, <3>2, LenProperties
    <2>8. CASE whole
      <3>0. DOMAIN c = 1..n
        BY <2>5
      <3> HIDE DEF c
      <3>1. n \in DOMAIN c /\ c[n].is = "sec"
        BY <2>4, <2>8, <3>0
      <3>2. c[n] \in PayloadUnit /\ Last(c) = c[n]
        BY <2>7, <3>1 DEF Last
      <3>3. Last(c).names \in Pids
        BY <3>1, <3>2, Saying
      <3> QED BY <2>1, <2>8, <3>3 DEF SomePid
    <2>9. CASE ~whole
      <3>1. Named(s, was) = Pids
        BY <2>1, <2>9
      <3> QED BY <3>1 DEF SomePid
    <2> QED BY <2>8, <2>9
  <1> QED BY <1>1, <1>2

\* A table names a PID of the broadcast, or none.
LEMMA NamedByType ==
    ASSUME NEW parts, Head(parts) \in Sect, Last(parts) \in Sect, NEW was \in SomePid
    PROVE  NamedBy(parts, was) \subseteq SomePid
  <1>1. \A w \in Named(Head(parts), was) : w \in SomePid
    BY NamedType
  <1>2. \A w \in SomePid : Named(Last(parts), w) \subseteq SomePid
    BY NamedType
  <1> QED BY <1>1, <1>2, Zenon DEF NamedBy

\* What pes_feed makes of a payload.
LEMMA SkipOverType ==
    ASSUME NEW skip \in Nat, NEW p \in Seq(AirUnit) PROVE SkipOver(skip, p).pes \in PesType
  <1>1. <<>> \in Seq(AirUnit) /\ Len(<<>>) = 0 /\ Len(p) \in Nat
    BY EmptySeq
  <1>2. CASE skip > Len(p)
    <2>1. skip - Len(p) \in Nat
      BY <1>1, <1>2
    <2>2. SkipOver(skip, p).pes = [state |-> "skip", hdr |-> <<>>, skip |-> skip - Len(p)]
      BY <1>2 DEF SkipOver, Idle
    <2> QED BY <1>1, <2>1, <2>2, Sizes DEF PesType
  <1>3. CASE ~(skip > Len(p))
    <2>1. SkipOver(skip, p).pes = [state |-> "data", hdr |-> <<>>, skip |-> 0]
      BY <1>3 DEF SkipOver, Idle
    <2> QED BY <1>1, <2>1, Sizes DEF PesType
  <1> QED BY <1>2, <1>3

\* A PES before its header, waited for or not.
LEMMA FreshPes == Idle \in PesType /\ Start \in PesType
  <1>1. <<>> \in Seq(AirUnit) /\ Len(<<>>) = 0
    BY EmptySeq
  <1> QED BY <1>1, Sizes DEF Idle, Start, PesType

\* The header of a PES is shorter than it has to be until it is complete.
LEMMA CollectHeaderType ==
    ASSUME NEW was \in Seq(AirUnit), Len(was) < PES_HDR, NEW p \in Seq(AirUnit)
    PROVE  CollectHeader(was, p).pes \in PesType
  <1> DEFINE n == Min({PES_HDR - Len(was), Len(p)})
             h == was \o SubSeq(p, 1, n)
  <1>1. Len(was) \in Nat /\ Len(p) \in Nat /\ PES_HDR - Len(was) \in Nat /\ PES_HDR \in Nat
    BY Sizes
  <1>2. n \in 0..Len(p) /\ n <= PES_HDR - Len(was)
    BY <1>1, Capped
  <1>3. CollectHeader(was, p) =
            IF Len(h) < PES_HDR THEN [pes |-> [Start EXCEPT !.hdr = h], out |-> <<>>]
            ELSE IF ~AudioHeader(h) THEN [pes |-> Idle, out |-> <<>>]
            ELSE SkipOver(Content(Last(h)).skip, From(p, n))
    BY DEF CollectHeader
  <1> HIDE DEF n
  <1>4. SubSeq(p, 1, n) \in Seq(AirUnit) /\ Len(SubSeq(p, 1, n)) = n
    BY <1>2, FrontIs
  <1>5. h \in Seq(AirUnit) /\ Len(h) = Len(was) + n
    BY <1>4, ConcatProperties
  <1> HIDE DEF h
  <1>6. CASE Len(h) < PES_HDR
    <2>1. CollectHeader(was, p).pes = [state |-> "hdr", hdr |-> h, skip |-> 0]
      BY <1>3, <1>6 DEF Start
    <2> QED BY <1>5, <1>6, <2>1 DEF PesType
  <1>7. CASE ~(Len(h) < PES_HDR) /\ ~AudioHeader(h)
    <2>1. CollectHeader(was, p).pes = Idle
      BY <1>3, <1>7
    <2> QED BY <2>1, FreshPes
  <1>8. CASE ~(Len(h) < PES_HDR) /\ AudioHeader(h)
    <2>1. CollectHeader(was, p) = SkipOver(Content(Last(h)).skip, From(p, n))
      BY <1>3, <1>8
    <2>2. Len(h) \in Nat /\ Len(h) > 0
      BY <1>1, <1>2, <1>5, <1>8, Sizes
    <2>3. Len(h) \in DOMAIN h /\ Last(h) \in AirUnit /\ Last(h) = h[Len(h)]
      BY <1>5, <2>2 DEF Last
    <2>4. Content(Last(h)).is = "hdr"
      BY <1>8, <2>3 DEF AudioHeader
    <2>5. Content(Last(h)).skip \in Nat
      BY <2>3, <2>4, ContentType, Saying
    <2>6. From(p, n) \in Seq(AirUnit)
      BY <1>2, FromIs
    <2> QED BY <2>1, <2>5, <2>6, SkipOverType
  <1> QED BY <1>6, <1>7, <1>8

\* A packet's bytes go to the header, to what is skipped, or to the sink.
LEMMA PesFeedType ==
    ASSUME NEW s \in PesType, NEW p \in Seq(AirUnit) PROVE PesFeed(s, p).pes \in PesType
  <1>1. /\ s.state \in {"idle", "hdr", "skip", "data"}
        /\ s.hdr \in Seq(AirUnit) /\ Len(s.hdr) < PES_HDR /\ s.skip \in Nat
    BY DEF PesType
  <1>2. CASE s.state = "idle"
    <2>1. PesFeed(s, p).pes = Idle
      BY <1>2 DEF PesFeed
    <2> QED BY <2>1, FreshPes
  <1>3. CASE s.state = "hdr"
    <2>1. PesFeed(s, p) = CollectHeader(s.hdr, p)
      BY <1>3 DEF PesFeed
    <2> QED BY <1>1, <2>1, CollectHeaderType
  <1>4. CASE s.state = "skip"
    <2>1. PesFeed(s, p) = SkipOver(s.skip, p)
      BY <1>4 DEF PesFeed
    <2> QED BY <1>1, <2>1, SkipOverType
  <1>5. CASE s.state = "data"
    <2>1. PesFeed(s, p).pes = s
      BY <1>5 DEF PesFeed
    <2> QED BY <2>1
  <1> QED BY <1>1, <1>2, <1>3, <1>4, <1>5

\* A packet's payload goes to a table, or to the PES, or to nobody.
LEMMA PayloadKeeps ==
    ASSUME ParsedOk, NEW pid \in Pids, NEW p \in Seq(AirUnit), p # <<>>,
           NEW pusi \in BOOLEAN, NEW gap \in BOOLEAN, Payload(pid, p, pusi, gap)
    PROVE  /\ pmt_pid' \in SomePid /\ aud_pid' \in SomePid
           /\ pat' \in Sect /\ pmt' \in Sect /\ pes' \in PesType
           /\ refused' = refused \/ refused' \in BOOLEAN
  <1> DEFINE was == IF gap THEN Idle ELSE pes
             sec(s, id) == IF gap /\ pid = id THEN Closed ELSE s
  <1>1. was \in PesType /\ pes \in PesType /\ Idle \in PesType /\ Start \in PesType
    BY FreshPes DEF ParsedOk
  <1>2. \A s \in Sect : \A id : sec(s, id) \in Sect
    BY FreshSections
  <1>3. pat \in Sect /\ pmt \in Sect /\ pmt_pid \in SomePid /\ aud_pid \in SomePid
    BY DEF ParsedOk
  <1>4. \/ /\ PatFeed(sec(pat, PatPid), pmt, p, pusi)
           /\ pes' = was
           /\ UNCHANGED <<es, refused>>
        \/ /\ PmtFeed(sec(pmt, pmt_pid), p, pusi, was)
           /\ UNCHANGED <<es, refused>>
        \/ Emit(IF pusi THEN Start ELSE was, p)
        \/ pes' = was /\ UNCHANGED <<tables, es, refused>>
    BY Zenon DEF Payload
  <1> HIDE DEF was, sec
  <1>5. CASE PatFeed(sec(pat, PatPid), pmt, p, pusi) /\ pes' = was /\ UNCHANGED <<es, refused>>
    <2>1. PICK s \in Sect : s = sec(pat, PatPid)
      BY <1>2, <1>3
    <2>2. PICK parts : /\ parts = PsiParts(s, p, pusi)
                       /\ pmt_pid' \in NamedBy(parts, pmt_pid)
                       /\ pat' = Kept(parts)
                       /\ pmt' = IF pmt_pid' # pmt_pid THEN Closed ELSE pmt
                       /\ UNCHANGED aud_pid
      BY <1>5, <2>1 DEF PatFeed
    <2>3. Head(parts) \in Sect /\ Last(parts) \in Sect
      BY <2>2, PsiPartsType
    <2>4. pmt_pid' \in SomePid
      BY <1>3, <2>2, <2>3, NamedByType
    <2>5. pat' \in Sect /\ pmt' \in Sect
      BY <1>3, <2>2, <2>3, KeptType, FreshSections
    <2> QED BY <1>1, <1>3, <1>5, <2>2, <2>4, <2>5
  <1>6. CASE PmtFeed(sec(pmt, pmt_pid), p, pusi, was) /\ UNCHANGED <<es, refused>>
    <2>1. PICK s \in Sect : s = sec(pmt, pmt_pid)
      BY <1>2, <1>3
    <2>2. PICK parts : /\ parts = PsiParts(s, p, pusi)
                       /\ aud_pid' \in NamedBy(parts, aud_pid)
                       /\ pmt' = Kept(parts)
                       /\ pes' = IF aud_pid' # aud_pid THEN Idle ELSE was
                       /\ UNCHANGED <<pmt_pid, pat>>
      BY <1>6, <2>1 DEF PmtFeed
    <2>3. Head(parts) \in Sect /\ Last(parts) \in Sect
      BY <2>2, PsiPartsType
    <2>4. aud_pid' \in SomePid
      BY <1>3, <2>2, <2>3, NamedByType
    <2>5. pmt' \in Sect /\ pes' \in PesType
      BY <1>1, <2>2, <2>3, KeptType
    <2> QED BY <1>3, <1>6, <2>2, <2>4, <2>5
  <1>7. CASE Emit(IF pusi THEN Start ELSE was, p)
    <2>1. PICK s \in PesType : Emit(s, p)
      BY <1>1, <1>7
    <2>2. pes' = PesFeed(s, p).pes /\ refused' \in BOOLEAN /\ UNCHANGED tables
      <3>1. PICK fed : /\ fed = PesFeed(s, p) /\ pes' = fed.pes
                       /\ refused' \in IF fed.out = <<>> THEN {FALSE} ELSE BOOLEAN
                       /\ UNCHANGED tables
        BY <2>1, Zenon DEF Emit
      <3> QED BY <3>1, Zenon
    <2>3. pes' \in PesType
      BY <2>2, PesFeedType
    <2> QED BY <1>3, <2>2, <2>3 DEF tables
  <1>8. CASE pes' = was /\ UNCHANGED <<tables, es, refused>>
    BY <1>1, <1>3, <1>8 DEF tables
  <1> QED BY <1>4, <1>5, <1>6, <1>7, <1>8

\* process_pkt on a packet that starts with a 0x47.
LEMMA ProcessPktKeeps ==
    ASSUME ParsedOk, NEW p \in Seq(AirUnit), Len(p) = PKT, IsSync(p[1]), ProcessPkt(p)
    PROVE  ParsedOk'
  <1> DEFINE u == Head(p)
             pid == Packet(u).pid
             n == Counter[p[1][1]]
  <1>1. u = p[1] /\ p[1] \in AirUnit /\ p # <<>> /\ Len(p) \in Nat
    BY Sizes
  <1>2. \/ Ignored(u) /\ UNCHANGED parsed
        \/ cc[pid] = n /\ UNCHANGED parsed
        \/ /\ ~Ignored(u)
           /\ cc' = [cc EXCEPT ![pid] = n]
           /\ cc_errors' \in {cc_errors, cc_errors + 1}
           /\ Payload(pid, From(p, 1 + Packet(u).af), Packet(u).pusi, Gap(pid, n))
    BY Zenon DEF ProcessPkt
  <1>3. CASE UNCHANGED parsed
    BY <1>3 DEF ParsedOk, parsed, tables
  <1>4. CASE /\ ~Ignored(u)
             /\ cc' = [cc EXCEPT ![pid] = n]
             /\ cc_errors' \in {cc_errors, cc_errors + 1}
             /\ Payload(pid, From(p, 1 + Packet(u).af), Packet(u).pusi, Gap(pid, n))
    <2>1. u[3] # "fake" /\ Carries(u[1])
      BY <1>4 DEF Ignored
    <2>2. u[1] \in 0..Len(Broadcast) /\ u[1] > 0
      BY <1>1, <2>1 DEF IsSync, IsHeader, AirUnit
    <2>3. u[1] \in 1..Len(Broadcast)
      BY <2>2, Sizes
    <2>4. PICK i \in 1..Len(Broadcast) : i = u[1] /\ i = p[1][1]
      BY <1>1, <2>3
    <2>5. /\ pid \in Pids /\ Packet(u).pusi \in BOOLEAN /\ n \in 0..(CC_MOD - 1)
          /\ Packet(u).af \in 0..(PKT - 1) /\ Packet(u).af < PKT - 1
      BY <2>1, <2>4, Sending DEF Packet, Carries
    <2> DEFINE body == From(p, 1 + Packet(u).af)
    <2>6. PICK k \in Nat : k = 1 + Packet(u).af /\ k < PKT
      BY <2>5, Sizes
    <2>7. body \in Seq(AirUnit) /\ body # <<>>
      <3>1. body = From(p, k)
        BY <2>6
      <3> HIDE DEF body
      <3>2. body \in Seq(AirUnit) /\ Len(body) = IF k <= Len(p) THEN Len(p) - k ELSE 0
        BY <1>1, <2>6, <3>1, FromIs
      <3> QED BY <2>6, <3>2, Sizes
    <2>8. Gap(pid, n) \in BOOLEAN
      BY DEF Gap
    <2>9. Payload(pid, body, Packet(u).pusi, Gap(pid, n))
      BY <1>4
    <2>10. cc' \in [Pids -> -1..(CC_MOD - 1)]
      <3>1. n \in -1..(CC_MOD - 1) /\ cc \in [Pids -> -1..(CC_MOD - 1)]
        BY <2>5, Sizes DEF ParsedOk
      <3> HIDE DEF n, pid
      <3> QED BY <1>4, <2>5, <3>1
    <2>11. cc_errors' \in Nat
      BY <1>4 DEF ParsedOk
    <2> HIDE DEF pid, n, body, u
    <2>12. /\ pmt_pid' \in SomePid /\ aud_pid' \in SomePid
           /\ pat' \in Sect /\ pmt' \in Sect /\ pes' \in PesType
           /\ refused' = refused \/ refused' \in BOOLEAN
      BY <2>5, <2>7, <2>8, <2>9, PayloadKeeps
    <2>13. refused' \in BOOLEAN
      BY <2>12, Zenon DEF ParsedOk
    <2> QED BY <2>10, <2>11, <2>12, <2>13 DEF ParsedOk
  <1> QED BY <1>2, <1>3, <1>4

\* A fresh demuxer, on any stream.
LEMMA TsStarts ==
    ASSUME NEW a, a.units \in Seq(AirUnit), a.resets \in Nat, TsStart(a)
    PROVE  TsInv
  <1>1. <<>> \in Seq(AirUnit) /\ Len(<<>>) = 0
    BY EmptySeq
  <1>2. ParsedOk
    <2>1. /\ pmt_pid = NoPid /\ aud_pid = NoPid /\ pat = Closed /\ pmt = Closed /\ pes = Idle
          /\ cc = [p \in Pids |-> -1] /\ cc_errors = 0 /\ refused = FALSE
      BY DEF TsStart
    <2>2. cc \in [Pids -> -1..(CC_MOD - 1)]
      BY <2>1, Sizes
    <2> QED BY <2>1, <2>2, FreshSections, FreshPes DEF ParsedOk, SomePid
  <1>3. air \in Seq(AirUnit) /\ Len(air) \in Nat /\ resets \in Nat /\ pos = 0 /\ left = 0
        /\ from = 0 /\ buf = <<>> /\ junk = 0
    BY DEF TsStart
  <1>4. calling \in BOOLEAN /\ synced = FALSE
    BY Zenon DEF TsStart
  <1>5. Want = 2 * PKT /\ junk \in 0..(RESYNC_MAX + PKT) /\ 0 <= 2 * PKT
    BY <1>3, <1>4, Sizes DEF Want
  <1>6. synced \in BOOLEAN
    BY <1>4
  <1> QED BY <1>1, <1>2, <1>3, <1>4, <1>5, <1>6 DEF TsInv

\* The arrivals of the model, and the one the demuxer rests on.
LEMMA TsInitially == TsInit \/ TsStart(TsIdle) => TsInv
  <1>1. ASSUME TsInit PROVE TsInv
    <2>1. PICK a \in Arrivals : TsStart(a)
      BY <1>1 DEF TsInit
    <2>2. a.units \in Seq(AirUnit) /\ a.resets \in Nat
      BY BroadcastAssumption
    <2> QED BY <2>1, <2>2, TsStarts
  <1>2. ASSUME TsStart(TsIdle) PROVE TsInv
    <2>1. TsIdle.units \in Seq(AirUnit) /\ TsIdle.resets \in Nat
      BY EmptySeq DEF TsIdle
    <2> QED BY <1>2, <2>1, TsStarts
  <1> QED BY <1>1, <1>2

\* ts_demux_reset.
LEMMA FreshKeeps ==
    ASSUME TsInv, Fresh, pos' \in Nat, left' \in Nat, pos' + left' <= Len(air),
           calling' \in BOOLEAN, resets' \in Nat
    PROVE  TsInv'
  <1>1. <<>> \in Seq(AirUnit) /\ Len(<<>>) = 0
    BY EmptySeq
  <1>2. ParsedOk'
    <2>1. /\ pmt_pid' = NoPid /\ aud_pid' = NoPid /\ pat' = Closed /\ pmt' = Closed /\ pes' = Idle
          /\ cc' = [p \in Pids |-> -1] /\ cc_errors' = cc_errors /\ refused' = refused
      BY DEF Fresh
    <2>2. cc' \in [Pids -> -1..(CC_MOD - 1)]
      BY <2>1, Sizes
    <2> QED BY <2>1, <2>2, FreshSections, FreshPes DEF TsInv, ParsedOk, SomePid
  <1>3. buf' = <<>> /\ synced' = FALSE /\ junk' = 0 /\ from' = pos' /\ air' = air
    BY DEF Fresh
  <1>4. Want' = 2 * PKT /\ junk' \in 0..(RESYNC_MAX + PKT) /\ 0 <= 2 * PKT
    BY <1>3, Sizes DEF Want
  <1>5. synced' \in BOOLEAN
    BY <1>3
  <1> QED BY <1>1, <1>2, <1>3, <1>4, <1>5 DEF TsInv

\* A reset from outside.
LEMMA DiscontinuityKeeps == ASSUME TsInv, Discontinuity PROVE TsInv'
  <1>1. pos' = pos /\ calling' = calling /\ left' = left /\ resets > 0 /\ resets' = resets - 1
    BY DEF Discontinuity, call
  <1>2. resets' \in Nat /\ pos' \in Nat /\ left' \in Nat /\ pos' + left' <= Len(air)
    BY <1>1 DEF TsInv
  <1>3. calling' \in BOOLEAN
    BY <1>1, Zenon DEF TsInv
  <1> QED BY <1>2, <1>3, FreshKeeps DEF Discontinuity

\* A chunk.
LEMMA FeedKeeps == ASSUME TsInv, Feed PROVE TsInv'
  <1>1. PICK n \in Chunks : left' = Min({n, Len(air) - pos})
    BY DEF Feed
  <1>2. n \in Nat /\ Len(air) \in Nat /\ pos \in Nat /\ pos < Len(air)
    BY TsAssumption DEF TsInv, Feed
  <1>3. Len(air) - pos \in Nat
    BY <1>2
  <1>4. left' \in Nat /\ pos + left' <= Len(air)
    BY <1>1, <1>2, <1>3, Capped
  <1>5. ParsedOk' /\ Want' = Want
    BY DEF TsInv, Feed, ParsedOk, parsed, tables, Want
  <1>6. calling' = TRUE /\ junk' = 0 /\ UNCHANGED <<air, pos, buf, synced, from, resets>>
    BY DEF Feed
  <1> QED BY <1>4, <1>5, <1>6, Sizes DEF TsInv

\* The hunt for a 0x47.
LEMMA ToSyncIs == ASSUME TsInv PROVE ToSync \in 0..left
  <1> DEFINE places == {k \in 0..(left - 1) : IsSync(air[pos + k + 1])}
  <1>1. left \in Nat
    BY DEF TsInv
  <1>2. CASE places = {}
    BY <1>1, <1>2 DEF ToSync
  <1>3. CASE places # {}
    <2>1. places \in SUBSET Nat
      OBVIOUS
    <2>2. Min(places) \in places
      BY <1>3, <2>1, Smallest
    <2>3. ToSync = Min(places)
      BY <1>3 DEF ToSync
    <2>4. PICK m : m = Min(places)
      OBVIOUS
    <2>5. m \in 0..(left - 1)
      BY <2>2, <2>4
    <2> QED BY <1>1, <2>3, <2>4, <2>5
  <1> QED BY <1>2, <1>3

\* Junk in front of a 0x47 is counted and passed over.
LEMMA HuntKeeps == ASSUME TsInv, Hunt PROVE TsInv'
  <1>1. PICK k \in 0..left : k = ToSync
    BY ToSyncIs
  <1>2. /\ pos' = pos + k /\ left' = left - k /\ junk' = junk + k /\ junk + k <= RESYNC_MAX
        /\ UNCHANGED <<air, calling, buf, synced, from, resets>> /\ ~synced
    BY <1>1 DEF Hunt, Hunting
  <1>3. ParsedOk' /\ Want' = Want
    BY DEF TsInv, Hunt, ParsedOk, parsed, tables, Want
  <1>4. pos' \in Nat /\ left' \in Nat /\ pos' + left' <= Len(air) /\ from' \in 0..pos'
    BY <1>2 DEF TsInv
  <1>5. junk' \in 0..(RESYNC_MAX + PKT)
    BY <1>2, Sizes DEF TsInv
  <1> QED BY <1>2, <1>3, <1>4, <1>5 DEF TsInv

\* The parser gives up on the chunk.
LEMMA GiveUpKeeps == ASSUME TsInv, GiveUp PROVE TsInv'
  <1>1. pos' \in Nat /\ left' \in Nat /\ pos' + left' <= Len(air) /\ resets' \in Nat
    BY DEF TsInv, GiveUp
  <1>2. calling' \in BOOLEAN
    BY DEF GiveUp
  <1> QED BY <1>1, <1>2, FreshKeeps DEF GiveUp

\* The buffer with what this chunk has for it.
LEMMA Topping ==
    ASSUME TsInv
    PROVE  /\ Want \in Nat /\ Want > 0 /\ Taken \in 0..left
           /\ Filled \in Seq(AirUnit) /\ Len(Filled) = Len(buf) + Taken
           /\ Len(Filled) \in Nat /\ Len(Filled) <= Want
           /\ Enough => Len(Filled) = Want
  <1>1. /\ buf \in Seq(AirUnit) /\ Len(buf) \in Nat /\ Len(buf) <= Want /\ left \in Nat
        /\ air \in Seq(AirUnit) /\ pos \in Nat /\ Len(air) \in Nat /\ pos + left <= Len(air)
    BY DEF TsInv
  <1>2. Want \in Nat /\ Want > 0
    BY Sizes DEF Want
  <1>3. /\ Taken \in 0..left /\ Len(buf) + Taken <= Want
        /\ Enough => Len(buf) + Taken = Want
    BY <1>1, <1>2 DEF Taken, Enough
  <1> DEFINE more == SubSeq(air, pos + 1, pos + Taken)
  <1>4. more \in Seq(AirUnit) /\ Len(more) = Taken
    <2>1. PICK k \in 0..left : k = Taken
      BY <1>3
    <2>2. /\ pos + 1 \in Nat /\ pos + k \in Nat
          /\ \A i \in (pos + 1)..(pos + k) : i \in 1..Len(air)
      BY <1>1
    <2>3. \A i \in (pos + 1)..(pos + k) : air[i] \in AirUnit
      BY <1>1, <2>2
    <2> QED BY <1>1, <2>1, <2>2, <2>3, SubSeqProperties
  <1> HIDE DEF more
  <1>5. Filled = buf \o more
    BY DEF Filled, more
  <1>6. Filled \in Seq(AirUnit) /\ Len(Filled) = Len(buf) + Taken
    BY <1>1, <1>4, <1>5, ConcatProperties
  <1> QED BY <1>1, <1>2, <1>3, <1>6

\* Units taken of the chunk.
LEMMA Taking ==
    ASSUME TsInv, Take(Taken), from' = from, air' = air
    PROVE  pos' \in Nat /\ left' \in Nat /\ pos' + left' <= Len(air) /\ from' \in 0..pos'
  <1>1. PICK k \in 0..left : k = Taken
    BY Topping
  <1>2. pos' = pos + k /\ left' = left - k
    BY <1>1 DEF Take
  <1> QED BY <1>2 DEF TsInv

\* A chunk that ends before the buffer is full.
LEMMA NeedMoreKeeps == ASSUME TsInv, NeedMore PROVE TsInv'
  <1>1. /\ Take(Taken) /\ buf' = Filled /\ calling' = FALSE
        /\ UNCHANGED <<air, synced, junk, from, resets>>
    BY DEF NeedMore
  <1>2. ParsedOk' /\ Want' = Want
    BY DEF TsInv, NeedMore, ParsedOk, parsed, tables, Want
  <1>3. pos' \in Nat /\ left' \in Nat /\ pos' + left' <= Len(air) /\ from' \in 0..pos'
    BY <1>1, Taking
  <1>4. buf' \in Seq(AirUnit) /\ Len(buf') <= Want'
    BY <1>1, <1>2, Topping
  <1>5. calling' \in BOOLEAN
    BY <1>1
  <1> QED BY <1>1, <1>2, <1>3, <1>4, <1>5 DEF TsInv

\* A call goes on unless the sink refused.
LEMMA Returning == ASSUME Returns PROVE calling' \in BOOLEAN
  BY Zenon DEF Returns

\* Two sync bytes a packet apart: the first packet is passed on.
LEMMA LockKeeps == ASSUME TsInv, Lock PROVE TsInv'
  <1>1. /\ Enough /\ ~synced /\ Take(Taken) /\ synced' = TRUE /\ junk' = 0
        /\ buf' = From(Filled, PKT) /\ Returns /\ UNCHANGED <<air, from, resets>>
    BY DEF Lock, Deciding
  <1>2. Want = 2 * PKT /\ PKT \in Nat /\ PKT > 0
    BY <1>1, Sizes DEF Want
  <1>3. Filled \in Seq(AirUnit) /\ Len(Filled) = 2 * PKT
    BY <1>1, <1>2, Topping
  <1>4. ParsedOk'
    <2>1. PICK p : p = SubSeq(Filled, 1, PKT) /\ ProcessPkt(p)
      BY DEF Lock
    <2>2. PKT \in 0..Len(Filled)
      BY <1>2, <1>3
    <2>3. p \in Seq(AirUnit) /\ Len(p) = PKT
      BY <1>3, <2>1, <2>2, FrontIs
    <2>4. p[1] = Filled[1]
      BY <1>2, <1>3, <2>1
    <2>5. IsSync(p[1])
      BY <2>4 DEF Lock, Confirmed, HdrOk
    <2> QED BY <2>1, <2>3, <2>5, ProcessPktKeeps DEF TsInv
  <1>5. buf' \in Seq(AirUnit) /\ Len(buf') <= PKT
    <2>1. /\ buf' \in Seq(AirUnit)
          /\ Len(buf') = IF PKT <= Len(Filled) THEN Len(Filled) - PKT ELSE 0
      BY <1>1, <1>2, <1>3, FromIs
    <2> QED BY <1>2, <1>3, <2>1
  <1>6. Want' = PKT /\ synced' \in BOOLEAN /\ junk' \in 0..(RESYNC_MAX + PKT)
    BY <1>1, Sizes DEF Want
  <1>7. pos' \in Nat /\ left' \in Nat /\ pos' + left' <= Len(air) /\ from' \in 0..pos'
    BY <1>1, Taking
  <1>8. calling' \in BOOLEAN
    BY <1>1, Returning
  <1> QED BY <1>1, <1>4, <1>5, <1>6, <1>7, <1>8 DEF TsInv

\* A packet behind another.
LEMMA PassPacketKeeps == ASSUME TsInv, PassPacket PROVE TsInv'
  <1>1. /\ Enough /\ synced /\ Take(Taken) /\ IsSync(Filled[1]) /\ ProcessPkt(Filled)
        /\ buf' = <<>> /\ Returns /\ UNCHANGED <<air, synced, junk, from, resets>>
    BY DEF PassPacket, Deciding
  <1>2. Want = PKT /\ PKT \in Nat /\ PKT > 0
    BY <1>1, Sizes DEF Want
  <1>3. Filled \in Seq(AirUnit) /\ Len(Filled) = PKT
    BY <1>1, <1>2, Topping
  <1>4. ParsedOk'
    BY <1>1, <1>3, ProcessPktKeeps DEF TsInv
  <1>5. buf' \in Seq(AirUnit) /\ Len(buf') = 0
    BY <1>1, EmptySeq
  <1>6. Want' = PKT
    BY <1>1, <1>2 DEF Want
  <1>7. pos' \in Nat /\ left' \in Nat /\ pos' + left' <= Len(air) /\ from' \in 0..pos'
    BY <1>1, Taking
  <1>8. calling' \in BOOLEAN
    BY <1>1, Returning
  <1> QED BY <1>1, <1>2, <1>4, <1>5, <1>6, <1>7, <1>8 DEF TsInv

\* shift_to_next_sync.
LEMMA ToNextSyncIs ==
    ASSUME TsInv, Enough PROVE ToNextSync \in 1..Len(Filled)
  <1> DEFINE places == {k \in 1..(Len(Filled) - 1) : IsSync(Filled[k + 1])}
  <1>1. Len(Filled) \in Nat /\ Len(Filled) > 0
    BY Topping
  <1>2. CASE places = {}
    BY <1>1, <1>2 DEF ToNextSync
  <1>3. CASE places # {}
    <2>1. places \in SUBSET Nat
      OBVIOUS
    <2>2. Min(places) \in places
      BY <1>3, <2>1, Smallest
    <2>3. ToNextSync = Min(places)
      BY <1>3 DEF ToNextSync
    <2>4. PICK m : m = Min(places)
      OBVIOUS
    <2>5. m \in 1..(Len(Filled) - 1)
      BY <2>2, <2>4
    <2> QED BY <1>1, <2>3, <2>4, <2>5
  <1> QED BY <1>2, <1>3

\* The buffer from its next sync byte on.
LEMMA ShiftKeeps ==
    ASSUME TsInv, Enough, Shift, synced \/ junk + ToNextSync <= RESYNC_MAX
    PROVE  TsInv'
  <1>1. PICK k \in 1..Len(Filled) : k = ToNextSync
    BY ToNextSyncIs
  <1>2. /\ Take(Taken) /\ synced' = FALSE /\ buf' = From(Filled, k) /\ junk' = junk + k
        /\ UNCHANGED <<air, calling, from, resets>>
    BY <1>1 DEF Shift
  <1>3. Filled \in Seq(AirUnit) /\ Len(Filled) = Want /\ Want \in Nat
    BY Topping
  <1>4. /\ synced => Want = PKT
        /\ Want' = 2 * PKT /\ Want <= 2 * PKT
    BY <1>2, Sizes DEF Want
  <1>5. buf' \in Seq(AirUnit) /\ Len(buf') <= Want'
    <2>1. k \in Nat
      BY <1>3
    <2>2. /\ buf' \in Seq(AirUnit)
          /\ Len(buf') = IF k <= Len(Filled) THEN Len(Filled) - k ELSE 0
      BY <1>2, <1>3, <2>1, FromIs
    <2> QED BY <1>3, <1>4, <2>2, Sizes
  <1>6. junk' \in 0..(RESYNC_MAX + PKT)
    BY <1>1, <1>2, <1>3, <1>4, Sizes DEF TsInv
  <1>7. pos' \in Nat /\ left' \in Nat /\ pos' + left' <= Len(air) /\ from' \in 0..pos'
    BY <1>2, Taking
  <1>8. ParsedOk'
    BY DEF TsInv, Shift, ParsedOk, parsed, tables
  <1> QED BY <1>2, <1>5, <1>6, <1>7, <1>8 DEF TsInv

\* One turn of ts_demux_feed's loop.
LEMMA RoundKeeps == ASSUME TsInv, Round PROVE TsInv'
  <1>1. CASE HuntGivesUp
    BY <1>1, GiveUpKeeps DEF HuntGivesUp
  <1>2. CASE RejectGivesUp
    BY <1>2, GiveUpKeeps DEF RejectGivesUp
  <1>3. CASE Reject
    BY <1>3, ShiftKeeps, Zenon DEF Reject, Deciding
  <1>4. CASE LoseSync
    BY <1>4, ShiftKeeps, Zenon DEF LoseSync, Deciding
  <1> QED BY <1>1, <1>2, <1>3, <1>4, HuntKeeps, NeedMoreKeeps, LockKeeps, PassPacketKeeps, Zenon
          DEF Round

\* A step of another component.
LEMMA TsRests == TsInv /\ UNCHANGED tsVars => TsInv'
  BY DEF TsInv, ParsedOk, tsVars, call, parsed, tables, Want

\* ts_demux_feed returns.
LEMMA FeedReturnsKeeps == ASSUME TsInv, FeedReturns PROVE TsInv'
  <1>1. calling' \in BOOLEAN
    BY DEF FeedReturns
  <1> QED BY <1>1 DEF TsInv, ParsedOk, FeedReturns, parsed, tables, Want

\* Every step of the demuxer keeps its invariant.
LEMMA TsStep == TsInv /\ TsNext => TsInv'
  BY DiscontinuityKeeps, FeedKeeps, RoundKeeps, FeedReturnsKeeps, Zenon DEF TsNext

\* The demuxer's invariant always holds.
LEMMA TsAlways == Spec => []TsInv
  <1>1. Init => TsInv
    BY TsInitially, Zenon DEF Init
  <1>2. TsInv /\ [Next]_vars => TsInv'
    BY TsStep, TsRests, Zenon DEF Next, vars
  <1> QED BY <1>1, <1>2, PTL DEF Spec

-----------------------------------------------------------------------------
(* The types                                                               *)

\* The rest of the playlist's types: what is handed over is no more than was read.
M3u8Types ==
    /\ rc \in {"more", "ok", "bad"}
    /\ seen_header \in BOOLEAN /\ have_extinf \in BOOLEAN /\ pending_disc \in BOOLEAN
    /\ endlist \in BOOLEAN /\ key.enc \in BOOLEAN
    /\ next_seq \in 0..SEQ_MAX /\ media_sequence \in 0..SEQ_MAX
    /\ kind \in {"unknown", "master", "media"}
    /\ Len(variants) + Len(segments) <= Len(text)

\* A text of no lines has the types.
LEMMA TypesStart == M3u8Start => M3u8Types
  <1> SUFFICES ASSUME M3u8Start PROVE M3u8Types
    OBVIOUS
  <1>1. /\ text = <<>> /\ segments = <<>> /\ variants = <<>> /\ next_seq = 0 /\ key = NoKey
        /\ media_sequence = 0 /\ rc = "more" /\ kind = "unknown" /\ SEQ_MAX \in Nat
    BY M3u8Assumption DEF M3u8Start
  <1>2. /\ seen_header \in BOOLEAN /\ have_extinf \in BOOLEAN /\ pending_disc \in BOOLEAN
        /\ endlist \in BOOLEAN
    BY Zenon DEF M3u8Start
  <1>3. key.enc \in BOOLEAN
    BY <1>1 DEF NoKey
  <1>4. Len(variants) + Len(segments) <= Len(text)
    BY <1>1
  <1> QED BY <1>1, <1>2, <1>3, <1>4 DEF M3u8Types

\* Whatever a line does to the tables, at most one of them gets an element of it.
LEMMA OneEach ==
    ASSUME M3u8Inv, M3u8Types, NEW l \in Lines, text' = Append(text, l), NEW s, NEW v,
           \/ variants' = variants /\ segments' = segments
           \/ variants' = Append(variants, v) /\ segments' = segments
           \/ variants' = variants /\ segments' = Append(segments, s)
    PROVE  Len(variants') + Len(segments') <= Len(text')
  <1>1. text \in Seq(Lines) /\ IsList(variants) /\ IsList(segments)
    BY DEF M3u8Inv, M3u8Typed
  <1>2. Len(text) \in Nat /\ Len(text') = Len(text) + 1
    BY <1>1
  <1>3. /\ Len(variants) \in Nat /\ Len(Append(variants, v)) = Len(variants) + 1
        /\ Len(segments) \in Nat /\ Len(Append(segments, s)) = Len(segments) + 1
    BY <1>1, ListGrows
  <1>4. Len(variants) + Len(segments) <= Len(text)
    BY DEF M3u8Types
  <1>5. CASE variants' = variants /\ segments' = segments
    BY <1>2, <1>3, <1>4, <1>5
  <1>6. CASE variants' = Append(variants, v) /\ segments' = segments
    BY <1>2, <1>3, <1>4, <1>6
  <1>7. CASE variants' = variants /\ segments' = Append(segments, s)
    BY <1>2, <1>3, <1>4, <1>7
  <1> QED BY <1>5, <1>6, <1>7

\* seq_take saturates.
LEMMA SeqTakenIs == ASSUME NEW n \in 0..SEQ_MAX PROVE Saturated(n) \in 0..SEQ_MAX
  <1>1. SEQ_MAX \in Nat /\ n + 1 \in Nat /\ n \in Nat
    BY M3u8Assumption
  <1>2. Min({n + 1, SEQ_MAX}) = IF n + 1 <= SEQ_MAX THEN n + 1 ELSE SEQ_MAX
    BY <1>1, Capped
  <1> QED BY <1>1, <1>2 DEF Saturated

\* A tag leaves the lists alone and every register in its range.
LEMMA TaggedTypes ==
    ASSUME M3u8Inv, M3u8Types, NEW l \in Lines, text' = Append(text, l),
           rc' = rc, seen_header' = seen_header, Tagged(l)
    PROVE  M3u8Types'
  <1>1. variants' = variants /\ segments' = segments
    BY DEF Tagged, Comment, Extinf, StreamInf, TargetDuration, MediaSequence, PlaylistBreak,
           EndList, KeyTag, playlist
  <1>2. Len(variants') + Len(segments') <= Len(text')
    BY <1>1, OneEach
  <1>3. next_seq' \in 0..SEQ_MAX /\ media_sequence' \in 0..SEQ_MAX
    <2>1. CASE MediaSequence(l)
      <3>1. l.t = "seq" => l.value \in {None} \cup 0..SEQ_MAX
        BY M3u8Assumption
      <3> QED BY <2>1, <3>1 DEF MediaSequence, SequenceCounts, M3u8Types
    <2>2. CASE ~MediaSequence(l)
      <3>1. next_seq' = next_seq /\ media_sequence' = media_sequence
        BY <2>2 DEF Tagged, Comment, Extinf, StreamInf, TargetDuration, PlaylistBreak, EndList,
                    KeyTag, numbers
      <3> QED BY <3>1 DEF M3u8Types
    <2> QED BY <2>1, <2>2
  <1>4. kind' \in {"unknown", "master", "media"}
    BY DEF Tagged, Comment, Extinf, StreamInf, TargetDuration, MediaSequence, PlaylistBreak,
           EndList, KeyTag, playlist, M3u8Types
  <1>5. key'.enc \in BOOLEAN
    <2>1. CASE KeyTag(l)
      <3>1. key'.enc = (l.method \notin {"", "NONE"})
        BY <2>1 DEF KeyTag
      <3> QED BY <3>1, Zenon
    <2>2. CASE ~KeyTag(l)
      <3>1. key' = key
        BY <2>2 DEF Tagged, Comment, Extinf, StreamInf, TargetDuration, MediaSequence,
                    PlaylistBreak, EndList
      <3> QED BY <3>1, Zenon DEF M3u8Types
    <2> QED BY <2>1, <2>2
  <1>6. have_extinf' \in BOOLEAN /\ pending_disc' \in BOOLEAN /\ endlist' \in BOOLEAN
    <2>1. /\ have_extinf' = have_extinf \/ have_extinf' = TRUE
          /\ pending_disc' = pending_disc \/ pending_disc' = TRUE
          /\ endlist' = endlist \/ endlist' = TRUE
      BY DEF Tagged, Comment, Extinf, StreamInf, TargetDuration, MediaSequence, PlaylistBreak,
             EndList, KeyTag, playlist, pending
    <2> QED BY <2>1, Zenon DEF M3u8Types
  <1>7. rc' \in {"more", "ok", "bad"} /\ seen_header' \in BOOLEAN
    BY Zenon DEF M3u8Types
  <1> QED BY <1>2, <1>3, <1>4, <1>5, <1>6, <1>7, Zenon DEF M3u8Types

\* An address takes at most one number and adds at most one element.
LEMMA AddressedTypes ==
    ASSUME M3u8Inv, M3u8Types, NEW l \in Lines, text' = Append(text, l),
           rc' = rc, seen_header' = seen_header, Addressed(l)
    PROVE  M3u8Types'
  <1>1. PICK s : s = [line |-> Len(text) + 1, seq |-> next_seq, discontinuity |-> pending_disc,
                      encrypted |-> key.enc, key_uri |-> key.uri, iv |-> Iv(next_seq)]
    OBVIOUS
  <1>2. PICK v : v = [line |-> Len(text) + 1, bandwidth |-> pending_bw]
    OBVIOUS
  <1>3. \/ variants' = variants /\ segments' = segments
        \/ variants' = Append(variants, v) /\ segments' = segments
        \/ variants' = variants /\ segments' = Append(segments, s)
    BY <1>1, <1>2 DEF Addressed, Unannounced, Unresolvable, Variant, Segment
  <1>4. Len(variants') + Len(segments') <= Len(text')
    BY <1>3, OneEach
  <1>5. Uri(l)
    BY DEF Addressed, Unannounced, Unresolvable, Variant, Segment
  <1>6. next_seq' \in 0..SEQ_MAX
    <2>1. next_seq' = Saturated(next_seq) \/ next_seq' = next_seq
      BY <1>5 DEF Uri, Numbering, SeqTaken
    <2> QED BY <2>1, SeqTakenIs DEF M3u8Types
  <1>7. UNCHANGED <<media_sequence, key, kind, endlist>>
    BY <1>5 DEF Uri
  <1>8. have_extinf' \in BOOLEAN /\ pending_disc' \in BOOLEAN
    <2>1. /\ have_extinf' = have_extinf \/ have_extinf' = FALSE
          /\ pending_disc' = pending_disc \/ pending_disc' = FALSE
      BY DEF Addressed, Unannounced, Unresolvable, Variant, Segment, pending
    <2> QED BY <2>1, Zenon DEF M3u8Types
  <1>9. rc' \in {"more", "ok", "bad"} /\ seen_header' \in BOOLEAN /\ endlist' \in BOOLEAN
        /\ key'.enc \in BOOLEAN
    BY <1>7, Zenon DEF M3u8Types
  <1>10. media_sequence' \in 0..SEQ_MAX /\ kind' \in {"unknown", "master", "media"}
    BY <1>7 DEF M3u8Types
  <1> QED BY <1>4, <1>6, <1>8, <1>9, <1>10, Zenon DEF M3u8Types

\* A line that is no playlist's, and the header.
LEMMA OtherLineTypes ==
    ASSUME M3u8Inv, M3u8Types, NEW l \in Lines, text' = Append(text, l), rc = "more",
           BadLine(l) \/ Header(l)
    PROVE  M3u8Types'
  <1>0. SEQ_MAX \in Nat /\ text \in Seq(Lines)
    BY M3u8Assumption DEF M3u8Inv, M3u8Typed
  <1>1. CASE BadLine(l)
    <2>1. /\ rc' = "bad" /\ media_sequence' = 0 /\ variants' = <<>> /\ segments' = <<>>
          /\ kind' = "unknown" /\ endlist' = FALSE
          /\ UNCHANGED <<seen_header, have_extinf, pending_disc, next_seq, key>>
      BY <1>1 DEF BadLine, Discarded, pending
    <2>2. Len(variants') + Len(segments') <= Len(text')
      BY <1>0, <2>1
    <2>3. /\ seen_header' \in BOOLEAN /\ have_extinf' \in BOOLEAN /\ pending_disc' \in BOOLEAN
          /\ endlist' \in BOOLEAN /\ key'.enc \in BOOLEAN
      BY <2>1, Zenon DEF M3u8Types
    <2>4. next_seq' \in 0..SEQ_MAX /\ media_sequence' \in 0..SEQ_MAX
      BY <1>0, <2>1 DEF M3u8Types
    <2> QED BY <2>1, <2>2, <2>3, <2>4, Zenon DEF M3u8Types
  <1>2. CASE Header(l)
    <2>1. /\ seen_header' = TRUE
          /\ UNCHANGED <<rc, have_extinf, pending_disc, next_seq, media_sequence, key, kind,
                         variants, segments, endlist>>
      BY <1>2 DEF Header, pending, numbers, playlist
    <2>2. Len(variants') + Len(segments') <= Len(text')
      BY <2>1, OneEach
    <2>3. /\ seen_header' \in BOOLEAN /\ have_extinf' \in BOOLEAN /\ pending_disc' \in BOOLEAN
          /\ endlist' \in BOOLEAN /\ key'.enc \in BOOLEAN
      BY <2>1, Zenon DEF M3u8Types
    <2> QED BY <2>1, <2>2, <2>3, Zenon DEF M3u8Types
  <1> QED BY <1>1, <1>2

\* Every step of m3u8_parse keeps the types.
LEMMA M3u8TypesStep == M3u8Inv /\ M3u8Types /\ M3u8Next => M3u8Types'
  <1> SUFFICES ASSUME M3u8Inv, M3u8Types, M3u8Next PROVE M3u8Types'
    OBVIOUS
  <1>1. CASE ReadLine
    <2>1. PICK l \in Lines :
             /\ text' = Append(text, l)
             /\ \/ BadLine(l)
                \/ Header(l)
                \/ seen_header /\ UNCHANGED <<rc, seen_header>> /\ (Tagged(l) \/ Addressed(l))
      BY <1>1 DEF ReadLine
    <2>2. rc = "more"
      BY <1>1 DEF ReadLine
    <2>3. CASE BadLine(l) \/ Header(l)
      BY <2>1, <2>2, <2>3, OtherLineTypes
    <2>4. CASE UNCHANGED <<rc, seen_header>> /\ (Tagged(l) \/ Addressed(l))
      BY <2>1, <2>4, TaggedTypes, AddressedTypes
    <2> QED BY <2>1, <2>3, <2>4
  <1>2. CASE TextEnds
    <2>1. /\ rc' \in {"ok", "bad"}
          /\ UNCHANGED <<text, seen_header, have_extinf, pending_disc, next_seq, media_sequence,
                         key, kind, variants, segments, endlist>>
      BY <1>2 DEF TextEnds, parsing, pending, numbers, playlist
    <2> QED BY <2>1, Zenon DEF M3u8Types
  <1> QED BY <1>1, <1>2 DEF M3u8Next

\* And so does every step of another component.
LEMMA M3u8TypesRest == M3u8Types /\ UNCHANGED m3u8Vars => M3u8Types'
  <1> SUFFICES ASSUME M3u8Types, UNCHANGED m3u8Vars PROVE M3u8Types'
    OBVIOUS
  <1>1. UNCHANGED <<text, rc, seen_header, have_extinf, pending_disc, next_seq, media_sequence,
                    key, kind, variants, segments, endlist>>
    BY DEF m3u8Vars, parsing, pending, numbers, playlist
  <1> QED BY <1>1, Zenon DEF M3u8Types

\* The types of the playlist always hold.
LEMMA M3u8TypesAlways == Spec => []M3u8Types
  <1>1. Init => M3u8Types
    BY TypesStart, Zenon DEF Init
  <1>2. M3u8Inv /\ M3u8Types /\ [Next]_vars => M3u8Types'
    BY M3u8TypesStep, M3u8TypesRest, Zenon DEF Next, vars
  <1> QED BY <1>1, <1>2, M3u8Always, PTL DEF Spec

\* A call's document fits; a redirect past the limit is not followed.
Sized(g) ==
    /\ Len(g.body) <= g.max /\ g.hops <= GET_MAXREDIRS + 1
    /\ g.at = "perform" \/ (g.at = "body" /\ g.status = 302) => g.hops <= GET_MAXREDIRS

\* What is in the buffer fits.
SegSizes == Len(s_seg.data) <= SEGMENT_MAX /\ s_stop \in BOOLEAN /\ Sized(get)

\* Nothing is in the buffer before the first segment.
LEMMA SizesStart == SegStart => SegSizes
  <1> SUFFICES ASSUME SegStart PROVE SegSizes
    OBVIOUS
  <1>1. s_stop \in BOOLEAN
    BY Zenon DEF SegStart
  <1>2. SEGMENT_MAX \in Nat /\ GET_MAXREDIRS \in Nat
    BY SegmentAssumption, GetAssumption
  <1>3. s_seg.data = <<>> /\ get = NoGet
    BY DEF SegStart, Empty
  <1>4. get.body = <<>> /\ get.max = 0 /\ get.hops = 0
    BY <1>3 DEF NoGet
  <1>5. Sized(get)
    BY <1>2, <1>4 DEF Sized
  <1> QED BY <1>1, <1>2, <1>3, <1>5 DEF SegSizes

\* The length of two lists in one.
LEMMA Joined ==
    ASSUME NEW S, NEW p \in Seq(S), NEW q \in Seq(S)
    PROVE  Len(p \o q) = Len(p) + Len(q) /\ Len(p) \in Nat
  BY ConcatProperties

\* mem_write and the redirects of a call.
LEMMA GetStepSizes ==
    ASSUME SegInv, Sized(get), GetStep PROVE Sized(get')
  <1>m. PICK A : A = {"idle", "perform", "body", "over", "failed", "done"}
    OBVIOUS
  <1>n. PICK U : U = {""} \cup Addresses
    OBVIOUS
  <1>o. PICK S : S = {0, 200, 302, 404}
    OBVIOUS
  <1>p. PICK B : B = Seq(Piece)
    OBVIOUS
  <1>q. Calls = CallsOver(A, U, B, S)
    BY <1>m, <1>n, <1>o, <1>p, Zenon DEF Calls
  <1>a. B = Seq(Piece) /\ Calls = CallsOver(A, U, B, S)
    BY <1>p, <1>q
  <1>b. get \in CallsOver(A, U, B, S) /\ getLeft \in Seq(Piece)
    BY <1>a DEF SegInv, SegTyped
  <1>c. get.body \in Seq(Piece) /\ get.max \in Nat /\ get.hops \in Nat
    BY <1>a, <1>b DEF CallsOver
  <1>d. GET_MAXREDIRS \in Nat
    BY GetAssumption
  <1>1. CASE GetCannot
    <2>1. get' = [get EXCEPT !.at = "done"]
      BY <1>1 DEF GetCannot
    <2>2. /\ get'.at = "done" /\ get'.body = get.body /\ get'.max = get.max
          /\ get'.hops = get.hops
      BY <1>b, <2>1 DEF CallsOver
    <2> QED BY <2>2 DEF Sized
  <1>2. CASE GetStatus
    <2>1. PICK status \in {200, 302, 404} :
             /\ status = 302 => get.hops < GET_MAXREDIRS
             /\ getLeft' \in IF status = 200 THEN Documents(get.url) ELSE {<<>>, Page}
             /\ get' = [get EXCEPT !.at = "body", !.status = status, !.hops = @ + 1,
                                   !.body = StartsOver(@)]
      BY <1>2, Zenon DEF GetStatus
    <2>2. get.hops <= GET_MAXREDIRS
      BY <1>2 DEF GetStatus, Sized
    <2>3. /\ get'.at = "body" /\ get'.status = status /\ get'.hops = get.hops + 1
          /\ get'.body = <<>> /\ get'.max = get.max
      BY <1>b, <2>1 DEF CallsOver, StartsOver
    <2> QED BY <1>c, <1>d, <2>1, <2>2, <2>3 DEF Sized
  <1>3. CASE GetPiece
    <2>1. PICK n \in DOMAIN getLeft :
             IF Len(get.body) + n > get.max
             THEN get' = [get EXCEPT !.too_large = TRUE, !.at = "failed"]
             ELSE \/ get' = [get EXCEPT !.body = @ \o SubSeq(getLeft, 1, n)]
                  \/ get' = [get EXCEPT !.oom = TRUE, !.at = "failed"]
      BY <1>3 DEF GetPiece
    <2>2. get.at = "body"
      BY <1>3 DEF GetPiece
    <2>3. CASE get' = [get EXCEPT !.too_large = TRUE, !.at = "failed"]
               \/ get' = [get EXCEPT !.oom = TRUE, !.at = "failed"]
      <3>1. /\ get'.at = "failed" /\ get'.body = get.body /\ get'.max = get.max
            /\ get'.hops = get.hops
        BY <1>b, <2>3 DEF CallsOver
      <3> QED BY <3>1 DEF Sized
    <2>4. CASE /\ ~(Len(get.body) + n > get.max)
               /\ get' = [get EXCEPT !.body = @ \o SubSeq(getLeft, 1, n)]
      <3>1. n \in 0..Len(getLeft) /\ n \in Nat
        BY <1>b
      <3>2. PICK a : a = SubSeq(getLeft, 1, n)
        OBVIOUS
      <3>3. a \in Seq(Piece) /\ Len(a) = n
        BY <1>b, <3>1, <3>2, FrontIs
      <3>4. Len(get.body \o a) = Len(get.body) + n /\ Len(get.body) \in Nat
        BY <1>c, <3>3, Joined
      <3>5. get' = [get EXCEPT !.body = get.body \o a]
        BY <2>4, <3>2
      <3>6. /\ get'.at = get.at /\ get'.status = get.status /\ get'.body = get.body \o a
            /\ get'.max = get.max /\ get'.hops = get.hops
        BY <1>b, <3>5 DEF CallsOver
      <3>7. Len(get'.body) <= get'.max
        BY <1>c, <2>4, <3>1, <3>4, <3>6
      <3> QED BY <3>6, <3>7 DEF Sized
    <2> QED BY <2>1, <2>3, <2>4
  <1>4. CASE GetEnds
    <2>1. PICK w : /\ get' = [get EXCEPT !.at = w]
                   /\ w \in {"over", "failed"} \/ (w = "perform" /\ get.status = 302)
      BY <1>4 DEF GetEnds
    <2>2. /\ get'.at = w /\ get'.status = get.status /\ get'.body = get.body
          /\ get'.max = get.max /\ get'.hops = get.hops
      BY <1>b, <2>1 DEF CallsOver
    <2>3. get.at = "body"
      BY <1>4 DEF GetEnds
    <2> QED BY <2>1, <2>2, <2>3 DEF Sized
  <1>5. CASE GetConcludes
    <2>1. PICK w : get' = [get EXCEPT !.at = "done", !.ok = w]
      BY <1>5 DEF GetConcludes
    <2>2. /\ get'.at = "done" /\ get'.body = get.body /\ get'.max = get.max
          /\ get'.hops = get.hops
      BY <1>b, <2>1 DEF CallsOver
    <2> QED BY <2>2 DEF Sized
  <1> QED BY <1>1, <1>2, <1>3, <1>4, <1>5 DEF GetStep

\* seg_write_cb.
LEMMA SegWriteSizes == ASSUME SegInv, SegSizes, SegWrite PROVE SegSizes'
  <1>1. PICK n \in DOMAIN segLeft :
           IF s_stop \/ Len(s_seg.data) + n > SEGMENT_MAX
           THEN s_seg' = [s_seg EXCEPT !.too_large = ~s_stop]
           ELSE \/ s_seg' = [s_seg EXCEPT !.data = @ \o SubSeq(segLeft, 1, n)]
                \/ s_seg' = [s_seg EXCEPT !.oom = TRUE]
    BY DEF SegWrite
  <1>2. /\ s_seg \in [data : Seq(Piece), too_large : BOOLEAN, oom : BOOLEAN]
        /\ segLeft \in Seq(Under(seg.key)) /\ SEGMENT_MAX \in Nat
    BY SegmentAssumption DEF SegInv, SegTyped
  <1>3. s_stop' = s_stop /\ get' = get
    BY DEF SegWrite, Transferring, getVars
  <1>4. Len(s_seg'.data) <= SEGMENT_MAX
    <2>1. CASE s_seg' = [s_seg EXCEPT !.too_large = ~s_stop]
               \/ s_seg' = [s_seg EXCEPT !.oom = TRUE]
      <3>1. s_seg'.data = s_seg.data
        BY <1>2, <2>1
      <3> QED BY <3>1 DEF SegSizes
    <2>2. CASE /\ ~(Len(s_seg.data) + n > SEGMENT_MAX)
               /\ s_seg' = [s_seg EXCEPT !.data = @ \o SubSeq(segLeft, 1, n)]
      <3>1. n \in 0..Len(segLeft) /\ n \in Nat
        BY <1>2
      <3>2. PICK a : a = SubSeq(segLeft, 1, n)
        OBVIOUS
      <3>3. a \in Seq(Under(seg.key)) /\ Len(a) = n
        BY <1>2, <3>1, <3>2, FrontIs
      <3>4. a \in Seq(Piece) /\ s_seg.data \in Seq(Piece)
        BY <1>2, <3>3, UnderIsPiece
      <3>5. Len(s_seg.data \o a) = Len(s_seg.data) + n /\ Len(s_seg.data) \in Nat
        BY <3>3, <3>4, Joined
      <3>6. s_seg'.data = s_seg.data \o a
        BY <1>2, <2>2, <3>2
      <3> QED BY <1>2, <2>2, <3>1, <3>5, <3>6
    <2> QED BY <1>1, <2>1, <2>2
  <1> QED BY <1>3, <1>4 DEF SegSizes

\* hls_decrypt_segment does not lengthen what it decrypts.
LEMMA DecryptSizes == ASSUME SegInv, SegSizes, Decrypt PROVE SegSizes'
  <1>1. s_stop' = s_stop /\ get' = get
    BY DEF Decrypt, getVars
  <1>2. Len(s_seg'.data) <= SEGMENT_MAX
    <2>1. CASE SegReturns(-1)
      BY <2>1 DEF SegReturns, SegSizes
    <2>2. CASE s_seg' = [s_seg EXCEPT !.data = Decrypted(@)]
      <3>1. s_seg \in [data : Seq(Piece), too_large : BOOLEAN, oom : BOOLEAN]
        BY DEF SegInv, SegTyped
      <3>2. s_seg.data = segSent /\ segSent \in Seq(Under(seg.key))
            /\ seg_key = WholeKey(seg.key)
        BY DEF Decrypt, SegInv, SegTyped, Playing, KeysOk
      <3>3. Len(Decrypted(segSent)) = Len(segSent)
        BY <3>2, Decrypting
      <3>4. s_seg'.data = Decrypted(s_seg.data)
        BY <2>2, <3>1
      <3> QED BY <3>2, <3>3, <3>4 DEF SegSizes
    <2> QED BY <2>1, <2>2 DEF Decrypt
  <1> QED BY <1>1, <1>2 DEF SegSizes

\* Every step of play_segment stays within the buffer.
LEMMA SizesStep == SegInv /\ SegSizes /\ SegNext => SegSizes'
  <1> SUFFICES ASSUME SegInv, SegSizes, SegNext PROVE SegSizes'
    OBVIOUS
  <1>0. SEGMENT_MAX \in Nat /\ KEY_CAP \in Nat /\ GET_MAXREDIRS \in Nat
    BY SegmentAssumption, GetAssumption
  <1>1. CASE PlaySegment
    <2>1. s_seg' = s_seg \/ s_seg' = Empty
      BY <1>1 DEF PlaySegment, Emptied, transfer
    <2>2. s_stop' = s_stop /\ get' = get
      BY <1>1 DEF PlaySegment, getVars
    <2> QED BY <1>0, <2>1, <2>2 DEF SegSizes, Empty
  <1>2. CASE SegStop
    <2>1. s_stop' = TRUE /\ s_seg' = s_seg /\ get' = get
      BY <1>2 DEF SegStop, transfer, getVars
    <2> QED BY <2>1 DEF SegSizes
  <1>3. CASE KeyAsked
    <2>1. s_stop' = s_stop /\ s_seg' = s_seg
      BY <1>3 DEF KeyAsked, transfer
    <2>2. get' = [NoGet EXCEPT !.at = "perform", !.url = seg.key, !.max = KEY_CAP]
      BY <1>3 DEF KeyAsked, GetStart
    <2>3. get'.body = <<>> /\ get'.max = KEY_CAP /\ get'.hops = 0
      BY <2>2 DEF NoGet
    <2>4. Sized(get')
      BY <1>0, <2>3 DEF Sized
    <2> QED BY <2>1, <2>4 DEF SegSizes
  <1>4. CASE KeyFetching
    <2>1. s_stop' = s_stop /\ s_seg' = s_seg /\ GetStep
      BY <1>4 DEF KeyFetching, transfer
    <2>2. Sized(get')
      BY <2>1, GetStepSizes DEF SegSizes
    <2> QED BY <2>1, <2>2 DEF SegSizes
  <1>5. CASE KeyFetched
    <2>1. s_stop' = s_stop /\ s_seg' = s_seg /\ get' = NoGet
      BY <1>5 DEF KeyFetched, SegReturns, GetFree
    <2>2. Sized(get')
      <3>1. get'.body = <<>> /\ get'.max = 0 /\ get'.hops = 0
        BY <2>1 DEF NoGet
      <3> QED BY <1>0, <3>1 DEF Sized
    <2> QED BY <2>1, <2>2 DEF SegSizes
  <1>6. CASE SegEnds \/ Fetched \/ KeyCached \/ FeedFails \/ FeedSegment \/ announce_ready
    <2>1. s_stop' = s_stop /\ s_seg' = s_seg /\ get' = get
      BY <1>6 DEF SegEnds, Fetched, KeyCached, FeedFails, FeedSegment, announce_ready,
                  Transferring, Skipped, SegReturns, transfer, getVars
    <2> QED BY <2>1 DEF SegSizes
  <1> QED BY <1>1, <1>2, <1>3, <1>4, <1>5, <1>6, SegWriteSizes, DecryptSizes, Zenon DEF SegNext

\* And so does every step of another component.
LEMMA SizesRest == SegSizes /\ UNCHANGED segVars => SegSizes'
  BY DEF SegSizes, segVars, transfer, getVars

\* The buffer and the documents always fit.
LEMMA SizesAlways == Spec => []SegSizes
  <1>1. Init => SegSizes
    BY SizesStart, Zenon DEF Init
  <1>2. SegInv /\ SegSizes /\ [Next]_vars => SegSizes'
    BY SizesStep, SizesRest, Zenon DEF Next, vars
  <1> QED BY <1>1, <1>2, SegAlways, PTL DEF Spec

-----------------------------------------------------------------------------
(* All of them                                                             *)

\* What runs is one of the five.
OneOfFive == unit \in {"ts_demux", "adts_scan", "m3u8", "browser", "segment"}

\* And remains it.
LEMMA UnitAlways == Spec => []OneOfFive
  <1>1. Init => OneOfFive
    BY DEF Init, OneOfFive
  <1>2. OneOfFive /\ [Next]_vars => OneOfFive'
    BY Zenon DEF Next, vars, OneOfFive
  <1> QED BY <1>1, <1>2, PTL DEF Spec

\* The demuxer's types are part of its invariant.
LEMMA TsTypes == TsInv => TsTypeOk
  <1> SUFFICES ASSUME TsInv PROVE TsTypeOk
    OBVIOUS
  <1>1. Len(air) \in Nat /\ pos \in Nat /\ left \in Nat /\ pos + left <= Len(air)
    BY DEF TsInv
  <1>2. Len(buf) \in Nat /\ Len(buf) <= 2 * PKT /\ (synced => Len(buf) <= PKT)
    <2>1. Len(buf) \in Nat /\ Len(buf) <= Want
      BY DEF TsInv
    <2> QED BY <2>1, Sizes DEF Want
  <1>3. {calling, synced, refused, pat.open, pmt.open} \subseteq BOOLEAN
    <2>1. pat.open \in BOOLEAN /\ pmt.open \in BOOLEAN
      BY DEF TsInv, ParsedOk, Sect
    <2> QED BY <2>1, Zenon DEF TsInv, ParsedOk
  <1>4. {pmt_pid, aud_pid} \subseteq Pids \cup {NoPid}
    BY DEF TsInv, ParsedOk, SomePid
  <1>5. pes.state \in {"idle", "hdr", "skip", "data"} /\ Len(pes.hdr) < PES_HDR
    BY DEF TsInv, ParsedOk, PesType
  <1>6. (\A p \in Pids : cc[p] \in -1..(CC_MOD - 1)) /\ cc_errors \in Nat
    BY DEF TsInv, ParsedOk
  <1>7. resets \in Nat /\ from \in 0..pos /\ junk \in 0..(RESYNC_MAX + PKT)
    BY DEF TsInv
  <1>8. pos \in 0..Len(air) /\ left \in 0..(Len(air) - pos) /\ Len(buf) \in 0..(2 * PKT)
    BY <1>1, <1>2, Sizes
  <1> QED BY <1>2, <1>3, <1>4, <1>5, <1>6, <1>7, <1>8 DEF TsTypeOk

\* And the scanner's.
LEMMA AdtsTypes == ScanInv => AdtsTypeOk
  <1> SUFFICES ASSUME ScanInv PROVE AdtsTypeOk
    OBVIOUS
  <1>1. Len(stream) \in Nat /\ at \in Nat /\ rest \in Nat /\ at + rest <= Len(stream)
    BY DEF ScanInv
  <1>2. at \in 0..Len(stream) /\ rest \in 0..(Len(stream) - at)
    BY <1>1
  <1>3. Len(scan) \in 0..SCAN_CAP
    <2>1. Len(scan) \in Nat /\ Len(scan) <= SCAN_CAP /\ SCAN_CAP \in Nat
      BY AdtsAssumption DEF ScanInv
    <2> QED BY <2>1
  <1>4. {locked, stopped, failed} \subseteq BOOLEAN
    <2>1. failed \in BOOLEAN
      BY DEF ScanInv
    <2> QED BY <2>1, Zenon DEF ScanInv
  <1>5. heard \in 0..at /\ step \in {"out", "fill", "drain"} /\ n0 \in 0..SCAN_CAP
        /\ skip_left \in 0..ID3_MAX
    BY DEF ScanInv
  <1> QED BY <1>2, <1>3, <1>4, <1>5 DEF AdtsTypeOk

\* The playlist's.
LEMMA M3u8AreTyped == M3u8Inv /\ M3u8Types => M3u8TypeOk
  <1> SUFFICES ASSUME M3u8Inv, M3u8Types PROVE M3u8TypeOk
    OBVIOUS
  <1>1. {seen_header, seen_segment_uri, have_extinf, have_streaminf, pending_disc, endlist}
           \subseteq BOOLEAN
    BY Zenon DEF M3u8Inv, M3u8Typed, M3u8Types
  <1>2. {next_seq, media_sequence} \subseteq 0..SEQ_MAX
    BY DEF M3u8Types
  <1> QED BY <1>1, <1>2, Zenon DEF M3u8Types, M3u8TypeOk

\* The browser's.
LEMMA BrowserTypes == BrowserInv => BrowserTypeOk
  <1> SUFFICES ASSUME BrowserInv PROVE BrowserTypeOk
    OBVIOUS
  <1>1. {net_ok, unsaved} \subseteq BOOLEAN
    BY Zenon DEF BrowserInv, Typed
  <1>2. tab \in ToSet(Tabs)
    <2>1. /\ DOMAIN Tabs = 1..4 /\ Tabs[1] = "stations" /\ Tabs[2] = "favourites"
          /\ Tabs[3] = "search" /\ Tabs[4] = "system"
      BY DEF Tabs
    <2>2. tab \in {"stations", "favourites", "search", "system"}
      BY DEF BrowserInv, Typed
    <2>3. \E i \in DOMAIN Tabs : tab = Tabs[i]
      BY <2>1, <2>2
    <2> QED BY <2>3 DEF ToSet
  <1>3. {chip_active, chip_focus} \subseteq DOMAIN Chips
    BY ChipIsLabel DEF BrowserInv, Typed
  <1>4. \A l \in Seq(Row) : UrlsOf(l) \subseteq Urls
    <2> SUFFICES ASSUME NEW l \in Seq(Row), NEW i \in DOMAIN l PROVE l[i].url \in Urls
      BY DEF UrlsOf
    <2>1. l[i] \in Row
      OBVIOUS
    <2> QED BY <2>1 DEF Row
  <1>5. \A l \in {s_stations, s_favs, s_search} : UrlsOf(l) \subseteq Urls
    BY <1>4 DEF BrowserInv, Typed
  <1>6. {s_mirror, answered} \subseteq 0..(MIRRORS - 1) /\ Len(tried) <= MIRRORS
    BY DEF BrowserInv, Typed, Walked
  <1>7. selected \in Nat \ {0} /\ asking \in {Nothing} \cup Queries \cup ToSet(Chips)
    BY DEF BrowserInv, Typed
  <1> QED BY <1>1, <1>2, <1>3, <1>5, <1>6, <1>7, Zenon DEF BrowserTypeOk

\* And the segment's.
LEMMA SegTypes == SegInv /\ SegSizes => SegTypeOk
  <1> SUFFICES ASSUME SegInv, SegSizes PROVE SegTypeOk
    OBVIOUS
  <1>a. PICK A : A = {"idle", "perform", "body", "over", "failed", "done"}
    OBVIOUS
  <1>b. PICK U : U = {""} \cup Addresses
    OBVIOUS
  <1>c. PICK S : S = {0, 200, 302, 404}
    OBVIOUS
  <1>d. PICK B : B = Seq(Piece)
    OBVIOUS
  <1>1. Calls = CallsOver(A, U, B, S)
    BY <1>a, <1>b, <1>c, <1>d, Zenon DEF Calls
  <1>2. get.hops \in Nat /\ GET_MAXREDIRS \in Nat
    BY <1>1, GetAssumption DEF SegInv, SegTyped, CallsOver
  <1>3. GetTypeOk
    BY <1>2 DEF SegSizes, Sized, GetTypeOk
  <1>4. {s_stop, broken} \subseteq BOOLEAN
    BY Zenon DEF SegInv, SegTyped, SegSizes
  <1> QED BY <1>3, <1>4 DEF SegInv, SegTyped, SegSizes, SegTypeOk

\* UnitsTypeOk for every value of the constants: whatever arrives, in whatever pieces, no
\* buffer of the five holds more than its capacity and no counter leaves its range.
THEOREM UnitsKeepTheirTypes == Spec => []UnitsTypeOk
  <1>1. ASSUME TsInv, ScanInv, M3u8Inv, M3u8Types, BrowserInv, SegInv, SegSizes, OneOfFive
        PROVE  UnitsTypeOk
    BY <1>1, TsTypes, AdtsTypes, M3u8AreTyped, BrowserTypes, SegTypes, Zenon
       DEF UnitsTypeOk, OneOfFive
  <1> QED BY <1>1, TsAlways, ScanAlways, M3u8Always, M3u8TypesAlways, BrowserAlways, SegAlways,
             SizesAlways, UnitAlways, PTL

=============================================================================
