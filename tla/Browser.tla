------------------------------ MODULE Browser -------------------------------
(***************************************************************************)
(* src/src/main.c's station browser: the four tabs, the three lists and    *)
(* the filter chips, with station_list.c and the directory client of       *)
(* rbrowser.c.  A step is one handler of the main loop, or one mirror tried *)
(* while a request blocks it.  The handlers of CROSS and CIRCLE, START and *)
(* the System rows belong to the player, the updater and the settings file *)
(* and leave this state alone.                                             *)
(***************************************************************************)
EXTENDS Integers, Sequences, FiniteSets, FiniteSetsExt, SequencesExt

CONSTANTS Urls,             \* the stations' addresses
          NoUrl,            \* an address that is missing or does not fit
          Chips,            \* the labels of the filter chips, the built-in one first
          Queries,          \* what is typed into the keyboard
          Directory,        \* the rows for a chip (the built-in ones too) or a query
          LIMIT,            \* SEARCH_LIMIT
          MIRRORS,          \* RB_MIRROR_COUNT
          Presses           \* the sets of buttons pressed at once

ASSUME BrowserAssumption ==
    /\ IsFiniteSet(Urls) /\ NoUrl \notin Urls
    /\ Chips \in Seq(STRING) /\ Chips # <<>> /\ Queries \cap ToSet(Chips) = {}
    /\ Directory \in [ToSet(Chips) \cup Queries -> Seq(Urls \cup {NoUrl})]
    /\ Directory[Chips[1]] \in Seq(Urls)
    /\ LIMIT \in Nat \ {0} /\ MIRRORS \in Nat \ {0}

VARIABLES
    net_ok,
    tab, selected, chip_active, chip_focus,
    s_stations, s_favs, s_search,       \* sequences of [url, is_fav]
    s_stations_label, s_search_label,
    s_mirror,
    pressed,        \* the buttons of this frame still to be handled
    asking,         \* the chip or query being fetched, or Nothing
    tried,          \* the mirrors tried for it
    answered,       \* the mirror that answered last
    file,           \* favourites.tsv
    unsaved         \* the file could not be read, or not be written the last time

app         == <<tab, selected, chip_active, chip_focus>>
lists       == <<s_stations, s_favs, s_search, s_stations_label, s_search_label>>
fetch       == <<s_mirror, asking, tried, answered>>
saving      == <<file, unsaved>>
browserVars == <<net_ok, app, lists, fetch, pressed, saving>>

Nothing == "nothing"
Tabs    == <<"stations", "favourites", "search", "system">>

-----------------------------------------------------------------------------
(* Lists                                                                   *)

UrlsOf(l) == {l[i].url : i \in DOMAIN l}

\* mark_favourites.
Marked(l, favs) == [i \in DOMAIN l |-> [l[i] EXCEPT !.is_fav = l[i].url \in UrlsOf(favs)]]

\* build_result walks the rows and leaves out those without an address.
WithUrl(rows) ==
    LET among[n \in 0..Len(rows)] ==
            IF n = 0 THEN <<>>
            ELSE IF rows[n] = NoUrl THEN among[n - 1] ELSE Append(among[n - 1], rows[n])
    IN among[Len(rows)]

\* The built-in stations are a table in the program; of others LIMIT are asked for.
Rows(what) ==
    LET rows == Directory[what]
    IN IF what = Chips[1] THEN rows ELSE WithUrl(SubSeq(rows, 1, Min({LIMIT, Len(rows)})))

\* sl_add over those rows, as many as there is memory for.
Added(rows) ==
    {[i \in 1..n |-> [url |-> rows[i], is_fav |-> FALSE]] : n \in 0..Len(rows)}

list_for_tab ==
    CASE tab = "stations"   -> s_stations
      [] tab = "favourites" -> s_favs
      [] tab = "search"     -> s_search
      [] tab = "system"     -> <<>>

-----------------------------------------------------------------------------
(* The frame                                                               *)

Button == <<"up", "down", "ltrigger", "rtrigger", "select", "left", "right",
            "triangle", "square">>

\* main loads the favourites and shows the built-in list.
BrowserStart(online, saved, read_ok, builtin) ==
    /\ net_ok = online /\ file = saved /\ unsaved = ~read_ok
    /\ s_favs = IF read_ok THEN [i \in DOMAIN saved |-> [url |-> saved[i], is_fav |-> TRUE]]
                ELSE <<>>
    /\ s_stations = Marked(builtin, s_favs) /\ s_search = <<>>
    /\ s_stations_label = Chips[1] /\ s_search_label = Nothing
    /\ tab = "stations" /\ selected = 1 /\ chip_active = 1 /\ chip_focus = 1
    /\ s_mirror = 0 /\ answered = 0
    /\ pressed = {} /\ asking = Nothing /\ tried = <<>>

BrowserInit ==
    \E online \in BOOLEAN, read_ok \in BOOLEAN, builtin \in Added(Rows(Chips[1])),
       saved \in {s \in SeqOf(Urls, Cardinality(Urls)) : IsInjective(s)} :
       BrowserStart(online, saved, read_ok, builtin)

Clamped(i, l) == Max({1, Min({i, Len(l)})})

\* The top of the loop: the selection is pulled back into the list, and the pad
\* is read.  While an update is being installed only up and down count.
FrameStarts ==
    /\ pressed = {} /\ asking = Nothing
    /\ pressed' \in Presses
    /\ selected' = IF tab = "system" THEN selected ELSE Clamped(selected, list_for_tab)
    /\ UNCHANGED <<net_ok, tab, chip_active, chip_focus, lists, fetch, saving>>

Place(b) == CHOOSE i \in DOMAIN Button : Button[i] = b

\* The handlers take the buttons in the order of the code.
Handles(b) ==
    /\ asking = Nothing /\ b \in pressed
    /\ \A c \in pressed : Place(b) <= Place(c)
    /\ pressed' = pressed \ {b}

Move(b) ==
    /\ b \in {"up", "down"} /\ Handles(b)
    /\ selected' = IF list_for_tab = <<>> THEN selected
                   ELSE Clamped(selected + (IF b = "up" THEN -1 ELSE 1), list_for_tab)
    /\ UNCHANGED <<net_ok, tab, chip_active, chip_focus, lists, fetch, saving>>

\* wrap_index, from 1.
Wrapped(i, d, n) == ((i - 1 + d) % n) + 1

SwitchTab(b) ==
    /\ b \in {"ltrigger", "rtrigger", "select"} /\ Handles(b)
    /\ tab' = IF b = "select" THEN "system"
              ELSE LET at == CHOOSE i \in DOMAIN Tabs : Tabs[i] = tab
                   IN Tabs[Wrapped(at, IF b = "ltrigger" THEN -1 ELSE 1, Len(Tabs))]
    /\ selected' = 1
    /\ UNCHANGED <<net_ok, chip_active, chip_focus, lists, fetch, saving>>

\* The Stations tab shows what chip c stands for.
ShowsChip(c) ==
    /\ \E l \in Added(Rows(Chips[c])) : s_stations' = Marked(l, s_favs)
    /\ s_stations_label' = Chips[c] /\ chip_active' = c /\ selected' = 1
    /\ UNCHANGED <<s_favs, s_search, s_search_label>>

\* rb_top_click, rb_by_tag, rb_by_country, rb_search_name: the request blocks.
Asks(what) == asking' = what /\ tried' = <<>> /\ UNCHANGED <<s_mirror, answered>>

StepChip(b) ==
    /\ b \in {"left", "right"} /\ Handles(b)
    /\ IF tab # "stations" THEN UNCHANGED <<app, lists, fetch>>
       ELSE /\ chip_focus' = Wrapped(chip_focus, IF b = "left" THEN -1 ELSE 1, Len(Chips))
            /\ UNCHANGED tab
            /\ \/ chip_focus' = 1 /\ ShowsChip(1) /\ UNCHANGED fetch
               \/ chip_focus' # 1 /\ ~net_ok /\ UNCHANGED <<selected, chip_active, lists, fetch>>
               \/ /\ chip_focus' # 1 /\ net_ok /\ Asks(Chips[chip_focus'])
                  /\ UNCHANGED <<selected, chip_active, lists>>
    /\ UNCHANGED <<net_ok, saving>>

\* Faulty variant: the stars of the lists not on the screen stay.
NotRemarked(l, favs) == l

Remarked(l, favs) == Marked(l, favs)

\* sl_find_url finds the first entry of that address.
Found(l, url) ==
    CHOOSE i \in DOMAIN l : l[i].url = url /\ \A j \in 1..(i - 1) : l[j].url # url

\* sl_remove closes the gap.
Without(l, at) == RemoveAt(l, at)

\* "Out of memory" leaves everything alone.
Toggled(url) ==
    IF url \in UrlsOf(s_favs) THEN {Without(s_favs, Found(s_favs, url))}
    ELSE {s_favs, Append(s_favs, [url |-> url, is_fav |-> TRUE])}

\* toggle_favourite; fav_save keeps the old file when it fails.
Toggle ==
    /\ Handles("triangle")
    /\ IF selected \notin DOMAIN list_for_tab THEN UNCHANGED <<lists, saving>>
       ELSE /\ s_favs' \in Toggled(list_for_tab[selected].url)
            /\ IF s_favs' = s_favs THEN UNCHANGED <<s_stations, s_search, saving>>
               ELSE /\ s_stations' = Remarked(s_stations, s_favs')
                    /\ s_search' = Remarked(s_search, s_favs')
                    /\ \/ file' = [i \in DOMAIN s_favs' |-> s_favs'[i].url] /\ unsaved' = FALSE
                       \/ file' = file /\ unsaved' = TRUE
            /\ UNCHANGED <<s_stations_label, s_search_label>>
    /\ UNCHANGED <<net_ok, app, fetch>>

\* The keyboard may be unavailable or be closed without a query.
Search ==
    /\ Handles("square")
    /\ \/ UNCHANGED fetch
       \/ net_ok /\ \E query \in Queries : Asks(query)
    /\ UNCHANGED <<net_ok, app, lists, saving>>

-----------------------------------------------------------------------------
(* The request: fetch_path over the mirrors, and what is done with the answer *)

Mirror == (s_mirror + Len(tried)) % MIRRORS

\* Faulty variant: a mirror is remembered before it has answered.
RememberedEarly(m) == m

\* "the one that answered last is tried first next time"
AfterFailure(m) == s_mirror

MirrorFails ==
    /\ asking # Nothing /\ Len(tried) < MIRRORS
    /\ tried' = Append(tried, Mirror)
    /\ s_mirror' = AfterFailure(Mirror)
    /\ UNCHANGED <<net_ok, app, lists, asking, answered, pressed, saving>>

\* The call returns; the buttons of this frame are handled on.
Returned == asking' = Nothing /\ tried' = <<>>

\* No mirror answered: the results on the screen stay.
NoAnswer ==
    /\ asking # Nothing /\ Len(tried) = MIRRORS
    /\ Returned
    /\ UNCHANGED <<net_ok, app, lists, s_mirror, answered, pressed, saving>>

ShowsSearch ==
    /\ \E l \in Added(Rows(asking)) : s_search' = Marked(l, s_favs)
    /\ s_search_label' = asking
    /\ tab' = "search" /\ selected' = 1
    /\ UNCHANGED <<chip_active, s_stations, s_favs, s_stations_label>>

\* rb_fetch: a body that is not a JSON array is a failure like any other.
BadAnswer == UNCHANGED <<app, lists>>

Answer ==
    /\ asking # Nothing /\ Len(tried) < MIRRORS
    /\ s_mirror' = Mirror /\ answered' = Mirror
    /\ Returned
    /\ \/ BadAnswer
       \/ asking \in Queries /\ ShowsSearch /\ UNCHANGED chip_focus
       \/ asking \notin Queries /\ ShowsChip(chip_focus) /\ UNCHANGED <<tab, chip_focus>>
    /\ UNCHANGED <<net_ok, pressed, saving>>

BrowserNext ==
    \/ FrameStarts
    \/ \E b \in pressed : Move(b) \/ SwitchTab(b) \/ StepChip(b)
    \/ Toggle \/ Search
    \/ MirrorFails \/ NoAnswer \/ Answer

-----------------------------------------------------------------------------
(* Properties                                                              *)

BrowserTypeOk ==
    /\ {net_ok, unsaved} \subseteq BOOLEAN
    /\ tab \in ToSet(Tabs) /\ selected \in Nat \ {0}
    /\ {chip_active, chip_focus} \subseteq DOMAIN Chips
    /\ \A l \in {s_stations, s_favs, s_search} : UrlsOf(l) \subseteq Urls
    /\ {s_mirror, answered} \subseteq 0..(MIRRORS - 1) /\ Len(tried) <= MIRRORS
    /\ asking \in {Nothing} \cup Queries \cup ToSet(Chips)

\* What is on the screen is true, whichever tab, chip, search and toggles came
\* before, and whatever failed: a star on a row of any list means the address is a
\* favourite, and a favourite is in the file unless reading or writing it failed;
\* the list under a label, and under the active chip, is what the directory sent
\* for it (main.c:259-306, 536-603, 666-723).
ScreenIsTrue ==
    /\ \A l \in {s_stations, s_favs, s_search} : \A i \in DOMAIN l :
          l[i].is_fav = (l[i].url \in UrlsOf(s_favs))
    /\ unsaved \/ ToSet(file) = UrlsOf(s_favs)
    /\ s_stations_label = Chips[chip_active]
    /\ IsPrefix([i \in DOMAIN s_stations |-> s_stations[i].url], Rows(s_stations_label))
    /\ s_search # <<>> =>
          IsPrefix([i \in DOMAIN s_search |-> s_search[i].url], Rows(s_search_label))

\* "every request walks this list and the one that answered last is tried first
\* next time" (rbrowser.c:12-14, 205-228): no mirror is asked twice for one
\* request, the first is the last that answered, and a request fails for want of
\* a mirror only when all of them have been tried.
EveryMirrorOnce ==
    /\ IsInjective(tried)
    /\ tried # <<>> => Head(tried) = answered
    /\ asking # Nothing /\ Len(tried) = MIRRORS => ToSet(tried) = 0..(MIRRORS - 1)

=============================================================================
