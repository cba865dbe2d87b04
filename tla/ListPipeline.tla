---------------------------- MODULE ListPipeline ----------------------------
(***************************************************************************)
(* What Scheduler.Process makes of a year's shows: the winter merge, the    *)
(* filters of internal/filter, the lookup in one snapshot of the mapping    *)
(* (internal/mapping/resolve.go) and the response rows.                     *)
(*                                                                         *)
(* A show is a record of the fields the filters read.  A nil pointer is     *)
(* Absent; a tag is <<word, spelling>>, equal under case folding when the   *)
(* words are; a mapping has the partial functions mal and anilist.          *)
(***************************************************************************)
EXTENDS Integers, Sequences, FiniteSets, FiniteSetsExt, SequencesExt

CONSTANTS Shows,         \* the shows of a year's list
          PriorShows,    \* the shows of the list of the year before
          Longest,       \* the length of a list
          Seasons, Categories,
          Mappings,      \* snapshots, NoMapping among them
          Settings,      \* [includeTypes, excludeTags, filterFuture]
          Now            \* [year, month, day]

Show == [id : Int, mal : Int, season : STRING, month : Int, year : Int, format : STRING,
         duration : Int, tags : SUBSET (STRING \X STRING), relations : SUBSET STRING, title : STRING]

\* handleList refuses another season; a parsed mapping has positive IDs only.
ASSUME PipelineAssumption ==
  /\ Longest \in Nat
  /\ Shows \cup PriorShows \subseteq Show
  /\ Seasons \subseteq {"ALL", "WINTER", "SPRING", "SUMMER", "FALL"}
  /\ \A m \in Mappings : /\ \A i \in DOMAIN m.mal : i > 0 /\ m.mal[i] > 0
                         /\ \A i \in DOMAIN m.anilist : i > 0 /\ m.anilist[i] > 0
  /\ \A c \in Settings : c.filterFuture \in BOOLEAN

VARIABLE call  \* the call of Process under way: its arguments, then the mapping
               \* it met and the list it makes; NoCall before and after

Absent    == -1
NoMapping == [mal |-> << >>, anilist |-> << >>]

Lists(S, k) == UNION {[1 .. n -> S] : n \in 0 .. k}

\* What the loops over a list keep of it, appended one by one.
Keep(list, S) == FoldLeft(LAMBDA kept, s : IF s \in S THEN Append(kept, s) ELSE kept, << >>, list)

-----------------------------------------------------------------------------
(* Predicates of anilist.Show                                               *)

\* A show that continues nothing.
IsNew(s) == s.relations \cap {"PREQUEL", "PARENT"} = {}

SkipByDuration(s) == s.duration # Absent /\ s.duration <= 10

\* EqualFold against the words of the list; empty entries are no words.
HasTag(s, word) == \E t \in s.tags : t[1] = word
hasExcludedTag(s, words) == \E w \in words \ {""} : HasTag(s, w)

DaysIn(k) ==
  LET y == k \div 12
      m == (k % 12) + 1
  IN  IF m = 2 THEN IF y % 4 = 0 /\ (y % 100 # 0 \/ y % 400 = 0) THEN 29 ELSE 28
      ELSE IF m \in {4, 6, 9, 11} THEN 30 ELSE 31

\* Months counted from year 0.  AddDate carries a day the target month does
\* not have into the next month.
MonthOf(y, m) == 12 * y + m - 1
Horizon(months) == LET k == MonthOf(Now.year, Now.month) + months
                   IN  IF Now.day > DaysIn(k) THEN k + 1 ELSE k
IsWithinMonths(s, months) ==
  \/ s.year = Absent \/ s.month = Absent
  \/ MonthOf(s.year, s.month) <= Horizon(months)

-----------------------------------------------------------------------------
(* internal/filter                                                          *)

MonthsOf(season) == CASE season = "WINTER" -> {12, 1, 2, 3}
                      [] season = "SPRING" -> 4 .. 6
                      [] season = "SUMMER" -> 7 .. 9
                      [] season = "FALL"   -> {10, 11}

FilterBySeason(shows, season) ==
  Keep(shows, {s \in ToSet(shows) : season = "ALL" \/ s.season = season
                                   \/ (s.season = "" /\ s.month \in MonthsOf(season))})

FilterByFormats(shows, formats) == Keep(shows, {s \in ToSet(shows) : s.format \in formats})

FilterWithStats(shows, words) ==
  Keep(shows, {s \in ToSet(shows) : ~SkipByDuration(s) /\ ~hasExcludedTag(s, words)})

FilterFutureWithStats(shows, months) == Keep(shows, {s \in ToSet(shows) : IsWithinMonths(s, months)})

FilterFirstSeason(shows) == Keep(shows, {s \in ToSet(shows) : IsNew(s)})

-----------------------------------------------------------------------------
(* internal/mapping/resolve.go                                              *)

\* MAL first, AniList as a fallback.
resolveShow(m, s) == IF s.mal > 0 /\ s.mal \in DOMAIN m.mal THEN m.mal[s.mal]
                     ELSE IF s.id > 0 /\ s.id \in DOMAIN m.anilist THEN m.anilist[s.id] ELSE Absent

\* Keyed by AniList ID: of two shows with one ID the later one counts.
ResolveBatch(m, shows) ==
  [i \in {shows[n].id : n \in DOMAIN shows} |->
     LET s == shows[CHOOSE n \in DOMAIN shows :
                      /\ shows[n].id = i
                      /\ \A k \in n + 1 .. Len(shows) : shows[k].id # i]
     IN  [tvdb |-> resolveShow(m, s), title |-> s.title]]

responseShows(shows, batch) ==
  LET resolved == Keep(shows, {s \in ToSet(shows) : batch[s.id].tvdb # Absent})
  IN  [n \in DOMAIN resolved |-> batch[resolved[n].id]]

-----------------------------------------------------------------------------
(* Scheduler.Process                                                        *)

MergeRepeating(shows, prior) ==
  shows \o Keep(FilterBySeason(prior, "WINTER"), {s \in ToSet(prior) : s.month = 12})

\* The December shows of the year before that the year does not list itself.
WinterOverflow(shows, prior) ==
  FoldLeft(LAMBDA acc, s : IF s.month = 12 /\ \A n \in DOMAIN acc : acc[n].id # s.id
                           THEN Append(acc, s) ELSE acc,
           shows, FilterBySeason(prior, "WINTER"))

NoCall == [pc |-> "none"]

\* What handleList passes: the year before only for a winter request.
Calls ==
  {c \in [pc : {"process"}, shows : Lists(Shows, Longest), prior : Lists(PriorShows, Longest), season : Seasons,
          category : Categories, settings : Settings, mapping : {NoMapping}, list : {<< >>}] :
     c.season # "WINTER" => c.prior = << >>}

Process ==
  LET c      == call.settings
      merged == IF call.season = "WINTER" THEN WinterOverflow(call.shows, call.prior) ELSE call.shows
      typed  == FilterByFormats(FilterBySeason(merged, call.season), c.includeTypes)
      tagged == FilterWithStats(typed, c.excludeTags)
      dated  == IF c.filterFuture THEN FilterFutureWithStats(tagged, 3) ELSE tagged
  IN  /\ call.pc = "process"
      /\ call' = [call EXCEPT !.pc = "resolve",
                   !.list = IF call.category = "series-new" THEN FilterFirstSeason(dated) ELSE dated]

\* One snapshot of the mapping, which a refresh may swap at any time, or none.
resolveBatch ==
  /\ call.pc = "resolve"
  /\ \E m \in Mappings :
       call' = [call EXCEPT !.pc = "return", !.mapping = m,
                            !.list = responseShows(@, ResolveBatch(m, @))]

Return == call.pc = "return" /\ call' = NoCall

\* One call, or none.
PipelineInit == call = NoCall \/ call \in Calls
PipelineNext == Process \/ resolveBatch \/ Return
PipelineSpec == PipelineInit /\ [][PipelineNext]_call

-----------------------------------------------------------------------------
(* The reference: which positions of the two lists are in the response.     *)

\* What a list has at these positions, in its order.
At(list, P) ==
  [p \in 1 .. Cardinality(P) |-> list[CHOOSE n \in P : Cardinality({k \in P : k <= n}) = p]]

Airs(s, season) == season = "ALL" \/ s.season = season
                   \/ (s.season = "" /\ s.month >= 1 /\ s.month \in MonthsOf(season))

Wanted(s, season, category, c) ==
  /\ Airs(s, season)
  /\ s.format \in c.includeTypes
  /\ s.duration = Absent \/ s.duration > 10
  /\ \A t \in s.tags : t[1] \in c.excludeTags => t[1] = ""
  /\ c.filterFuture => IsWithinMonths(s, 3)
  /\ category = "series-new" => "PREQUEL" \notin s.relations /\ "PARENT" \notin s.relations

\* A prior show is taken at its first position, if no show of the year has its ID.
Carried(shows, prior, n) ==
  /\ prior[n].month = 12 /\ Airs(prior[n], "WINTER")
  /\ \A k \in DOMAIN shows : shows[k].id # prior[n].id
  /\ \A k \in 1 .. n - 1 : prior[k].id = prior[n].id => ~(prior[k].month = 12 /\ Airs(prior[k], "WINTER"))

Listed(shows, prior, season, category, c) ==
  LET all == shows \o prior
      in(n) == /\ n <= Len(shows) \/ (season = "WINTER" /\ Carried(shows, prior, n - Len(shows)))
               /\ Wanted(all[n], season, category, c)
  IN  At(all, {n \in DOMAIN all : in(n)})

(***************************************************************************)
(* The response is the right one: over every pair of lists, the staged,     *)
(* slice-compacting pipeline returns in their order exactly the wanted      *)
(* shows that the mapping snapshot knows, a December show of the year       *)
(* before only if no show with its ID is there already, and each with the   *)
(* TVDB ID and title of the last entry of its AniList ID.                   *)
(***************************************************************************)
ResponseRight ==
  call.pc = "return" =>
    LET m    == call.mapping
        list == Listed(call.shows, call.prior, call.season, call.category, call.settings)
        known(s) == (s.mal > 0 /\ s.mal \in DOMAIN m.mal) \/ s.id \in DOMAIN m.anilist
        last(i) == list[Max({n \in DOMAIN list : list[n].id = i})]
        rows == At(list, {n \in DOMAIN list : known(last(list[n].id))})
    IN  call.list = [n \in DOMAIN rows |->
                       LET s == last(rows[n].id) IN
                       [tvdb |-> IF s.mal \in DOMAIN m.mal THEN m.mal[s.mal] ELSE m.anilist[s.id],
                        title |-> s.title]]
=============================================================================
