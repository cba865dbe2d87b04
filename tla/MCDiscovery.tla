----------------------------- MODULE MCDiscovery -----------------------------
(* Discovery for TLC, beginning with or without a call of ListPipeline that  *)
(* is made and answered before anything else happens.                       *)
EXTENDS Discovery, ListPipeline, TLC

CONSTANTS k1, k2

\* One show; two; two shows of one series, and another.
MCBatches == {<<k1>>, <<k2, k1>>, <<k1, k1, k2>>}

\* A December show, and shows that differ from it in what one filter reads.
Base == [id |-> 1, mal |-> Absent, season |-> "WINTER", month |-> 12, year |-> 2025, format |-> "TV",
         duration |-> Absent, tags |-> {}, relations |-> {"SIDE_STORY"}, title |-> "one"]
Other == [Base EXCEPT !.id = 2, !.mal = 1, !.title = "two"]

MCPriorShows == {Base, Other, [Base EXCEPT !.title = "again"], [Base EXCEPT !.season = "FALL"],
                 [Other EXCEPT !.season = "", !.mal = 2], [Other EXCEPT !.month = 11]}

MCShows == MCPriorShows \cup
  {[Base EXCEPT !.season = "", !.month = Absent], [Base EXCEPT !.season = "", !.month = 4],
   [Base EXCEPT !.duration = 10], [Base EXCEPT !.duration = 11],
   [Base EXCEPT !.tags = {<<"kids", "Kids">>, <<"", "">>}], [Base EXCEPT !.relations = {"PARENT"}],
   [Base EXCEPT !.year = 2026, !.month = 3], [Base EXCEPT !.year = 2026, !.month = 4],
   [Base EXCEPT !.format = "MUSIC"]}

MCSettings == {[includeTypes |-> {"TV"}, excludeTags |-> {"kids", ""}, filterFuture |-> f] : f \in BOOLEAN}

MCMappings == {NoMapping, [mal |-> (1 :> 70), anilist |-> (1 :> 71) @@ (2 :> 72)]}

\* Three months on there is no 30th.
MCNow == [year |-> 2025, month |-> 11, day |-> 30]

MCInit == DiscoveryInit /\ (call = NoCall \/ ((\A y \in Years : row[y] = "fresh") /\ call \in Calls))
Alone(A) == call = NoCall /\ A /\ UNCHANGED call
Within(A) == A /\ UNCHANGED allVars
MCNext ==
  \/ Alone(Serve) \/ Alone(CountSeenMappings) \/ Alone(Insert) \/ Alone(InsertFails)
  \/ Alone(Commit) \/ Alone(Announce) \/ Alone(Restart)
  \/ Within(PipelineNext)
MCSpec == MCInit /\ [][MCNext]_<<allVars, call>>
=============================================================================
