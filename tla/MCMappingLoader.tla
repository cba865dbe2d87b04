--------------------------- MODULE MCMappingLoader ---------------------------
(* MappingLoader for TLC, beginning with or without a document MappingParse  *)
(* is run on before anything is loaded.                                     *)
EXTENDS MappingLoader, MappingParse, TLC

CONSTANTS urlA, urlB, a1, a2, b1, t1, t2

\* URL A publishes two versions, URL B one.
MCFrom == (a1 :> urlA) @@ (a2 :> urlA) @@ (b1 :> urlB)

\* B's version happens to carry the ETag of A's first one.
MCETag == (a1 :> t1) @@ (a2 :> t2) @@ (b1 :> t1)

Object(ms)  == [kind |-> "object", members |-> ms]
Plain(k)    == [kind |-> k, members |-> << >>]
Episodes(a, b, d) == [first |-> a, last |-> b, dest |-> d]

\* Nothing, a scalar, three episodes, the same three and two spellings of one
\* more, an inverted range, a bad destination, and more than four bits count.
MCRanges == {Plain("null"), Plain("scalar"), Object(<<Episodes(1, 3, "ok")>>),
             Object(<<Episodes(1, 3, "ok"), Episodes(1, 3, "ok"), Episodes(5, Open, "ok"), Episodes(5, Dash, "ok")>>),
             Object(<<Episodes(3, 1, "ok"), Episodes(1, 3, "bad")>>),
             Object(<<Episodes(1, 7, "ok"), Episodes(2, 7, "ok")>>)}

Target(i, s, r) == [tvdb |-> i, scope |-> s, ranges |-> r]
MCTargets == {Target(i, s, r) : i \in {1, 2}, s \in {"s1", "s2"}, r \in MCRanges} \cup {Target(0, "s1", Plain("scalar"))}

\* All entries of at most three targets, and all pairs of simple entries.
Entry(s, i, v) == [space |-> s, id |-> i, value |-> v]
MCValues == {Plain("null"), Plain("scalar"), Plain("syntax")}
              \cup {Object(<<t>>) : t \in MCTargets} \cup {Object(<<Target(i, "s1", Plain("syntax"))>>) : i \in {0, 1}}
MCEntries == {Entry(s, i, v) : s \in {"mal", "anilist", "meta", "other"}, i \in {0, 1}, v \in MCValues}
MCDocuments == {<<Entry("mal", 1, Object(ms))>> : ms \in UNION {[1 .. n -> MCTargets] : n \in 0 .. 3}}
                 \cup [1 .. 2 -> MCEntries]

MCInit == Init /\ ParseInit /\ (parse = NoParse \/ (url = urlA /\ upstream[urlA] = a1))
Alone(A) == parse = NoParse /\ A /\ UNCHANGED parse
Within(A) == A /\ UNCHANGED vars
MCNext ==
  \/ Alone(Begin) \/ Alone(HeadRequest) \/ Alone(GetFails) \/ Alone(Get) \/ Alone(Check)
  \/ Alone(Write) \/ Alone(WriteFails) \/ Alone(WriteSide) \/ Alone(Publish) \/ Alone(Cancel)
  \/ Alone(Edit) \/ \E u \in URLs : Alone(Restart(u)) \/ Alone(Release(u))
  \/ Within(ParseNext)
MCSpec == MCInit /\ [][MCNext]_<<vars, parse>>
=============================================================================
