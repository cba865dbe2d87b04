---------------------------- MODULE MappingParse ----------------------------
(***************************************************************************)
(* internal/mapping/parse.go: from a mapping document to the two lookup     *)
(* maps.  The document is what the JSON decoder's tokens say.  Keys may     *)
(* repeat, so an object is a sequence of members:                           *)
(*                                                                         *)
(*   object         [kind, members]  kind: null, scalar, syntax, object     *)
(*   root member    [space, id, value]    space: mal, anilist, meta, other  *)
(*   target member  [tvdb, scope, ranges] tvdb <= 0: no usable descriptor   *)
(*   range member   [first, last, dest]   first <= 0: no number             *)
(*                                                                         *)
(* Equal keys are equal members: numbers are taken to be spelled one way.   *)
(* Go iterates over a map in any order, so the order in which candidates    *)
(* are compared is chosen at every entry.  An int has Width bits.           *)
(***************************************************************************)
EXTENDS Integers, Sequences, FiniteSets, FiniteSetsExt, SequencesExt

CONSTANTS Width,
          Documents  \* sequences of root members

ASSUME WidthAssumption == Width \in Nat \ {0}

\* Only an object has members.
Value(M) == {v \in [kind : {"null", "scalar", "syntax", "object"}, members : Seq(M)] :
               v.kind # "object" => v.members = << >>}
RangeMember  == [first : Int, last : Int, dest : {"ok", "bad"}]
TargetMember == [tvdb : Int, scope : STRING, ranges : Value(RangeMember)]
RootMember   == [space : {"mal", "anilist", "meta", "other"}, id : Int, value : Value(TargetMember)]

ASSUME DocumentsAssumption == Documents \subseteq Seq(RootMember)

VARIABLE parse  \* the parse under way: [doc, at, err, mal, anilist], or NoParse

Open == -1   \* "5": no end
Dash == -2   \* "5-": an empty end

Half    == 2 ^ (Width - 1)
Wrap(n) == ((n + Half) % (2 * Half)) - Half

-----------------------------------------------------------------------------
(* Episode ranges                                                           *)

Invalid(r) == r.first <= 0 \/ (r.last >= 0 /\ r.last < r.first)
sourceRangeCount(r) == IF r.last < 0 THEN 1 ELSE r.last - r.first + 1

\* A range that is repeated counts once.
Distinct(ms) == {[first |-> ms[n].first, last |-> ms[n].last] : n \in DOMAIN ms}
Total(v) == MapThenSumSet(sourceRangeCount, Distinct(v.members))

\* Semantic errors: something else than an object, a destination that is no
\* string, a range that is none.
scanEpisodeRanges(v) ==
  LET err == \/ v.kind = "scalar"
             \/ \E n \in DOMAIN v.members : v.members[n].dest = "bad" \/ Invalid(v.members[n])
  IN  [err |-> err, episodes |-> IF err THEN 0 ELSE Wrap(Total(v))]

-----------------------------------------------------------------------------
(* extractTVDB                                                              *)

DescriptorOf(t) == [tvdb |-> t.tvdb, scope |-> t.scope]

\* The last member with a descriptor counts, with its semantic error.
Latest(ms) == {ms[n] : n \in {n \in DOMAIN ms :
                 /\ ms[n].tvdb > 0
                 /\ \A k \in n + 1 .. Len(ms) : DescriptorOf(ms[k]) # DescriptorOf(ms[n])}}

summary(t) == LET s == scanEpisodeRanges(t.ranges)
              IN  [id |-> t.tvdb, episodes |-> s.episodes, isS1 |-> t.scope = "s1", err |-> s.err]

CompareEpisodes(best, c) ==
  IF c.isS1 # best.isS1 THEN IF c.isS1 THEN c ELSE best
  ELSE IF c.episodes >= best.episodes THEN c ELSE best

\* Season 1 first, then more episodes, then the lower ID.
Compare(best, c) ==
  IF c.isS1 # best.isS1 THEN IF c.isS1 THEN c ELSE best
  ELSE IF \/ c.episodes > best.episodes
          \/ c.episodes = best.episodes /\ c.id < best.id
       THEN c ELSE best

Failure == [err |-> TRUE, tvdb |-> 0]

\* With the map iterated in this order: the show, 0 for none, or an error.
Best(order) ==
  IF \E n \in DOMAIN order : summary(order[n]).err THEN Failure
  ELSE [err |-> FALSE,
        tvdb |-> FoldLeft(LAMBDA best, t : Compare(best, summary(t)),
                          [id |-> 0, episodes |-> -1, isS1 |-> FALSE, err |-> FALSE], order).id]

\* The value is read to its end; then its candidates are compared in this order.
extractTVDB(v, order) ==
  CASE v.kind = "null" -> [err |-> FALSE, tvdb |-> 0]
    [] v.kind = "object" /\ \A n \in DOMAIN v.members : v.members[n].ranges.kind # "syntax" -> Best(order)
    [] OTHER -> Failure

-----------------------------------------------------------------------------
(* parseAnibridgeJSON                                                       *)

NoParse == [at |-> 0]

Started(doc) == [doc |-> doc, at |-> 1, err |-> FALSE, mal |-> << >>, anilist |-> << >>]
Finished == parse # NoParse /\ (parse.err \/ parse.at > Len(parse.doc))

\* skipValue looks at nothing but walks to the value's end: an error of syntax or
\* nesting is fatal wherever in the value it is.
skipValueShallow(v) == v.kind # "syntax"
skipValue(v) == v.kind # "syntax" /\ \A n \in DOMAIN v.members : v.members[n].ranges.kind # "syntax"

\* Metadata, or a field of it, that has a wrong type is only logged; but it too is
\* read to its end, field by field.
parseDatasetMetadata(v) == v.kind \in {"null", "scalar"} \/ skipValue(v)

\* A key with a positive ID in one of the two spaces.
Looked(e) == e.space \in {"mal", "anilist"} /\ e.id > 0

\* A target without a show changes nothing; a later one with a show replaces.
AddEntry(e) ==
  \E order \in SetToSeqs(Latest(e.value.members)) :
    LET r == extractTVDB(e.value, order) IN
    parse' = IF r.err \/ r.tvdb = 0 THEN [parse EXCEPT !.at = @ + 1, !.err = r.err]
             ELSE [parse EXCEPT !.at = @ + 1,
                     ![e.space] = [i \in DOMAIN @ \cup {e.id} |-> IF i = e.id THEN r.tvdb ELSE @[i]]]

PassOver(ok) == parse' = [parse EXCEPT !.at = @ + 1, !.err = ~ok]

\* The next root member.
parseAnibridgeJSON ==
  /\ parse # NoParse /\ ~Finished
  /\ LET e == parse.doc[parse.at] IN
     \/ Looked(e) /\ AddEntry(e)
     \/ e.space = "meta" /\ PassOver(parseDatasetMetadata(e.value))
     \/ e.space # "meta" /\ ~Looked(e) /\ PassOver(skipValue(e.value))

EndParse == Finished /\ parse' = NoParse

\* A parse of one document, or none.
ParseInit == parse = NoParse \/ \E doc \in Documents : parse = Started(doc)
ParseNext == parseAnibridgeJSON \/ EndParse
ParseSpec == ParseInit /\ [][ParseNext]_parse

-----------------------------------------------------------------------------
(* The reference.                                                           *)

\* A value that is no JSON, or nested too deeply, at the top or further down.
Broken(v) == v.kind = "syntax" \/ \E n \in DOMAIN v.members : v.members[n].ranges.kind = "syntax"

\* A value that voids its document if an entry reads it.
Faulty(v) == \/ v.kind = "scalar"
             \/ \E t \in Latest(v.members) : scanEpisodeRanges(t.ranges).err

\* The show of a value, 0 for none: a season-1 scope before the others, then the
\* most episodes, then the lowest ID.  A total that overflows is negative, and
\* outside season 1 such a target counts for nothing.
Show(v) ==
  LET count(t) == Wrap(Total(t.ranges))
      T == {t \in Latest(v.members) : t.scope = "s1" \/ count(t) >= 0}
      best(t) == \A u \in T :
        \/ t.scope = "s1" /\ u.scope # "s1"
        \/ /\ t.scope = "s1" \/ u.scope # "s1"
           /\ count(t) > count(u) \/ (count(t) = count(u) /\ t.tvdb <= u.tvdb)
  IN  IF T = {} THEN 0 ELSE (CHOOSE t \in T : best(t)).tvdb

(***************************************************************************)
(* The mapping does not depend on Go's map iteration order: whatever order  *)
(* the candidates of the entries are compared in, overflowing counts        *)
(* included, a document gives one mapping.  In it a key means the preferred *)
(* show of its last entry that names one, however often it is repeated; and *)
(* the document is void exactly if something in it is broken, under ignored *)
(* keys and in the metadata as well, or a lookup entry is faulty.           *)
(***************************************************************************)
ParseRight ==
  Finished =>
    LET doc == parse.doc
        named(s) == {n \in DOMAIN doc : doc[n].space = s /\ Looked(doc[n]) /\ Show(doc[n].value) > 0}
        bad(e) == Broken(e.value) \/ (Looked(e) /\ Faulty(e.value))
    IN  /\ parse.err <=> \E n \in DOMAIN doc : bad(doc[n])
        /\ ~parse.err => \A s \in {"mal", "anilist"} :
             /\ DOMAIN parse[s] = {doc[n].id : n \in named(s)}
             /\ \A i \in DOMAIN parse[s] :
                  parse[s][i] = Show(doc[Max({n \in named(s) : doc[n].id = i})].value)
=============================================================================
