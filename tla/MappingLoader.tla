---------------------------- MODULE MappingLoader ----------------------------
(***************************************************************************)
(* internal/mapping/loader.go and loadResolver of the scheduler: how the    *)
(* AniBridge mapping gets from the configured URL to the mapping file, its  *)
(* metadata sidecar, the loader's memory and the active resolver.           *)
(*                                                                         *)
(* Loads are serialised by a gate, so one load runs at a time; between its  *)
(* steps the upstream may change, the file may be edited, the call may be   *)
(* cancelled and the process may die.  A digest and an MD5 are represented  *)
(* by the content they were taken from; ETags tell the versions of one URL  *)
(* apart, but those of two URLs may coincide.                               *)
(***************************************************************************)
EXTENDS Naturals

CONSTANTS URLs, Contents,
          From,     \* content -> the URL that serves it
          ETags, ETag, \* content -> the ETag it is served with
          Corrupt,  \* bytes that do not parse
          Faults,   \* which of edit, url, crash, sidecar this instance allows
          None

ASSUME LoaderAssumption == /\ From \in [Contents -> URLs]
                           /\ \A u \in URLs : \E c \in Contents : From[c] = u
                           /\ ETag \in [Contents -> ETags]
                           /\ \A c, d \in Contents :
                                 From[c] = From[d] /\ ETag[c] = ETag[d] => c = d
                           /\ Corrupt \notin Contents
                           /\ None \notin Contents \cup URLs \cup ETags \cup {Corrupt}
                           /\ Faults \subseteq {"edit", "url", "crash", "sidecar"}

VARIABLES
  url,       \* AnibridgeURL of this process
  upstream,  \* URL -> what it serves now
  file,      \* the mapping file: None, Corrupt or a content
  side,      \* the sidecar: [url, etag, md5], all None when missing or invalid
  state,     \* Loader.state: [url, content], all None when nothing is parsed
  active,    \* the resolver's mapping, or None
  pc, meta, canUse, data, newMeta, res,  \* the load under way
  outcome,   \* how the last loadResolver ended
  edited,    \* history: the file was edited during the load
  intact     \* history: no edit, crash in mid-load or lost sidecar write yet

disk   == <<file, side>>
memory == <<state, active>>
load   == <<pc, meta, canUse, data, newMeta, res>>
hist   == <<edited, intact>>
vars   == <<url, upstream, disk, memory, load, outcome, hist>>

NoMeta   == [url |-> None, etag |-> None, md5 |-> None]
NoSource == [url |-> None, content |-> None]
NoResult == [kind |-> "none", content |-> None]
Serves(u) == {c \in Contents : From[c] = u}

Reset == /\ meta' = NoMeta /\ canUse' = FALSE /\ data' = None
         /\ newMeta' = NoMeta /\ res' = NoResult

Init ==
  /\ url \in URLs
  /\ upstream \in {f \in [URLs -> Contents] : \A u \in URLs : From[f[u]] = u}
  /\ file = None /\ side = NoMeta
  /\ state = NoSource /\ active = None
  /\ pc = "idle" /\ meta = NoMeta /\ canUse = FALSE /\ data = None
  /\ newMeta = NoMeta /\ res = NoResult
  /\ outcome = "none" /\ edited = FALSE /\ intact = TRUE

\* The load ends without a new mapping; the active one stays.
Fail(how) ==
  /\ pc' = "idle" /\ Reset
  /\ outcome' = how
  /\ UNCHANGED <<url, upstream, disk, memory, hist>>

\* Loader.matches: the bytes are those the memory was parsed from.
matches(c) == state = [url |-> url, content |-> c]

\* Loader.local succeeds, and what it answers for disposition d.
Usable == file \in Contents
local(d) == [kind |-> IF matches(file) /\ d # "fallback" THEN "reused" ELSE d, content |-> file]

Select(r, l) ==
  /\ res' = r
  /\ pc' = l
  /\ UNCHANGED <<url, upstream, disk, memory, meta, canUse, data, newMeta, outcome, hist>>

-----------------------------------------------------------------------------
UrlChangedNever == FALSE
UrlChangedUnlessLoaded == file # None /\ (state.url # url \/ (side.url # None /\ side.url # url))

\* The file on disk is known to come from another URL.
UrlChanged == /\ file # None
              /\ \/ side.url # None /\ side.url # url
                 \/ state.url # None /\ state.url # url

Begin ==
  /\ pc = "idle"
  /\ canUse' = (file # None /\ ~UrlChanged)
  /\ meta' = IF UrlChanged THEN NoMeta ELSE side
  /\ pc' = IF canUse' /\ meta'.etag # None THEN "head" ELSE "get"
  /\ edited' = FALSE
  /\ UNCHANGED <<url, upstream, disk, memory, data, newMeta, res, outcome, intact>>

\* HEAD: an unchanged ETag selects the local file, if that can be read;
\* anything else goes on to the download.
HeadRequest ==
  /\ pc = "head"
  /\ \/ ETag[upstream[url]] = meta.etag /\ Usable /\ Select(local("loaded"), "publish")
     \/ Select(NoResult, "get")

\* GET fails: fall back to the local file when it is this URL's.
GetFails ==
  /\ pc = "get"
  /\ IF canUse /\ Usable THEN Select(local("fallback"), "publish") ELSE Fail("failed")

\* GET answers; without a checksum header damaged bytes go unnoticed.
Get ==
  /\ pc = "get"
  /\ \E c \in {upstream[url], Corrupt}, e \in {ETag[upstream[url]], None}, h \in {None, upstream[url]} :
        /\ h # None => c = h
        /\ data' = c
        /\ newMeta' = [url |-> url, etag |-> e, md5 |-> h]
  /\ pc' = "check"
  /\ UNCHANGED <<url, upstream, disk, memory, meta, canUse, res, outcome, hist>>

ReuseTrustingDisk == Select([kind |-> "reused", content |-> data], "side")

\* The download is what is in memory: no parsing, but repair the file.
Reuse == Select([kind |-> "reused", content |-> data], IF file = data THEN "side" ELSE "write")

\* What becomes of a complete download.
Check ==
  /\ pc = "check"
  /\ IF matches(data) THEN Reuse
     ELSE IF canUse /\ meta.md5 # None /\ meta.md5 = newMeta.md5 /\ Usable
          THEN Select(local("loaded"), "side")
     ELSE IF data # Corrupt THEN Select([kind |-> "loaded", content |-> data], "write")
     ELSE IF canUse /\ Usable THEN Select(local("fallback"), "publish")
     ELSE Fail("failed")

WriteInPlace ==
  /\ pc = "write"
  /\ file' \in {data, Corrupt}
  /\ pc' = "side"
  /\ UNCHANGED <<url, upstream, side, memory, meta, canUse, data, newMeta, res, outcome, hist>>

\* writeFileAtomic: a temporary file, renamed over the old one.
Write ==
  /\ pc = "write"
  /\ file' = data
  /\ pc' = "side"
  /\ UNCHANGED <<url, upstream, side, memory, meta, canUse, data, newMeta, res, outcome, hist>>

WriteFails == pc = "write" /\ Fail("failed")

\* saveKeySnapshot: a failure is logged and ignored.
WriteSide ==
  /\ pc = "side"
  /\ \/ side' = newMeta /\ UNCHANGED intact
     \/ "sidecar" \in Faults /\ UNCHANGED side /\ intact' = FALSE
  /\ pc' = "publish"
  /\ UNCHANGED <<url, upstream, file, memory, meta, canUse, data, newMeta, res, outcome, edited>>

PublishUnlessReused ==
  /\ pc = "publish"
  /\ state' = [url |-> url, content |-> res.content]
  /\ \/ active' = (IF res.kind = "reused" THEN active ELSE res.content) /\ outcome' = res.kind
     \/ UNCHANGED active /\ outcome' = "canceled"
  /\ pc' = "idle" /\ Reset
  /\ UNCHANGED <<url, upstream, disk, hist>>

\* Load remembers its source, loadResolver installs the mapping if it differs.
\* A context that ends in between leaves only the former behind.
Publish ==
  /\ pc = "publish"
  /\ state' = [url |-> url, content |-> res.content]
  /\ \/ active' = res.content /\ outcome' = res.kind
     \/ UNCHANGED active /\ outcome' = "canceled"
  /\ pc' = "idle" /\ Reset
  /\ UNCHANGED <<url, upstream, disk, hist>>

\* The context ends at one of the load's checks; there is none between the
\* file and its sidecar.
Cancel == pc \notin {"idle", "side"} /\ Fail("canceled")

-----------------------------------------------------------------------------
\* The process ends, in mid-load only if it crashes, and starts again.
Restart(u) ==
  /\ pc = "idle" \/ "crash" \in Faults
  /\ u = url \/ "url" \in Faults
  /\ url' = u
  /\ state' = NoSource /\ active' = None
  /\ pc' = "idle" /\ Reset
  /\ outcome' = "none"
  /\ intact' = (intact /\ pc = "idle")
  /\ UNCHANGED <<upstream, disk, edited>>

\* Somebody edits, damages or removes the mapping file.
Edit ==
  /\ "edit" \in Faults
  /\ file' \in Contents \cup {Corrupt, None}
  /\ file' # file
  /\ edited' = TRUE
  /\ intact' = FALSE
  /\ UNCHANGED <<url, upstream, side, memory, load, outcome>>

\* The source publishes something else.
Release(u) ==
  /\ \E c \in Serves(u) \ {upstream[u]} : upstream' = [upstream EXCEPT ![u] = c]
  /\ UNCHANGED <<url, disk, memory, load, outcome, hist>>

Load == Begin \/ HeadRequest \/ GetFails \/ Get \/ Check \/ Write \/ WriteFails \/ WriteSide \/ Publish \/ Cancel

Next == Load \/ Edit \/ \E u \in URLs : Restart(u) \/ Release(u)

Spec == Init /\ [][Next]_vars

-----------------------------------------------------------------------------
Successes == {"loaded", "reused", "fallback"}

(***************************************************************************)
(* A load that reports success leaves resolver and loader agreeing, also    *)
(* when an earlier load was cancelled between the two: otherwise a later    *)
(* reuse would vouch for a mapping nobody serves.                           *)
(***************************************************************************)
Synced == outcome \in Successes => active = state.content

(***************************************************************************)
(* The loader never costs the last usable copy: whatever upstream serves    *)
(* and wherever a load stops, a file that parses is only ever replaced by   *)
(* one that parses.                                                         *)
(***************************************************************************)
UsableKept == [][Usable /\ ~Edit => file' \in Contents]_vars

(***************************************************************************)
(* Reuse is verified: a load that reports unchanged content leaves that     *)
(* content on disk, repaired if it had been lost or edited before.          *)
(***************************************************************************)
ReuseVerified == pc = "publish" /\ res.kind = "reused" /\ ~edited => file = res.content

(***************************************************************************)
(* "A changed URL does not reuse the old source as a successful refresh,    *)
(* even if its cached ETag resembles the new source's ETag": a load that is *)
(* not a fallback yields content of the configured URL.                     *)
(***************************************************************************)
UrlHonoured == outcome \in {"loaded", "reused"} => From[active] = url

\* So it is, across restarts and changes of URL, as long as no crash, edit or
\* lost write has separated the file from its sidecar.
UrlHonouredIntact == intact => UrlHonoured

(***************************************************************************)
(* A failed download falls back to the local copy, after a restart too: a   *)
(* load does not leave the resolver without a mapping while a usable file   *)
(* downloaded from the configured URL lies, with its sidecar, on disk.      *)
(***************************************************************************)
LocalCopyServes ==
  [][intact /\ pc = "get" /\ outcome' = "failed" /\ pc' = "idle" /\ active' = None
       => ~(Usable /\ From[file] = url)]_vars
=============================================================================
