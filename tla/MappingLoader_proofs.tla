------------------------ MODULE MappingLoader_proofs ------------------------
(***************************************************************************)
(* Proofs about MappingLoader, for every set of URLs and contents, every    *)
(* assignment of ETags that tells the versions of one URL apart, and every  *)
(* combination of faults; and about MappingParse, for every set of          *)
(* documents, every width of an int and every map iteration order.          *)
(*                                                                         *)
(* The folds of the parser have no theorem an installed prover can use: the *)
(* library's induction takes an operator.  FoldExists is the induction they *)
(* need, by a least counterexample, and each fold is then read off as a     *)
(* function.                                                                *)
(***************************************************************************)
EXTENDS MappingLoader, MappingParse, FiniteSetTheorems, WellFoundedInduction, TLAPS

-----------------------------------------------------------------------------
(* The inductive invariant                                                  *)

Bytes  == Contents \cup {Corrupt, None}
Meta   == [url : URLs \cup {None}, etag : ETags \cup {None}, md5 : Contents \cup {None}]
Source == [url : URLs \cup {None}, content : Contents \cup {None}]
Result == [kind : {"none", "loaded", "reused", "fallback"}, content : Contents \cup {None}]

LoaderType ==
  /\ url \in URLs
  /\ upstream \in [URLs -> Contents] /\ \A u \in URLs : From[upstream[u]] = u
  /\ file \in Bytes /\ side \in Meta
  /\ state \in Source /\ active \in Contents \cup {None}
  /\ pc \in {"idle", "head", "get", "check", "write", "side", "publish"}
  /\ meta \in Meta /\ canUse \in BOOLEAN /\ data \in Bytes
  /\ newMeta \in Meta /\ res \in Result
  /\ edited \in BOOLEAN /\ intact \in BOOLEAN

\* What memory was parsed from came from this process's URL.
StateOfUrl == state.url \in {None, url}

\* The metadata m describes content c of URL u.
Describes(m, u, c) == m.url = u /\ m.etag \in {None, ETag[c]} /\ m.md5 \in {None, c}

\* A load that has its bytes: where they are from and what newMeta says of them.
Downloaded ==
  pc \in {"check", "write", "side"} =>
    /\ newMeta.url = url
    /\ data # None
    /\ data \in Contents => From[data] = url /\ Describes(newMeta, url, data)
    /\ newMeta.md5 # None => data = newMeta.md5

\* A load that has selected its result.
Selected ==
  /\ pc \in {"write", "side", "publish"} => res.content \in Contents /\ res.kind # "none"
  /\ pc = "write" => data \in Contents /\ res.content = data
  /\ pc \in {"side", "publish"} /\ res.kind = "reused" /\ ~edited => file = res.content

(***************************************************************************)
(* As long as nothing has separated them, file and sidecar agree outside    *)
(* the window between their two writes; inside it the file is the download. *)
(***************************************************************************)
DiskAgrees ==
  intact => /\ file # Corrupt
            /\ pc = "side" => file = data
            /\ pc # "side" /\ file \in Contents => Describes(side, From[file], file)
            /\ file = None /\ pc # "side" => side = NoMeta

\* What a load took from the disk when it began is still true of the disk.
BeganOnDisk ==
  intact /\ pc \in {"head", "get", "check"} =>
    /\ meta \in {NoMeta, side}
    /\ canUse => file # None /\ side.url \in {None, url}
    /\ file \in Contents /\ From[file] = url => canUse

\* A result that is not a fallback is content of the configured URL.
ResultOfUrl ==
  intact /\ pc \in {"write", "side", "publish"} /\ res.kind \in {"loaded", "reused"} =>
    From[res.content] = url

LoaderInv == /\ LoaderType /\ StateOfUrl /\ Downloaded /\ Selected
             /\ DiskAgrees /\ BeganOnDisk /\ ResultOfUrl
             /\ (pc = "head" => canUse) /\ Synced /\ UrlHonouredIntact

-----------------------------------------------------------------------------
LEMMA LoaderInit == Init => LoaderInv
<1> SUFFICES ASSUME Init PROVE LoaderInv
  OBVIOUS
<1> USE LoaderAssumption
<1>1. LoaderType
  BY DEF Init, LoaderType, Bytes, Meta, Source, Result, NoMeta, NoSource, NoResult
<1>2. StateOfUrl /\ Downloaded /\ Selected /\ BeganOnDisk /\ ResultOfUrl /\ Synced /\ UrlHonouredIntact
  BY DEF Init, StateOfUrl, Downloaded, Selected, BeganOnDisk, ResultOfUrl, Synced,
         UrlHonouredIntact, UrlHonoured, Successes, NoSource
<1>3. DiskAgrees /\ (pc = "head" => canUse)
  BY DEF Init, DiskAgrees
<1> QED BY <1>1, <1>2, <1>3 DEF LoaderInv

\* Ending a load without a new mapping keeps the invariant, unless the file
\* and its sidecar are being written.
LEMMA FailStep ==
  ASSUME LoaderInv, NEW how \in {"failed", "canceled"}, Fail(how), pc # "side"
  PROVE  LoaderInv'
<1> USE LoaderAssumption DEF LoaderInv, Fail, Reset, disk, memory, hist
<1>1. LoaderType'
  BY DEF LoaderType, Bytes, Meta, Result, NoMeta, NoResult
<1>2. StateOfUrl' /\ Downloaded' /\ Selected' /\ BeganOnDisk' /\ ResultOfUrl'
  BY DEF StateOfUrl, Downloaded, Selected, BeganOnDisk, ResultOfUrl
<1>3. DiskAgrees'
  BY DEF DiskAgrees, Describes
<1>4. Synced' /\ UrlHonouredIntact' /\ (pc = "head" => canUse)'
  BY DEF Synced, UrlHonouredIntact, UrlHonoured, Successes
<1> QED BY <1>1, <1>2, <1>3, <1>4

(***************************************************************************)
(* Selecting a result r and going on at l keeps the invariant if r is what  *)
(* the later steps rely on.                                                 *)
(***************************************************************************)
LEMMA SelectStep ==
  ASSUME LoaderInv, pc \in {"head", "get", "check"},
         NEW r \in Result, NEW l \in {"get", "write", "side", "publish"}, Select(r, l),
         l \in {"write", "side"} => pc = "check",
         l = "get" => pc = "head",
         l # "get" => r.content \in Contents /\ r.kind # "none",
         l = "write" => r.content = data,
         l # "write" /\ r.kind = "reused" /\ ~edited => file = r.content,
         l = "side" /\ intact => file = data,
         intact /\ l # "get" /\ r.kind \in {"loaded", "reused"} => From[r.content] = url
  PROVE  LoaderInv'
<1> USE LoaderAssumption DEF LoaderInv, Select, disk, memory, hist
<1>1. LoaderType'
  BY DEF LoaderType
<1>2. StateOfUrl' /\ Downloaded' /\ Selected' /\ BeganOnDisk' /\ ResultOfUrl'
  BY DEF StateOfUrl, Downloaded, Selected, BeganOnDisk, ResultOfUrl, Describes
<1>3. DiskAgrees'
  BY DEF DiskAgrees, Describes
<1>4. Synced' /\ UrlHonouredIntact' /\ (pc = "head" => canUse)'
  BY DEF Synced, UrlHonouredIntact, UrlHonoured, Successes
<1> QED BY <1>1, <1>2, <1>3, <1>4

\* What local answers when the file can be used.
LEMMA LocalResult ==
  ASSUME LoaderType, Usable, NEW d \in {"loaded", "fallback"}
  PROVE  /\ local(d) \in Result
         /\ local(d).content = file /\ local(d).content \in Contents
         /\ local(d).kind # "none"
         /\ d = "fallback" => local(d).kind = "fallback"
BY DEF LoaderType, Usable, local, Result

LEMMA LoaderStep == LoaderInv /\ [Next]_vars => LoaderInv'
<1> SUFFICES ASSUME LoaderInv, [Next]_vars PROVE LoaderInv'
  OBVIOUS
<1> USE LoaderAssumption DEF disk, memory, load, hist
<1>0. /\ LoaderType /\ StateOfUrl /\ Downloaded /\ Selected /\ DiskAgrees
      /\ BeganOnDisk /\ ResultOfUrl /\ (pc = "head" => canUse) /\ Synced /\ UrlHonouredIntact
  BY DEF LoaderInv
<1>1. CASE Begin
  <2>1. LoaderType'
    BY <1>0, <1>1 DEF Begin, LoaderType, Meta, NoMeta
  <2>2. (pc = "head" => canUse)' /\ StateOfUrl' /\ Synced' /\ UrlHonouredIntact'
    BY <1>0, <1>1 DEF Begin, StateOfUrl, Synced, UrlHonouredIntact, UrlHonoured, Successes
  <2>3. Downloaded' /\ Selected' /\ ResultOfUrl'
    BY <1>0, <1>1 DEF Begin, Downloaded, Selected, ResultOfUrl
  <2>4. DiskAgrees'
    BY <1>0, <1>1 DEF Begin, DiskAgrees, Describes
  <2>5. BeganOnDisk'
    BY <1>0, <1>1 DEF Begin, BeganOnDisk, DiskAgrees, Describes, UrlChanged, StateOfUrl, LoaderType
  <2> QED BY <2>1, <2>2, <2>3, <2>4, <2>5 DEF LoaderInv
<1>2. CASE HeadRequest
  <2>1. CASE ETag[upstream[url]] = meta.etag /\ Usable /\ Select(local("loaded"), "publish")
    <3>1. /\ local("loaded") \in Result /\ local("loaded").content = file
          /\ local("loaded").kind # "none" /\ file \in Contents
      BY <1>0, <2>1, LocalResult
    <3>2. ASSUME intact PROVE From[file] = url
      <4>1. Describes(side, From[file], file) /\ meta \in {NoMeta, side} /\ side.url \in {None, url}
        BY <1>0, <1>2, <3>1, <3>2 DEF HeadRequest, DiskAgrees, BeganOnDisk
      <4>2. meta.etag # None
        BY <1>0, <2>1 DEF LoaderType
      <4>3. meta = side
        BY <4>1, <4>2 DEF NoMeta
      <4> QED BY <3>1, <4>1, <4>2, <4>3 DEF Describes
    <3> QED BY <1>2, <2>1, <3>1, <3>2, SelectStep DEF HeadRequest
  <2>2. CASE Select(NoResult, "get")
    <3>1. NoResult \in Result /\ NoResult.kind = "none"
      BY DEF NoResult, Result
    <3>2. pc = "head"
      BY <1>2 DEF HeadRequest
    <3> HIDE DEF NoResult
    <3> QED BY <2>2, <3>1, <3>2, SelectStep
  <2> QED BY <1>2, <2>1, <2>2 DEF HeadRequest
<1>3. CASE GetFails
  <2>1. CASE canUse /\ Usable
    <3>1. Select(local("fallback"), "publish") /\ pc = "get"
      BY <1>3, <2>1 DEF GetFails
    <3>2. /\ local("fallback") \in Result /\ local("fallback").content \in Contents
          /\ local("fallback").kind = "fallback"
      BY <1>0, <2>1, LocalResult
    <3> QED BY <3>1, <3>2, SelectStep
  <2>2. CASE ~(canUse /\ Usable)
    BY <1>3, <2>2, FailStep DEF GetFails
  <2> QED BY <2>1, <2>2
<1>4. CASE Get
  <2>1. PICK c \in {upstream[url], Corrupt}, e \in {ETag[upstream[url]], None}, h \in {None, upstream[url]} :
           /\ h # None => c = h
           /\ data' = c
           /\ newMeta' = [url |-> url, etag |-> e, md5 |-> h]
    BY <1>4 DEF Get
  <2>2. /\ pc = "get" /\ pc' = "check"
        /\ UNCHANGED <<url, upstream, file, side, state, active, meta, canUse, res, outcome, edited, intact>>
    BY <1>4 DEF Get
  <2>3. upstream[url] \in Contents /\ From[upstream[url]] = url
    BY <1>0 DEF LoaderType
  <2>4. LoaderType'
    BY <1>0, <2>1, <2>2, <2>3 DEF LoaderType, Bytes, Meta
  <2>5. Downloaded'
    BY <2>1, <2>2, <2>3 DEF Downloaded, Describes
  <2>6. StateOfUrl' /\ Selected' /\ ResultOfUrl' /\ (pc = "head" => canUse)'
    BY <1>0, <2>2 DEF StateOfUrl, Selected, ResultOfUrl
  <2>7. DiskAgrees' /\ BeganOnDisk'
    BY <1>0, <2>2 DEF DiskAgrees, Describes, BeganOnDisk
  <2>8. Synced' /\ UrlHonouredIntact'
    BY <1>0, <2>2 DEF Synced, UrlHonouredIntact, UrlHonoured, Successes
  <2> QED BY <2>4, <2>5, <2>6, <2>7, <2>8 DEF LoaderInv
<1>5. CASE Check
  <2>0. pc = "check" /\ newMeta.url = url /\ data # None
    BY <1>0, <1>5 DEF Check, Downloaded
  <2>1. CASE matches(data)
    <3>1. Select([kind |-> "reused", content |-> data], IF file = data THEN "side" ELSE "write")
      BY <1>5, <2>1 DEF Check, Reuse
    <3>2. data \in Contents /\ From[data] = url
      BY <1>0, <2>0, <2>1 DEF matches, LoaderType, Source, Downloaded
    <3>3. [kind |-> "reused", content |-> data] \in Result
      BY <3>2 DEF Result
    <3> QED BY <2>0, <3>1, <3>2, <3>3, SelectStep
  <2>2. CASE ~matches(data) /\ canUse /\ meta.md5 # None /\ meta.md5 = newMeta.md5 /\ Usable
    <3>1. Select(local("loaded"), "side")
      BY <1>5, <2>2 DEF Check
    <3>2. /\ local("loaded") \in Result /\ local("loaded").content = file
          /\ local("loaded").kind # "none" /\ file \in Contents
      BY <1>0, <2>2, LocalResult
    <3>3. ASSUME intact PROVE file = data /\ From[file] = url
      <4>1. data = newMeta.md5 /\ data \in Contents /\ From[data] = url
        BY <1>0, <2>0, <2>2 DEF Downloaded, LoaderType, Meta
      <4>2. meta = side
        BY <1>0, <2>0, <2>2, <3>3 DEF BeganOnDisk, NoMeta
      <4>3. file = meta.md5
        BY <1>0, <2>0, <2>2, <3>2, <3>3, <4>2 DEF DiskAgrees, Describes
      <4> QED BY <2>2, <4>1, <4>3
    <3> QED BY <2>0, <3>1, <3>2, <3>3, SelectStep
  <2>3. CASE /\ ~matches(data) /\ data # Corrupt
             /\ ~(canUse /\ meta.md5 # None /\ meta.md5 = newMeta.md5 /\ Usable)
    <3>1. Select([kind |-> "loaded", content |-> data], "write")
      BY <1>5, <2>3 DEF Check
    <3>2. data \in Contents /\ From[data] = url
      BY <1>0, <2>0, <2>3 DEF LoaderType, Bytes, Downloaded
    <3>3. [kind |-> "loaded", content |-> data] \in Result
      BY <3>2 DEF Result
    <3> QED BY <2>0, <3>1, <3>2, <3>3, SelectStep
  <2>4. CASE /\ ~matches(data) /\ data = Corrupt /\ canUse /\ Usable
             /\ ~(canUse /\ meta.md5 # None /\ meta.md5 = newMeta.md5 /\ Usable)
    <3>1. Select(local("fallback"), "publish")
      BY <1>5, <2>4 DEF Check
    <3>2. /\ local("fallback") \in Result /\ local("fallback").content \in Contents
          /\ local("fallback").kind = "fallback"
      BY <1>0, <2>4, LocalResult
    <3> QED BY <2>0, <3>1, <3>2, SelectStep
  <2>5. CASE /\ ~matches(data) /\ data = Corrupt /\ ~(canUse /\ Usable)
             /\ ~(canUse /\ meta.md5 # None /\ meta.md5 = newMeta.md5 /\ Usable)
    BY <1>5, <2>0, <2>5, FailStep DEF Check
  <2> QED BY <2>1, <2>2, <2>3, <2>4, <2>5
<1>6. CASE Write
  <2>1. /\ pc = "write" /\ pc' = "side" /\ file' = data /\ data \in Contents /\ res.content = data
        /\ UNCHANGED <<url, upstream, side, state, active, meta, canUse, data, newMeta, res, outcome, edited, intact>>
    BY <1>0, <1>6 DEF Write, Selected
  <2>2. LoaderType' /\ StateOfUrl' /\ (pc = "head" => canUse)'
    BY <1>0, <2>1 DEF LoaderType, Bytes, StateOfUrl
  <2>3. Downloaded' /\ Selected' /\ ResultOfUrl' /\ BeganOnDisk'
    BY <1>0, <2>1 DEF Downloaded, Selected, ResultOfUrl, BeganOnDisk, Describes
  <2>4. DiskAgrees'
    BY <2>1 DEF DiskAgrees
  <2>5. Synced' /\ UrlHonouredIntact'
    BY <1>0, <2>1 DEF Synced, UrlHonouredIntact, UrlHonoured, Successes
  <2> QED BY <2>2, <2>3, <2>4, <2>5 DEF LoaderInv
<1>7. CASE WriteFails
  BY <1>7, FailStep DEF WriteFails
<1>8. CASE WriteSide
  <2>1. /\ pc = "side" /\ pc' = "publish"
        /\ UNCHANGED <<url, upstream, file, state, active, meta, canUse, data, newMeta, res, outcome, edited>>
        /\ \/ side' = newMeta /\ intact' = intact
           \/ side' = side /\ intact' = FALSE
    BY <1>8 DEF WriteSide
  <2>2. LoaderType' /\ StateOfUrl' /\ (pc = "head" => canUse)'
    BY <1>0, <2>1 DEF LoaderType, StateOfUrl
  <2>3. Downloaded' /\ Selected' /\ BeganOnDisk' /\ ResultOfUrl'
    BY <1>0, <2>1 DEF Downloaded, Selected, BeganOnDisk, ResultOfUrl
  <2>4. DiskAgrees'
    BY <1>0, <2>1 DEF DiskAgrees, Downloaded, Describes
  <2>5. Synced' /\ UrlHonouredIntact'
    BY <1>0, <2>1 DEF Synced, UrlHonouredIntact, UrlHonoured, Successes
  <2> QED BY <2>2, <2>3, <2>4, <2>5 DEF LoaderInv
<1>9. CASE Publish
  <2>1. /\ pc = "publish" /\ pc' = "idle" /\ state' = [url |-> url, content |-> res.content]
        /\ \/ active' = res.content /\ outcome' = res.kind
           \/ active' = active /\ outcome' = "canceled"
        /\ meta' = NoMeta /\ canUse' = FALSE /\ data' = None /\ newMeta' = NoMeta /\ res' = NoResult
        /\ UNCHANGED <<url, upstream, file, side, edited, intact>>
    BY <1>9 DEF Publish, Reset
  <2>2. LoaderType' /\ StateOfUrl' /\ (pc = "head" => canUse)'
    <3>1. res.content \in Contents /\ NoMeta \in Meta /\ NoResult \in Result /\ None \in Bytes
      BY <1>0, <2>1 DEF Selected, Bytes, Meta, Result, NoMeta, NoResult
    <3>2. state' \in Source /\ active' \in Contents \cup {None} /\ state'.url = url
      BY <1>0, <2>1, <3>1 DEF LoaderType, Source
    <3> QED BY <1>0, <2>1, <3>1, <3>2 DEF LoaderType, StateOfUrl
  <2>3. Downloaded' /\ Selected' /\ BeganOnDisk' /\ ResultOfUrl'
    BY <2>1 DEF Downloaded, Selected, BeganOnDisk, ResultOfUrl
  <2>4. DiskAgrees'
    BY <1>0, <2>1 DEF DiskAgrees, Describes
  <2>5. Synced' /\ UrlHonouredIntact'
    BY <1>0, <2>1 DEF Synced, UrlHonouredIntact, UrlHonoured, Successes, ResultOfUrl
  <2> QED BY <2>2, <2>3, <2>4, <2>5 DEF LoaderInv
<1>10. CASE Cancel
  BY <1>10, FailStep DEF Cancel
<1>11. CASE Edit
  <2>1. /\ file' \in Bytes /\ edited' = TRUE /\ intact' = FALSE
        /\ UNCHANGED <<url, upstream, side, state, active, pc, meta, canUse, data, newMeta, res, outcome>>
    BY <1>11 DEF Edit, Bytes
  <2>2. LoaderType' /\ StateOfUrl' /\ (pc = "head" => canUse)'
    BY <1>0, <2>1 DEF LoaderType, StateOfUrl
  <2>3. Downloaded' /\ Selected' /\ BeganOnDisk' /\ ResultOfUrl' /\ DiskAgrees'
    BY <1>0, <2>1 DEF Downloaded, Selected, BeganOnDisk, ResultOfUrl, DiskAgrees, Describes
  <2>4. Synced' /\ UrlHonouredIntact'
    BY <1>0, <2>1 DEF Synced, UrlHonouredIntact, Successes
  <2> QED BY <2>2, <2>3, <2>4 DEF LoaderInv
<1>12. ASSUME NEW u \in URLs, Restart(u) PROVE LoaderInv'
  <2>1. /\ url' = u /\ state' = NoSource /\ active' = None /\ pc' = "idle" /\ outcome' = "none"
        /\ meta' = NoMeta /\ canUse' = FALSE /\ data' = None /\ newMeta' = NoMeta /\ res' = NoResult
        /\ intact' = (intact /\ pc = "idle")
        /\ UNCHANGED <<upstream, file, side, edited>>
    BY <1>12 DEF Restart, Reset
  <2>2. intact' \in BOOLEAN
    BY <2>1
  <2>3. LoaderType' /\ StateOfUrl' /\ (pc = "head" => canUse)'
    BY <1>0, <2>1, <2>2 DEF LoaderType, StateOfUrl, Bytes, Meta, Source, Result, NoMeta, NoSource, NoResult
  <2>4. Downloaded' /\ Selected' /\ BeganOnDisk' /\ ResultOfUrl'
    BY <2>1 DEF Downloaded, Selected, BeganOnDisk, ResultOfUrl
  <2>5. DiskAgrees'
    BY <1>0, <2>1 DEF DiskAgrees, Describes
  <2>6. Synced' /\ UrlHonouredIntact'
    BY <2>1 DEF Synced, UrlHonouredIntact, UrlHonoured, Successes
  <2> QED BY <2>3, <2>4, <2>5, <2>6 DEF LoaderInv
<1>13. ASSUME NEW u \in URLs, Release(u) PROVE LoaderInv'
  <2>1. PICK c \in Contents : From[c] = u /\ upstream' = [upstream EXCEPT ![u] = c]
    BY <1>13 DEF Release, Serves
  <2>2. UNCHANGED <<url, file, side, state, active, pc, meta, canUse, data, newMeta, res, outcome, edited, intact>>
    BY <1>13 DEF Release
  <2>3. LoaderType'
    BY <1>0, <2>1, <2>2 DEF LoaderType
  <2>4. StateOfUrl' /\ Downloaded' /\ Selected' /\ BeganOnDisk' /\ ResultOfUrl' /\ DiskAgrees'
        /\ (pc = "head" => canUse)'
    BY <1>0, <2>2 DEF StateOfUrl, Downloaded, Selected, BeganOnDisk, ResultOfUrl, DiskAgrees, Describes
  <2>5. Synced' /\ UrlHonouredIntact'
    BY <1>0, <2>2 DEF Synced, UrlHonouredIntact, UrlHonoured, Successes
  <2> QED BY <2>3, <2>4, <2>5 DEF LoaderInv
<1>14. CASE UNCHANGED vars
  BY <1>0, <1>14 DEF vars, LoaderInv, LoaderType, StateOfUrl, Downloaded, Selected, BeganOnDisk,
     ResultOfUrl, DiskAgrees, Describes, Synced, UrlHonouredIntact, UrlHonoured, Successes
<1> QED
  BY <1>1, <1>2, <1>3, <1>4, <1>5, <1>6, <1>7, <1>8, <1>9, <1>10, <1>11, <1>12, <1>13, <1>14
  DEF Next, Load

LEMMA LoaderInvariant == Spec => []LoaderInv
BY LoaderInit, LoaderStep, PTL DEF Spec

-----------------------------------------------------------------------------
(***************************************************************************)
(* A load that reports success leaves the resolver and the loader's memory  *)
(* agreeing, also after loads that were cancelled between the two.          *)
(***************************************************************************)
THEOREM LoaderSynced == Spec => []Synced
<1>1. LoaderInv => Synced
  BY DEF LoaderInv
<1> QED BY <1>1, LoaderInvariant, PTL

\* A load that is about to report reused content has it on disk, unless the
\* file was edited while it ran.
THEOREM ReuseIsVerified == Spec => []ReuseVerified
<1>1. LoaderInv => ReuseVerified
  BY DEF LoaderInv, Selected, ReuseVerified
<1> QED BY <1>1, LoaderInvariant, PTL

(***************************************************************************)
(* A successful load that is not a fallback yields content of the           *)
(* configured URL, whatever the ETags of other URLs, as long as no edit,    *)
(* crash or lost write has separated file and sidecar.                      *)
(***************************************************************************)
THEOREM UrlIsHonoured == Spec => []UrlHonouredIntact
<1>1. LoaderInv => UrlHonouredIntact
  BY DEF LoaderInv
<1> QED BY <1>1, LoaderInvariant, PTL

\* The loader never replaces a mapping file that parses by one that does not.
THEOREM UsableIsKept == Spec => UsableKept
<1>1. LoaderInv /\ [Next]_vars => [Usable /\ ~Edit => file' \in Contents]_vars
  <2> SUFFICES ASSUME LoaderInv, Next, Usable, ~Edit PROVE file' \in Contents
    OBVIOUS
  <2>1. file' = file \/ (pc = "write" /\ file' = data)
    BY DEF Next, Load, Begin, HeadRequest, GetFails, Get, Check, Reuse, Write, WriteFails, WriteSide,
           Publish, Cancel, Restart, Release, Select, Fail, disk
  <2> QED BY <2>1 DEF LoaderInv, Selected, Usable
<1> QED BY <1>1, LoaderInvariant, PTL DEF Spec, UsableKept

(***************************************************************************)
(* A failed download never leaves the resolver without a mapping while a    *)
(* usable file of the configured URL lies beside its sidecar.               *)
(***************************************************************************)
THEOREM LocalCopyIsServed == Spec => LocalCopyServes
<1>1. LoaderInv /\ [Next]_vars =>
        [intact /\ pc = "get" /\ outcome' = "failed" /\ pc' = "idle" /\ active' = None
           => ~(Usable /\ From[file] = url)]_vars
  <2> SUFFICES ASSUME LoaderInv, Next, intact, pc = "get", outcome' = "failed", pc' = "idle",
                      Usable, From[file] = url
               PROVE  FALSE
    OBVIOUS
  <2>1. canUse
    BY DEF LoaderInv, BeganOnDisk, Usable
  <2>2. GetFails
    BY DEF Next, Load, Begin, HeadRequest, Get, Check, Write, WriteFails, WriteSide,
           Publish, Cancel, Restart, Release, Edit, Fail, load
  <2> QED BY <2>1, <2>2 DEF GetFails, Select
<1> QED BY <1>1, LoaderInvariant, PTL DEF Spec, LocalCopyServes

-----------------------------------------------------------------------------
(* Folds over finite sets                                                   *)

\* A nonempty set of naturals has the minimum that Min picks.
LEMMA MinNat ==
  ASSUME NEW S, S \subseteq Nat, S # {}
  PROVE  Min(S) \in S /\ \A x \in S : Min(S) =< x
<1> DEFINE R == {ss \in Nat \X Nat : ss[1] < ss[2]}
<1>1. IsWellFoundedOn(R, Nat)
  BY NatLessThanWellFounded DEF OpToRel
<1>2. \A i, j \in Nat : i < j => <<i, j>> \in R
  OBVIOUS
<1> HIDE DEF R
<1>3. PICK m \in S : \A x \in S : ~(<<x, m>> \in R)
  BY <1>1, WFMin, Zenon
<1>4. ASSUME NEW x \in S PROVE m =< x
  <2>1. m \in Nat /\ x \in Nat
    OBVIOUS
  <2>2. ~(x < m)
    BY <1>2, <1>3, <2>1, Zenon
  <2> QED BY <2>1, <2>2
<1> QED BY <1>4 DEF Min

\* Taking an element out of a finite set.
LEMMA LessOne ==
  ASSUME NEW S, IsFiniteSet(S), NEW x \in S
  PROVE  /\ IsFiniteSet(S \ {x})
         /\ Cardinality(S) \in Nat /\ Cardinality(S \ {x}) \in Nat
         /\ Cardinality(S \ {x}) = Cardinality(S) - 1
BY FS_RemoveElement, FS_CardinalityType

(***************************************************************************)
(* A fold has a value: with a set D to fold over, whichever element c takes *)
(* next, a function f gives every subset of D its fold.                     *)
(***************************************************************************)
FoldEq(f, D, b, h, c) ==
  \A t \in SUBSET D : f[t] = IF t = {} THEN b ELSE h[<<c[t], f[t \ {c[t]}]>>]

LEMMA FoldExists ==
  ASSUME NEW D, IsFiniteSet(D), NEW V, NEW b \in V, NEW h \in [D \X V -> V],
         NEW c, \A t \in SUBSET D : t # {} => c[t] \in t
  PROVE  \E f \in [SUBSET D -> V] : FoldEq(f, D, b, h, c)
<1> DEFINE Small(n) == {t \in SUBSET D : Cardinality(t) <= n}
           Step(f, t) == IF t = {} THEN b ELSE h[<<c[t], f[t \ {c[t]}]>>]
           Good(n) == \E f \in [Small(n) -> V] : \A t \in Small(n) : f[t] = Step(f, t)
           Bad == {n \in Nat : ~Good(n)}
<1>1. \A t \in SUBSET D : IsFiniteSet(t) /\ Cardinality(t) \in Nat
  BY FS_Subset, FS_CardinalityType
<1>2. Bad = {}
  <2> SUFFICES ASSUME Bad # {} PROVE FALSE
    OBVIOUS
  <2>1. PICK n \in Bad : \A m \in Bad : n <= m
    <3>1. Bad \subseteq Nat
      OBVIOUS
    <3> HIDE DEF Bad
    <3> QED BY <3>1, MinNat
  <2>2. CASE n = 0
    <3>1. \A t \in Small(0) : t = {}
      BY <1>1, FS_EmptySet
    <3> DEFINE f == [t \in Small(0) |-> b]
    <3>2. f \in [Small(0) -> V] /\ \A t \in Small(0) : f[t] = Step(f, t)
      BY <3>1
    <3> QED BY <2>2, <3>2
  <2>3. CASE n # 0
    <3>1. n - 1 \in Nat /\ ~(n <= n - 1)
      BY <2>3
    <3>2. Good(n - 1)
      BY <2>1, <3>1
    <3>3. PICK f \in [Small(n - 1) -> V] : \A t \in Small(n - 1) : f[t] = Step(f, t)
      BY <3>2
    <3> DEFINE g == [t \in Small(n) |-> Step(f, t)]
    <3>4. ASSUME NEW t \in Small(n) PROVE Step(f, t) \in V /\ Step(f, t) = Step(g, t)
      <4>1. CASE t = {}
        BY <4>1
      <4>2. CASE t # {}
        <5> DEFINE u == t \ {c[t]}
        <5>1. c[t] \in t /\ c[t] \in D
          BY <4>2
        <5>2. u \in Small(n - 1) /\ u \in Small(n)
          <6>1. IsFiniteSet(t) /\ u \in SUBSET D
            BY <1>1
          <6>2. Cardinality(u) \in Nat /\ Cardinality(t) \in Nat /\ Cardinality(u) = Cardinality(t) - 1
            BY <5>1, <6>1, LessOne
          <6> QED BY <6>1, <6>2, <2>3
        <5> HIDE DEF u
        <5>3. f[u] = Step(f, u) /\ f[u] \in V
          BY <3>3, <5>2
        <5>4. g[u] = Step(f, u)
          BY <5>2
        <5>5. <<c[t], f[u]>> \in D \X V
          BY <5>1, <5>3
        <5> QED BY <4>2, <5>3, <5>4, <5>5 DEF u
      <4> QED BY <4>1, <4>2
    <3>5. g \in [Small(n) -> V] /\ \A t \in Small(n) : g[t] = Step(g, t)
      BY <3>4
    <3> QED BY <3>5
  <2> QED BY <2>2, <2>3
<1>3. Good(Cardinality(D))
  BY <1>1, <1>2
<1>4. Small(Cardinality(D)) = SUBSET D
  BY <1>1, FS_Subset
<1> QED BY <1>3, <1>4 DEF FoldEq

-----------------------------------------------------------------------------
(* Episode totals                                                           *)

LEMMA HalfPositive == Half \in Nat \ {0}
<1> DEFINE S == 1..(Width - 1)
<1>1. IsFiniteSet(S) /\ Cardinality(S) = Width - 1
  BY WidthAssumption, FS_Interval
<1>2. {} \in SUBSET S
  OBVIOUS
<1> HIDE DEF S
<1>3. IsFiniteSet(SUBSET S) /\ Cardinality(SUBSET S) = 2^Cardinality(S)
  BY <1>1, FS_SUBSET
<1>4. Cardinality(SUBSET S) \in Nat /\ Cardinality(SUBSET S) # 0
  BY <1>2, <1>3, FS_CardinalityType, FS_EmptySet
<1> QED BY <1>1, <1>3, <1>4 DEF Half

LEMMA WrapType == ASSUME NEW n \in Int PROVE Wrap(n) \in Int
BY HalfPositive DEF Wrap

\* The total of the ranges of a target is a number.
LEMMA TotalType ==
  ASSUME NEW v \in Value(RangeMember)
  PROVE  Total(v) \in Int
<1> DEFINE ms == v.members
           D == Distinct(ms)
           AnyOf(t) == CHOOSE x \in t : TRUE
           Eq(f) == [t \in SUBSET D |->
                       IF t = {} THEN 0 ELSE sourceRangeCount(AnyOf(t)) + f[t \ {AnyOf(t)}]]
           g == CHOOSE f : f = Eq(f)
<1>1. /\ ms \in Seq(RangeMember) /\ Len(ms) \in Nat /\ DOMAIN ms = 1..Len(ms)
      /\ \A n \in DOMAIN ms : ms[n].first \in Int /\ ms[n].last \in Int
  <2>1. ms \in Seq(RangeMember)
    BY DEF Value
  <2> HIDE DEF ms
  <2>2. Len(ms) \in Nat /\ DOMAIN ms = 1..Len(ms) /\ \A n \in 1..Len(ms) : ms[n] \in RangeMember
    BY <2>1
  <2> QED BY <2>1, <2>2 DEF RangeMember
<1>2. IsFiniteSet(D)
  <2> DEFINE f == [n \in DOMAIN ms |-> [first |-> ms[n].first, last |-> ms[n].last]]
  <2>1. f \in Surjection(1..Len(ms), D)
    BY <1>1 DEF Surjection, Distinct
  <2>2. IsFiniteSet(1..Len(ms))
    BY <1>1, FS_Interval
  <2> HIDE DEF D, f, ms
  <2> QED BY <2>1, <2>2, FS_Surjection
<1>3. \A r \in D : sourceRangeCount(r) \in Int
  BY <1>1 DEF Distinct, sourceRangeCount
<1>4. Total(v) = g[D]
  BY DEF Total, MapThenSumSet, MapThenFoldSet
<1> HIDE DEF D
<1>5. g = Eq(g)
  <2> DEFINE h == [p \in D \X Int |-> sourceRangeCount(p[1]) + p[2]]
             c == [t \in SUBSET D |-> AnyOf(t)]
  <2>1. h \in [D \X Int -> Int] /\ 0 \in Int
    BY <1>3
  <2>2. \A t \in SUBSET D : t # {} => c[t] \in t
    OBVIOUS
  <2>3. PICK f \in [SUBSET D -> Int] : FoldEq(f, D, 0, h, c)
    <3> HIDE DEF h, c
    <3> QED BY <1>2, <2>1, <2>2, FoldExists
  <2>4. f = Eq(f)
    <3> SUFFICES ASSUME NEW t \in SUBSET D
                 PROVE  f[t] = IF t = {} THEN 0 ELSE sourceRangeCount(AnyOf(t)) + f[t \ {AnyOf(t)}]
      OBVIOUS
    <3>1. f[t] = IF t = {} THEN 0 ELSE h[<<c[t], f[t \ {c[t]}]>>]
      BY <2>3 DEF FoldEq
    <3>2. CASE t # {}
      <4>1. c[t] = AnyOf(t) /\ AnyOf(t) \in D /\ f[t \ {AnyOf(t)}] \in Int
        BY <3>2
      <4> QED BY <3>1, <3>2, <4>1
    <3> QED BY <3>1, <3>2
  <2> HIDE DEF Eq
  <2> QED BY <2>4
<1> HIDE DEF g
<1> DEFINE Bad == {n \in Nat : \E t \in SUBSET D : Cardinality(t) = n /\ g[t] \notin Int}
<1>6. Bad = {}
  <2> SUFFICES ASSUME Bad # {} PROVE FALSE
    OBVIOUS
  <2>1. PICK n \in Bad : \A m \in Bad : n <= m
    <3>1. Bad \subseteq Nat
      OBVIOUS
    <3> HIDE DEF Bad
    <3> QED BY <3>1, MinNat
  <2>2. PICK t \in SUBSET D : Cardinality(t) = n /\ g[t] \notin Int
    OBVIOUS
  <2>3. g[t] = IF t = {} THEN 0 ELSE sourceRangeCount(AnyOf(t)) + g[t \ {AnyOf(t)}]
    BY <1>5
  <2>4. t # {} /\ AnyOf(t) \in t
    BY <2>2, <2>3
  <2>5. /\ Cardinality(t \ {AnyOf(t)}) \in Nat /\ Cardinality(t \ {AnyOf(t)}) = n - 1
        /\ t \ {AnyOf(t)} \in SUBSET D
    BY <1>2, <2>2, <2>4, LessOne, FS_Subset
  <2>6. g[t \ {AnyOf(t)}] \in Int
    BY <2>1, <2>5
  <2>7. sourceRangeCount(AnyOf(t)) \in Int
    BY <1>3, <2>4
  <2> QED BY <2>2, <2>3, <2>4, <2>6, <2>7
<1> QED BY <1>2, <1>4, <1>6, FS_CardinalityType

-----------------------------------------------------------------------------
(* The preferred show                                                       *)

Base     == [id |-> 0, episodes |-> -1, isS1 |-> FALSE, err |-> FALSE]
Count(t) == Wrap(Total(t.ranges))

\* The targets that count, and which of two such targets is preferred.
Eligible(t) == t.scope = "s1" \/ Count(t) >= 0
Beats(t, u) ==
  \/ t.scope = "s1" /\ u.scope # "s1"
  \/ /\ t.scope = "s1" \/ u.scope # "s1"
     /\ Count(t) > Count(u) \/ (Count(t) = Count(u) /\ t.tvdb <= u.tvdb)

LEMMA CountType ==
  ASSUME NEW t \in TargetMember
  PROVE  Count(t) \in Int /\ t.tvdb \in Int
<1>1. t.ranges \in Value(RangeMember) /\ t.tvdb \in Int
  BY DEF TargetMember
<1>2. Total(t.ranges) \in Int
  BY <1>1, TotalType
<1> QED BY <1>1, <1>2, WrapType DEF Count

\* Preference is a total preorder, and equal only for one show.
LEMMA Preference ==
  ASSUME NEW t \in TargetMember, NEW u \in TargetMember, NEW w \in TargetMember
  PROVE  /\ Beats(t, u) \/ Beats(u, t)
         /\ Beats(t, u) /\ Beats(u, w) => Beats(t, w)
         /\ Beats(t, u) /\ Beats(u, t) => t.tvdb = u.tvdb
BY CountType DEF Beats

\* Compare keeps the preferred one.
LEMMA CompareRight ==
  ASSUME NEW u \in TargetMember, u.tvdb > 0, ~summary(u).err
  PROVE  /\ Compare(Base, summary(u)) = IF Eligible(u) THEN summary(u) ELSE Base
         /\ \A t \in TargetMember : Eligible(t) /\ ~summary(t).err =>
              Compare(summary(t), summary(u))
                = IF Eligible(u) /\ ~Beats(t, u) THEN summary(u) ELSE summary(t)
<1>1. ASSUME NEW t \in TargetMember, ~summary(t).err
      PROVE  /\ summary(t).episodes = Count(t) /\ summary(t).id = t.tvdb
             /\ t.scope = "s1" => summary(t).isS1 = TRUE
             /\ t.scope # "s1" => summary(t).isS1 = FALSE
             /\ Count(t) \in Int /\ t.tvdb \in Int
  <2>1. Count(t) \in Int /\ t.tvdb \in Int
    BY CountType
  <2>2. summary(t).id = t.tvdb /\ summary(t).isS1 = (t.scope = "s1")
    BY DEF summary
  <2>3. summary(t).episodes = Count(t)
    BY <1>1 DEF summary, scanEpisodeRanges, Count
  <2> QED BY <2>1, <2>2, <2>3
<1>2. Compare(Base, summary(u)) = IF Eligible(u) THEN summary(u) ELSE Base
  <2>1. Base.episodes = -1 /\ Base.id = 0 /\ Base.isS1 = FALSE
    BY DEF Base
  <2> HIDE DEF Base
  <2> DEFINE s == summary(u)
  <2>2. /\ s.episodes = Count(u) /\ s.id = u.tvdb /\ Count(u) \in Int /\ u.tvdb \in Int
        /\ u.scope = "s1" => s.isS1 = TRUE
        /\ u.scope # "s1" => s.isS1 = FALSE
    BY <1>1
  <2> HIDE DEF s
  <2>3. CASE u.scope = "s1"
    <3>1. Compare(Base, s) = s
      BY <2>1, <2>2, <2>3 DEF Compare
    <3> QED BY <2>3, <3>1 DEF Eligible, s
  <2>4. CASE u.scope # "s1"
    <3>0. s.isS1 = Base.isS1
      BY <2>1, <2>2, <2>4
    <3>1. (\/ s.episodes > Base.episodes
           \/ s.episodes = Base.episodes /\ s.id < Base.id) <=> Count(u) >= 0
      BY <2>1, <2>2
    <3>2. Compare(Base, s) = IF Count(u) >= 0 THEN s ELSE Base
      BY <3>0, <3>1 DEF Compare
    <3> QED BY <2>4, <3>2 DEF Eligible, s
  <2> QED BY <2>3, <2>4
<1>3. ASSUME NEW t \in TargetMember, Eligible(t), ~summary(t).err
      PROVE  Compare(summary(t), summary(u))
               = IF Eligible(u) /\ ~Beats(t, u) THEN summary(u) ELSE summary(t)
  <2> DEFINE s == summary(u)
             b == summary(t)
  <2>1. /\ s.episodes = Count(u) /\ s.id = u.tvdb /\ Count(u) \in Int /\ u.tvdb \in Int
        /\ u.scope = "s1" => s.isS1 = TRUE
        /\ u.scope # "s1" => s.isS1 = FALSE
    BY <1>1
  <2>2. /\ b.episodes = Count(t) /\ b.id = t.tvdb /\ Count(t) \in Int /\ t.tvdb \in Int
        /\ t.scope = "s1" => b.isS1 = TRUE
        /\ t.scope # "s1" => b.isS1 = FALSE
    BY <1>1, <1>3
  <2> HIDE DEF s, b
  <2>3. CASE (t.scope = "s1") # (u.scope = "s1")
    <3>1. Compare(b, s) = IF u.scope = "s1" THEN s ELSE b
      BY <2>1, <2>2, <2>3 DEF Compare
    <3>2. (Eligible(u) /\ ~Beats(t, u)) <=> u.scope = "s1"
      BY <2>3 DEF Eligible, Beats
    <3> QED BY <3>1, <3>2 DEF s, b
  <2>4. CASE (t.scope = "s1") = (u.scope = "s1")
    <3>1. Compare(b, s) = IF \/ Count(u) > Count(t)
                             \/ Count(u) = Count(t) /\ u.tvdb < t.tvdb
                          THEN s ELSE b
      BY <2>1, <2>2, <2>4 DEF Compare
    <3>2. (Eligible(u) /\ ~Beats(t, u))
            <=> Count(u) > Count(t) \/ (Count(u) = Count(t) /\ u.tvdb < t.tvdb)
      BY <1>3, <2>1, <2>2, <2>4 DEF Eligible, Beats
    <3> QED BY <3>1, <3>2 DEF s, b
  <2> QED BY <2>3, <2>4
<1> QED BY <1>2, <1>3

(***************************************************************************)
(* FoldLeft, step by step: acc[k] is what the first k elements give.        *)
(***************************************************************************)
Folds(order) == FoldLeft(LAMBDA best, t : Compare(best, summary(t)), Base, order)

LEMMA Folding ==
  ASSUME NEW n \in Nat, NEW order, DOMAIN order = 1..n
  PROVE  \E acc : /\ acc[0] = Base
                  /\ \A k \in 1..n : acc[k] = Compare(acc[k - 1], summary(order[k]))
                  /\ Folds(order) = acc[n]
<1> DEFINE D == 1..n
           Eq(f) == [t \in SUBSET D |->
                       IF t = {} THEN Base
                       ELSE Compare(f[t \ {Max(t)}], summary(order[Max(t)]))]
           g == CHOOSE f : f = Eq(f)
<1>1. Folds(order) = g[D]
  BY DEF Folds, FoldLeft, MapThenFoldSet
<1>2. ASSUME NEW t \in SUBSET D, t # {} PROVE Max(t) \in t
  <2> DEFINE Gaps == {n - x : x \in t}
  <2>1. Gaps \subseteq Nat /\ Gaps # {}
    <3>1. \A x \in t : x \in Nat /\ n - x \in Nat
      OBVIOUS
    <3> QED BY <1>2, <3>1
  <2> HIDE DEF Gaps
  <2>2. PICK m \in Gaps : \A x \in Gaps : m <= x
    BY <2>1, MinNat
  <2>3. PICK y \in t : m = n - y
    BY DEF Gaps
  <2>4. ASSUME NEW x \in t PROVE y >= x
    <3>1. n - x \in Gaps
      BY DEF Gaps
    <3>2. n - y <= n - x /\ x \in Nat /\ y \in Nat
      BY <2>2, <2>3, <3>1
    <3> QED BY <3>2
  <2> QED BY <2>4 DEF Max
<1>3. g = Eq(g)
  <2> DEFINE V == {Base} \cup {summary(order[i]) : i \in D}
             h == [p \in D \X V |-> Compare(p[2], summary(order[p[1]]))]
             c == [t \in SUBSET D |-> Max(t)]
  <2>1. h \in [D \X V -> V] /\ Base \in V
    BY DEF Compare
  <2>2. \A t \in SUBSET D : t # {} => c[t] \in t
    BY <1>2
  <2>3. IsFiniteSet(D)
    BY FS_Interval
  <2>4. PICK f \in [SUBSET D -> V] : FoldEq(f, D, Base, h, c)
    <3> HIDE DEF h, c, V, D
    <3> QED BY <2>1, <2>2, <2>3, FoldExists
  <2>5. f = Eq(f)
    <3> SUFFICES ASSUME NEW t \in SUBSET D
                 PROVE  f[t] = IF t = {} THEN Base
                               ELSE Compare(f[t \ {Max(t)}], summary(order[Max(t)]))
      OBVIOUS
    <3>1. f[t] = IF t = {} THEN Base ELSE h[<<c[t], f[t \ {c[t]}]>>]
      BY <2>4 DEF FoldEq
    <3>2. CASE t # {}
      <4>1. c[t] = Max(t) /\ Max(t) \in D /\ f[t \ {Max(t)}] \in V
        BY <1>2, <3>2
      <4> QED BY <3>1, <3>2, <4>1
    <3> QED BY <3>1, <3>2
  <2> HIDE DEF Eq
  <2> QED BY <2>5
<1> HIDE DEF g
<1> DEFINE acc == [k \in 0..n |-> g[1..k]]
<1>4. acc[0] = Base
  <2>1. 1..0 = {}
    OBVIOUS
  <2> QED BY <1>3, <2>1
<1>5. ASSUME NEW k \in 1..n PROVE acc[k] = Compare(acc[k - 1], summary(order[k]))
  <2>1. 1..k \in SUBSET D /\ 1..k # {} /\ (1..k) \ {k} = 1..(k - 1) /\ k \in 1..k
    OBVIOUS
  <2>2. Max(1..k) = k
    <3>1. Max(1..k) \in 1..k
      BY <1>2, <2>1
    <3>2. \A x \in 1..k : Max(1..k) >= x
      BY DEF Max
    <3> QED BY <3>1, <3>2, <2>1
  <2>3. g[1..k] = Compare(g[(1..k) \ {Max(1..k)}], summary(order[Max(1..k)]))
    BY <1>3, <2>1
  <2>4. g[1..k] = Compare(g[1..(k - 1)], summary(order[k]))
    BY <2>1, <2>2, <2>3, Zenon
  <2>5. k \in 0..n /\ k - 1 \in 0..n
    OBVIOUS
  <2>6. acc[k] = g[1..k] /\ acc[k - 1] = g[1..(k - 1)]
    BY <2>5
  <2> QED BY <2>4, <2>6, Zenon
<1>6. acc[n] = g[D]
  OBVIOUS
<1> HIDE DEF acc
<1> QED BY <1>1, <1>4, <1>5, <1>6

\* The targets that are compared: finitely many, each a usable descriptor.
LEMMA LatestIs ==
  ASSUME NEW ms \in Seq(TargetMember)
  PROVE  /\ IsFiniteSet(Latest(ms))
         /\ \A t \in Latest(ms) : t \in TargetMember /\ t.tvdb > 0
<1>1. Len(ms) \in Nat /\ DOMAIN ms = 1..Len(ms) /\ \A n \in DOMAIN ms : ms[n] \in TargetMember
  OBVIOUS
<1> DEFINE I == {n \in DOMAIN ms :
                   /\ ms[n].tvdb > 0
                   /\ \A k \in n + 1 .. Len(ms) : DescriptorOf(ms[k]) # DescriptorOf(ms[n])}
           f == [n \in I |-> ms[n]]
<1>2. Latest(ms) = {ms[n] : n \in I}
  BY DEF Latest
<1>3. IsFiniteSet(I)
  <2>1. IsFiniteSet(1..Len(ms)) /\ I \subseteq 1..Len(ms)
    BY <1>1, FS_Interval
  <2> HIDE DEF I
  <2> QED BY <2>1, FS_Subset
<1>4. \A t \in Latest(ms) : t \in TargetMember /\ t.tvdb > 0
  BY <1>1, <1>2
<1> HIDE DEF I
<1>5. f \in Surjection(I, Latest(ms))
  BY <1>2 DEF Surjection
<1> HIDE DEF f
<1> QED BY <1>3, <1>4, <1>5, FS_Surjection

\* An order Go may iterate in names every candidate.
LEMMA OrderIs ==
  ASSUME NEW S, IsFiniteSet(S), NEW order \in SetToSeqs(S)
  PROVE  \E n \in Nat : /\ DOMAIN order = 1..n
                        /\ \A i \in 1..n : order[i] \in S
                        /\ \A t \in S : \E i \in 1..n : order[i] = t
<1> DEFINE n == Cardinality(S)
<1>1. n \in Nat
  BY FS_CardinalityType
<1>2. order \in [1..n -> S] /\ \A i, j \in 1..n : i # j => order[i] # order[j]
  BY DEF SetToSeqs
<1>3. order \in Injection(1..n, S)
  BY <1>2 DEF Injection, IsInjective
<1>4. Cardinality(1..n) = n
  BY <1>1, FS_Interval
<1> HIDE DEF n
<1>5. order \in Surjection(1..n, S)
  BY <1>3, <1>4, FS_Injection DEF n
<1> QED BY <1>1, <1>2, <1>5 DEF Surjection

\* An eligible candidate that beats the others is the show of the value.
LEMMA ShowIs ==
  ASSUME NEW v \in Value(TargetMember)
  PROVE  /\ (\A u \in Latest(v.members) : ~Eligible(u)) => Show(v) = 0
         /\ \A t \in Latest(v.members) :
              Eligible(t) /\ (\A u \in Latest(v.members) : Eligible(u) => Beats(t, u))
              => Show(v) = t.tvdb
<1> DEFINE T == {t \in Latest(v.members) : Eligible(t)}
<1>1. Show(v) = IF T = {} THEN 0 ELSE (CHOOSE t \in T : \A u \in T : Beats(t, u)).tvdb
  BY Zenon DEF Show, Eligible, Beats, Count
<1>2. v.members \in Seq(TargetMember)
  BY DEF Value
<1>3. ASSUME NEW t \in T, \A u \in T : Beats(t, u)
      PROVE  Show(v) = t.tvdb
  <2> DEFINE s == CHOOSE s \in T : \A u \in T : Beats(s, u)
  <2>1. s \in T /\ \A u \in T : Beats(s, u)
    BY <1>3
  <2>2. s \in TargetMember /\ t \in TargetMember
    BY <1>2, <2>1, LatestIs
  <2>3. Beats(s, t) /\ Beats(t, s)
    BY <1>3, <2>1
  <2>4. Show(v) = s.tvdb
    BY <1>1
  <2> HIDE DEF s
  <2> QED BY <2>2, <2>3, <2>4, Preference
<1> QED BY <1>1, <1>3

LEMMA BestRight ==
  ASSUME NEW v \in Value(TargetMember), NEW order \in SetToSeqs(Latest(v.members)),
         \A t \in Latest(v.members) : ~scanEpisodeRanges(t.ranges).err
  PROVE  /\ Best(order) = [err |-> FALSE, tvdb |-> Show(v)]
         /\ Show(v) \in Nat
<1> DEFINE L == Latest(v.members)
<1>1. IsFiniteSet(L) /\ \A t \in L : t \in TargetMember /\ t.tvdb > 0
  <2>1. v.members \in Seq(TargetMember)
    BY DEF Value
  <2> QED BY <2>1, LatestIs
<1>2. \A t \in L : ~summary(t).err /\ summary(t).id = t.tvdb
  BY DEF summary
<1>3. order \in SetToSeqs(L)
  OBVIOUS
<1>e. /\ (\A u \in L : ~Eligible(u)) => Show(v) = 0
      /\ \A t \in L : Eligible(t) /\ (\A u \in L : Eligible(u) => Beats(t, u)) => Show(v) = t.tvdb
  BY ShowIs
<1> HIDE DEF L
<1>4. PICK n \in Nat : /\ DOMAIN order = 1..n
                       /\ \A i \in 1..n : order[i] \in L
                       /\ \A t \in L : \E i \in 1..n : order[i] = t
  BY <1>1, <1>3, OrderIs
<1>5. Best(order) = [err |-> FALSE, tvdb |-> Folds(order).id]
  BY <1>2, <1>4 DEF Best, Folds, Base
<1>6. PICK acc : /\ acc[0] = Base
                 /\ \A k \in 1..n : acc[k] = Compare(acc[k - 1], summary(order[k]))
                 /\ Folds(order) = acc[n]
  BY <1>4, Folding
<1> DEFINE Kept(k) ==
             \/ acc[k] = Base /\ \A i \in 1..k : ~Eligible(order[i])
             \/ \E t \in L : /\ Eligible(t) /\ acc[k] = summary(t)
                             /\ \A i \in 1..k : Eligible(order[i]) => Beats(t, order[i])
           Bad == {k \in 0..n : ~Kept(k)}
<1>7. Bad = {}
  <2> SUFFICES ASSUME Bad # {} PROVE FALSE
    OBVIOUS
  <2>1. PICK k \in Bad : \A m \in Bad : k <= m
    <3>1. Bad \subseteq Nat
      OBVIOUS
    <3> HIDE DEF Bad
    <3> QED BY <3>1, MinNat
  <2>2. k # 0
    BY <1>6, <2>1
  <2> DEFINE u == order[k]
  <2>3. k \in 1..n /\ k - 1 \in 0..n /\ ~(k <= k - 1)
    BY <2>2
  <2>4. Kept(k - 1)
    BY <2>1, <2>3
  <2>5. u \in L /\ u \in TargetMember /\ u.tvdb > 0 /\ ~summary(u).err
    BY <1>1, <1>2, <1>4, <2>3
  <2>6. acc[k] = Compare(acc[k - 1], summary(u))
    BY <1>6, <2>3
  <2>7. 1..k = (1..(k - 1)) \cup {k}
    BY <2>3
  <2>8. CASE acc[k - 1] = Base /\ \A i \in 1..(k - 1) : ~Eligible(order[i])
    <3>1. acc[k] = IF Eligible(u) THEN summary(u) ELSE Base
      BY <2>5, <2>6, <2>8, CompareRight
    <3>2. Beats(u, u)
      BY <2>5, Preference
    <3> QED BY <2>1, <2>5, <2>7, <2>8, <3>1, <3>2
  <2>9. CASE \E t \in L : /\ Eligible(t) /\ acc[k - 1] = summary(t)
                          /\ \A i \in 1..(k - 1) : Eligible(order[i]) => Beats(t, order[i])
    <3>1. PICK t \in L : /\ Eligible(t) /\ acc[k - 1] = summary(t)
                         /\ \A i \in 1..(k - 1) : Eligible(order[i]) => Beats(t, order[i])
      BY <2>9
    <3>2. t \in TargetMember /\ ~summary(t).err
      BY <1>1, <1>2
    <3>3. acc[k] = IF Eligible(u) /\ ~Beats(t, u) THEN summary(u) ELSE summary(t)
      BY <2>5, <2>6, <3>1, <3>2, CompareRight
    <3>4. CASE Eligible(u) /\ ~Beats(t, u)
      <4>1. Beats(u, t) /\ Beats(u, u)
        BY <2>5, <3>2, <3>4, Preference
      <4>2. ASSUME NEW i \in 1..k, Eligible(order[i]) PROVE Beats(u, order[i])
        <5>1. CASE i = k
          BY <4>1, <5>1
        <5>2. CASE i # k
          <6>1. i \in 1..(k - 1) /\ i \in 1..n
            BY <2>3, <5>2
          <6>2. Beats(t, order[i]) /\ order[i] \in TargetMember
            BY <1>1, <1>4, <3>1, <4>2, <6>1
          <6> QED BY <2>5, <3>2, <4>1, <6>2, Preference
        <5> QED BY <5>1, <5>2
      <4>3. acc[k] = summary(u)
        BY <3>3, <3>4
      <4>4. Kept(k)
        BY <2>5, <3>4, <4>2, <4>3
      <4> QED BY <2>1, <4>4
    <3>5. CASE ~(Eligible(u) /\ ~Beats(t, u))
      <4>1. ASSUME NEW i \in 1..k, Eligible(order[i]) PROVE Beats(t, order[i])
        BY <2>7, <3>1, <3>5, <4>1
      <4>2. acc[k] = summary(t)
        BY <3>3, <3>5
      <4>3. Kept(k)
        BY <3>1, <4>1, <4>2
      <4> QED BY <2>1, <4>3
    <3> QED BY <3>4, <3>5
  <2> QED BY <2>4, <2>8, <2>9
<1>8. Kept(n)
  BY <1>7
<1>9. CASE acc[n] = Base /\ \A i \in 1..n : ~Eligible(order[i])
  <2>1. \A t \in L : ~Eligible(t)
    BY <1>4, <1>9
  <2>2. Folds(order) = Base /\ Base.id = 0
    BY <1>6, <1>9 DEF Base
  <2>3. Show(v) = 0
    BY <1>e, <2>1, Zenon
  <2> QED BY <1>5, <2>2, <2>3
<1>10. CASE \E t \in L : /\ Eligible(t) /\ acc[n] = summary(t)
                         /\ \A i \in 1..n : Eligible(order[i]) => Beats(t, order[i])
  <2>1. PICK t \in L : /\ Eligible(t) /\ acc[n] = summary(t)
                       /\ \A i \in 1..n : Eligible(order[i]) => Beats(t, order[i])
    BY <1>10
  <2>2. \A u \in L : Eligible(u) => Beats(t, u)
    BY <1>4, <2>1
  <2>3. Show(v) = t.tvdb
    BY <1>e, <2>1, <2>2
  <2>4. t.tvdb \in Nat
    BY <1>1, CountType
  <2> QED BY <1>2, <1>5, <1>6, <2>1, <2>3, <2>4
<1> QED BY <1>8, <1>9, <1>10

(***************************************************************************)
(* extractTVDB, in whichever order the candidates come: the show of the     *)
(* value, or an error exactly for a value that voids its document.          *)
(***************************************************************************)
LEMMA ExtractRight ==
  ASSUME NEW v \in Value(TargetMember), NEW order \in SetToSeqs(Latest(v.members))
  PROVE  LET r == extractTVDB(v, order)
         IN  /\ r.err \in BOOLEAN
             /\ r.err <=> Broken(v) \/ Faulty(v)
             /\ ~r.err => r.tvdb = Show(v) /\ Show(v) \in Nat
<1> DEFINE L == Latest(v.members)
           bad == \E t \in L : scanEpisodeRanges(t.ranges).err
           torn == \E n \in DOMAIN v.members : v.members[n].ranges.kind = "syntax"
<1>1. /\ v.members \in Seq(TargetMember)
      /\ v.kind \in {"null", "scalar", "syntax", "object"}
      /\ v.kind # "object" => v.members = << >>
  BY DEF Value
<1>2. Failure.err = TRUE
  BY DEF Failure
<1>3. CASE v.kind = "null"
  <2>1. v.members = << >> /\ DOMAIN v.members = {}
    BY <1>1, <1>3
  <2>2. L = {}
    BY <2>1 DEF Latest
  <2>3. Show(v) = 0
    BY <2>2, ShowIs
  <2>4. ~Faulty(v) /\ ~Broken(v)
    BY <1>3, <2>1, <2>2 DEF Faulty, Broken
  <2>5. extractTVDB(v, order) = [err |-> FALSE, tvdb |-> 0]
    BY <1>3 DEF extractTVDB
  <2> QED BY <1>3, <2>3, <2>4, <2>5
<1>4. CASE v.kind = "object" /\ ~torn
  <2>1. extractTVDB(v, order) = Best(order)
    BY <1>4 DEF extractTVDB
  <2>2. ~Broken(v) /\ (Faulty(v) <=> bad)
    BY <1>4 DEF Faulty, Broken
  <2>3. CASE bad
    <3>1. PICK n \in Nat : /\ DOMAIN order = 1..n
                           /\ \A t \in L : \E i \in 1..n : order[i] = t
      <4>1. IsFiniteSet(L)
        BY <1>1, LatestIs
      <4> QED BY <4>1, OrderIs
    <3>2. \E i \in DOMAIN order : summary(order[i]).err
      BY <2>3, <3>1 DEF summary
    <3>3. Best(order) = Failure
      BY <3>2 DEF Best
    <3> QED BY <1>2, <2>1, <2>2, <2>3, <3>3
  <2>4. CASE ~bad
    <3>1. Best(order) = [err |-> FALSE, tvdb |-> Show(v)] /\ Show(v) \in Nat
      BY <2>4, BestRight
    <3> QED BY <1>4, <2>1, <2>2, <2>4, <3>1
  <2> QED BY <2>3, <2>4
<1>5. CASE v.kind \in {"scalar", "syntax"} \/ (v.kind = "object" /\ torn)
  <2>1. extractTVDB(v, order) = Failure
    BY <1>5 DEF extractTVDB
  <2>2. Broken(v) \/ Faulty(v)
    BY <1>5 DEF Faulty, Broken
  <2> QED BY <1>2, <2>1, <2>2
<1> QED BY <1>1, <1>3, <1>4, <1>5

-----------------------------------------------------------------------------
(* The parse                                                                *)

\* The entries of a space that name a show, among the first k members.
Named(doc, s, k) == {n \in 1..k : doc[n].space = s /\ Looked(doc[n]) /\ Show(doc[n].value) > 0}

\* What the first k members map: a key to the show of its last such entry.
MapOf(doc, s, k) ==
  [i \in {doc[n].id : n \in Named(doc, s, k)} |->
     Show(doc[Max({n \in Named(doc, s, k) : doc[n].id = i})].value)]

\* That map with the member at k put in.
PutIn(doc, s, k) ==
  [i \in DOMAIN MapOf(doc, s, k - 1) \cup {doc[k].id} |->
     IF i = doc[k].id THEN Show(doc[k].value) ELSE MapOf(doc, s, k - 1)[i]]

\* A member that voids its document.
Voids(e) == Broken(e.value) \/ (Looked(e) /\ Faulty(e.value))

\* The parse before the member at k, with nothing wrong so far.
ParseAt(doc, k) == [doc |-> doc, at |-> k, err |-> FALSE,
                    mal |-> MapOf(doc, "mal", k - 1), anilist |-> MapOf(doc, "anilist", k - 1)]

Reading(doc, k) == parse = ParseAt(doc, k) /\ \A n \in 1..(k - 1) : ~Voids(doc[n])
Voided(doc, k)  == /\ parse.doc = doc /\ parse.at = k /\ parse.err = TRUE
                   /\ \E n \in 1..(k - 1) : Voids(doc[n])

ParseInv ==
  \/ parse = NoParse
  \/ \E doc \in Documents : \E k \in 1..(Len(doc) + 1) : Reading(doc, k) \/ Voided(doc, k)

LEMMA MaxIs ==
  ASSUME NEW S, S \subseteq Int, NEW k \in S, \A n \in S : n <= k
  PROVE  Max(S) = k
<1> DEFINE m == CHOOSE x \in S : \A y \in S : x >= y
<1>1. k \in Int /\ \A y \in S : k >= y
  OBVIOUS
<1>2. m \in S /\ \A y \in S : m >= y
  BY <1>1
<1>3. m \in Int
  BY <1>2
<1>4. Max(S) = m
  BY DEF Max
<1> HIDE DEF m
<1>5. m >= k /\ k >= m
  BY <1>1, <1>2
<1> QED BY <1>1, <1>3, <1>4, <1>5

\* A member of a document.
LEMMA MemberIs ==
  ASSUME NEW doc \in Documents
  PROVE  /\ Len(doc) \in Nat /\ DOMAIN doc = 1..Len(doc)
         /\ \A n \in 1..Len(doc) : /\ doc[n] \in RootMember
                                   /\ doc[n].id \in Int /\ doc[n].value \in Value(TargetMember)
<1>1. doc \in Seq(RootMember)
  BY DocumentsAssumption
<1>2. Len(doc) \in Nat /\ DOMAIN doc = 1..Len(doc) /\ \A n \in 1..Len(doc) : doc[n] \in RootMember
  BY <1>1
<1> QED BY <1>2 DEF RootMember

\* One more member.
LEMMA NextNamed ==
  ASSUME NEW doc \in Documents, NEW s, NEW k \in 1..Len(doc)
  PROVE  IF doc[k].space = s /\ Looked(doc[k]) /\ Show(doc[k].value) > 0
         THEN Named(doc, s, k) = Named(doc, s, k - 1) \cup {k}
         ELSE Named(doc, s, k) = Named(doc, s, k - 1)
<1>1. 1..k = (1..(k - 1)) \cup {k}
  BY MemberIs
<1> QED BY <1>1 DEF Named

LEMMA SameMap ==
  ASSUME NEW doc \in Documents, NEW s, NEW k \in 1..Len(doc),
         ~(doc[k].space = s /\ Looked(doc[k]) /\ Show(doc[k].value) > 0)
  PROVE  MapOf(doc, s, k) = MapOf(doc, s, k - 1)
<1>1. Named(doc, s, k) = Named(doc, s, k - 1)
  BY NextNamed
<1> QED BY <1>1, Zenon DEF MapOf

LEMMA NextMap ==
  ASSUME NEW doc \in Documents, NEW s, NEW k \in 1..Len(doc),
         doc[k].space = s, Looked(doc[k]), Show(doc[k].value) > 0
  PROVE  MapOf(doc, s, k) = PutIn(doc, s, k)
<1> DEFINE N == Named(doc, s, k)
           O == Named(doc, s, k - 1)
           m == MapOf(doc, s, k - 1)
           I == {doc[n].id : n \in O}
<1>1. N = O \cup {k}
  BY NextNamed
<1>2. O \subseteq 1..(k - 1) /\ k \in Int
  BY MemberIs DEF Named
<1>3. DOMAIN m = I
  BY DEF MapOf
<1>4. ASSUME NEW i \in I PROVE m[i] = Show(doc[Max({n \in O : doc[n].id = i})].value)
  BY DEF MapOf
<1>5. MapOf(doc, s, k) = [i \in {doc[n].id : n \in N} |-> Show(doc[Max({n \in N : doc[n].id = i})].value)]
  BY DEF MapOf
<1> HIDE DEF N, O, m
<1>6. {doc[n].id : n \in N} = DOMAIN m \cup {doc[k].id}
  BY <1>1, <1>3
<1>7. Max({n \in N : doc[n].id = doc[k].id}) = k
  <2> DEFINE S == {n \in N : doc[n].id = doc[k].id}
  <2>1. S \subseteq Int /\ k \in S /\ \A n \in S : n <= k
    <3>1. k \in N /\ \A n \in N : n \in Int /\ n <= k
      BY <1>1, <1>2
    <3> QED BY <3>1
  <2> HIDE DEF S
  <2>2. Max(S) = k
    BY <2>1, MaxIs
  <2> QED BY <2>2 DEF S
<1>8. ASSUME NEW i \in DOMAIN m \cup {doc[k].id}
      PROVE  Show(doc[Max({n \in N : doc[n].id = i})].value)
               = IF i = doc[k].id THEN Show(doc[k].value) ELSE m[i]
  <2>1. CASE i = doc[k].id
    BY <1>7, <2>1
  <2>2. CASE i # doc[k].id
    <3>1. {n \in N : doc[n].id = i} = {n \in O : doc[n].id = i}
      BY <1>1, <2>2
    <3>2. m[i] = Show(doc[Max({n \in O : doc[n].id = i})].value)
      BY <1>3, <1>4, <2>2
    <3> QED BY <2>2, <3>1, <3>2, Zenon
  <2> QED BY <2>1, <2>2
<1> HIDE DEF I
<1> QED BY <1>5, <1>6, <1>8, Zenon DEF m, PutIn

\* A member that is read: its entry is in the map, or the document is void.
LEMMA ParseStep ==
  ASSUME NEW doc \in Documents, NEW k \in 1..(Len(doc) + 1), Reading(doc, k),
         parseAnibridgeJSON
  PROVE  \E l \in 1..(Len(doc) + 1) : Reading(doc, l)' \/ Voided(doc, l)'
<1> DEFINE e == doc[k]
           p == ParseAt(doc, k)
<1>1. parse = p /\ \A n \in 1..(k - 1) : ~Voids(doc[n])
  BY DEF Reading
<1>2. /\ p.doc = doc /\ p.at = k /\ p.err = FALSE
      /\ p.mal = MapOf(doc, "mal", k - 1) /\ p.anilist = MapOf(doc, "anilist", k - 1)
  BY DEF ParseAt
<1>3. Len(doc) \in Nat
  BY MemberIs
<1>4. k \in 1..Len(doc) /\ k + 1 \in 1..(Len(doc) + 1) /\ (k + 1) - 1 = k
  BY <1>1, <1>2, <1>3 DEF parseAnibridgeJSON, Finished
<1>5. e.id \in Int /\ e.value \in Value(TargetMember)
  BY <1>4, MemberIs
<1>6. 1..k = (1..(k - 1)) \cup {k}
  BY <1>4
<1>7. \/ Looked(e) /\ AddEntry(e)
      \/ ~Looked(e) /\ PassOver(~Broken(e.value))
  <2>1. e.value.kind \in {"null", "scalar"} => DOMAIN e.value.members = {}
    <3>1. e.value.kind \in {"null", "scalar"} => e.value.members = << >>
      BY <1>5 DEF Value
    <3> QED BY <3>1
  <2>2. /\ skipValue(e.value) = ~Broken(e.value)
        /\ parseDatasetMetadata(e.value) = ~Broken(e.value)
    BY <2>1 DEF parseDatasetMetadata, skipValue, Broken
  <2>3. \/ Looked(e) /\ AddEntry(e)
        \/ e.space = "meta" /\ PassOver(parseDatasetMetadata(e.value))
        \/ e.space # "meta" /\ ~Looked(e) /\ PassOver(skipValue(e.value))
    BY <1>1, <1>2 DEF parseAnibridgeJSON
  <2>4. e.space = "meta" => ~Looked(e)
    BY DEF Looked
  <2> QED BY <2>2, <2>3, <2>4, Zenon
<1> DEFINE Passed(err) == [doc |-> doc, at |-> k + 1, err |-> err, mal |-> p.mal, anilist |-> p.anilist]
<1>8. ASSUME NEW err \in BOOLEAN PROVE [p EXCEPT !.at = @ + 1, !.err = err] = Passed(err)
  <2>1. p = [doc |-> doc, at |-> k, err |-> FALSE, mal |-> p.mal, anilist |-> p.anilist]
    BY <1>2 DEF ParseAt
  <2> DEFINE l == k + 1
             w == [f \in DOMAIN p |-> IF f = "at" THEN l ELSE IF f = "err" THEN err ELSE p[f]]
             m == p.mal
             a == p.anilist
  <2>2. p = [doc |-> doc, at |-> k, err |-> FALSE, mal |-> m, anilist |-> a]
    BY <2>1
  <2> HIDE DEF l, m, a, p
  <2>3. [p EXCEPT !.at = l, !.err = err] = w
    OBVIOUS
  <2>4. w = [doc |-> doc, at |-> l, err |-> err, mal |-> m, anilist |-> a]
    BY <2>2
  <2> QED BY <1>2, <2>3, <2>4, Zenon DEF l, m, a
<1>9. ASSUME parse' = Passed(TRUE), Voids(e) PROVE Voided(doc, k + 1)'
  BY <1>4, <1>6, <1>9 DEF Voided
<1>10. ASSUME parse' = Passed(FALSE), ~Voids(e), ~(Looked(e) /\ Show(e.value) > 0)
       PROVE  Reading(doc, k + 1)'
  <2>1. /\ MapOf(doc, "mal", k) = MapOf(doc, "mal", k - 1)
        /\ MapOf(doc, "anilist", k) = MapOf(doc, "anilist", k - 1)
    BY <1>4, <1>10, SameMap
  <2>2. parse' = ParseAt(doc, k + 1)
    BY <1>2, <1>4, <1>10, <2>1 DEF ParseAt
  <2>3. \A n \in 1..((k + 1) - 1) : ~Voids(doc[n])
    BY <1>1, <1>4, <1>6, <1>10
  <2> QED BY <2>2, <2>3 DEF Reading
<1> HIDE DEF p, e
<1>11. CASE Looked(e) /\ AddEntry(e)
  <2>1. PICK order \in SetToSeqs(Latest(e.value.members)) :
          LET r == extractTVDB(e.value, order)
          IN  parse' = IF r.err \/ r.tvdb = 0 THEN [p EXCEPT !.at = @ + 1, !.err = r.err]
                       ELSE [p EXCEPT !.at = @ + 1,
                               ![e.space] = [i \in DOMAIN @ \cup {e.id} |->
                                               IF i = e.id THEN r.tvdb ELSE @[i]]]
    BY <1>1, <1>11 DEF AddEntry
  <2> DEFINE r == extractTVDB(e.value, order)
  <2>2. /\ r.err \in BOOLEAN
        /\ r.err <=> Voids(e)
        /\ ~r.err => r.tvdb = Show(e.value) /\ Show(e.value) \in Nat
    <3>1. Voids(e) <=> Broken(e.value) \/ Faulty(e.value)
      BY <1>11 DEF Voids
    <3> QED BY <1>5, <3>1, ExtractRight
  <2> HIDE DEF r
  <2>3. parse' = IF r.err \/ r.tvdb = 0 THEN [p EXCEPT !.at = @ + 1, !.err = r.err]
                 ELSE [p EXCEPT !.at = @ + 1,
                         ![e.space] = [i \in DOMAIN @ \cup {e.id} |-> IF i = e.id THEN r.tvdb ELSE @[i]]]
    BY <2>1 DEF r
  <2>4. CASE r.err
    <3>1. parse' = Passed(TRUE)
      BY <1>8, <2>2, <2>3, <2>4
    <3> QED BY <1>4, <1>9, <2>2, <2>4, <3>1
  <2>5. CASE ~r.err /\ r.tvdb = 0
    <3>1. parse' = Passed(FALSE)
      BY <1>8, <2>2, <2>3, <2>5
    <3>2. ~(Show(e.value) > 0)
      BY <2>2, <2>5
    <3> QED BY <1>4, <1>10, <2>2, <2>5, <3>1, <3>2
  <2>6. CASE ~r.err /\ r.tvdb # 0
    <3>1. r.tvdb = Show(e.value) /\ Show(e.value) > 0 /\ ~Voids(e)
      BY <2>2, <2>6
    <3> DEFINE Added(m) == [i \in DOMAIN m \cup {e.id} |-> IF i = e.id THEN r.tvdb ELSE m[i]]
    <3>2. parse' = [p EXCEPT !.at = @ + 1, ![e.space] = Added(@)]
      BY <2>3, <2>6
    <3>3. ASSUME NEW s, e.space = s PROVE MapOf(doc, s, k) = Added(MapOf(doc, s, k - 1))
      <4>1. doc[k].space = s /\ Looked(doc[k]) /\ Show(doc[k].value) > 0 /\ k \in 1..Len(doc)
        BY <1>4, <1>11, <3>1, <3>3 DEF e
      <4>2. MapOf(doc, s, k) = PutIn(doc, s, k)
        BY <4>1, NextMap
      <4> QED BY <3>1, <4>2, Zenon DEF e, PutIn
    <3>4. \A s : e.space # s => MapOf(doc, s, k) = MapOf(doc, s, k - 1)
      BY <1>4, SameMap DEF e
    <3> HIDE DEF Added
    <3>5. CASE e.space = "mal"
      <4>1. parse' = [p EXCEPT !.at = @ + 1, !.mal = Added(@)]
        BY <3>2, <3>5
      <4>2. parse' = ParseAt(doc, k + 1)
        BY <1>2, <1>4, <3>3, <3>4, <3>5, <4>1 DEF ParseAt, p
      <4>3. Reading(doc, k + 1)'
        BY <1>1, <1>4, <1>6, <3>1, <4>2 DEF Reading, e
      <4> QED BY <1>4, <4>3
    <3>6. CASE e.space = "anilist"
      <4>1. parse' = [p EXCEPT !.at = @ + 1, !.anilist = Added(@)]
        BY <3>2, <3>6
      <4>2. parse' = ParseAt(doc, k + 1)
        BY <1>2, <1>4, <3>3, <3>4, <3>6, <4>1 DEF ParseAt, p
      <4>3. Reading(doc, k + 1)'
        BY <1>1, <1>4, <1>6, <3>1, <4>2 DEF Reading, e
      <4> QED BY <1>4, <4>3
    <3> QED BY <1>11, <3>5, <3>6 DEF Looked
  <2> QED BY <2>4, <2>5, <2>6
<1>12. CASE ~Looked(e) /\ PassOver(~Broken(e.value))
  <2>1. Voids(e) <=> Broken(e.value)
    BY <1>12 DEF Voids
  <2>2. parse' = [p EXCEPT !.at = @ + 1, !.err = ~~Broken(e.value)]
    BY <1>1, <1>12 DEF PassOver
  <2>3. CASE Voids(e)
    <3>1. parse' = Passed(TRUE)
      BY <1>8, <2>1, <2>2, <2>3
    <3> QED BY <1>4, <1>9, <2>3, <3>1
  <2>4. CASE ~Voids(e)
    <3>1. parse' = Passed(FALSE)
      BY <1>8, <2>1, <2>2, <2>4
    <3> QED BY <1>4, <1>10, <1>12, <2>4, <3>1
  <2> QED BY <2>3, <2>4
<1> QED BY <1>7, <1>11, <1>12 DEF e

LEMMA ParseStarts == ParseInit => ParseInv
<1> SUFFICES ASSUME NEW doc \in Documents, parse = Started(doc) PROVE ParseInv
  BY DEF ParseInit, ParseInv
<1>1. Len(doc) \in Nat /\ 1 \in 1..(Len(doc) + 1) /\ 1..(1 - 1) = {}
  BY MemberIs
<1>2. ASSUME NEW s PROVE MapOf(doc, s, 1 - 1) = << >>
  <2>1. Named(doc, s, 1 - 1) = {}
    BY <1>1 DEF Named
  <2>2. MapOf(doc, s, 1 - 1) = [i \in {} |-> Show(doc[Max({n \in Named(doc, s, 1 - 1) : doc[n].id = i})].value)]
    BY <2>1 DEF MapOf
  <2> QED BY <2>2
<1>3. parse = ParseAt(doc, 1)
  BY <1>2 DEF Started, ParseAt
<1> QED BY <1>1, <1>3 DEF ParseInv, Reading

LEMMA ParseSteps == ParseInv /\ [ParseNext]_parse => ParseInv'
<1> SUFFICES ASSUME ParseInv, [ParseNext]_parse PROVE ParseInv'
  OBVIOUS
<1>1. CASE UNCHANGED parse
  BY <1>1 DEF ParseInv, Reading, Voided
<1>2. CASE EndParse
  BY <1>2 DEF EndParse, ParseInv
<1>3. CASE parseAnibridgeJSON
  <2>1. PICK doc \in Documents : \E k \in 1..(Len(doc) + 1) : Reading(doc, k) \/ Voided(doc, k)
    BY <1>3 DEF ParseInv, parseAnibridgeJSON
  <2>2. PICK k \in 1..(Len(doc) + 1) : Reading(doc, k) \/ Voided(doc, k)
    BY <2>1
  <2>3. Reading(doc, k)
    BY <1>3, <2>2 DEF parseAnibridgeJSON, Voided, Finished
  <2> QED BY <1>3, <2>3, ParseStep DEF ParseInv
<1> QED BY <1>1, <1>2, <1>3 DEF ParseNext

\* ParseRight's conclusion, of a parse and its document.
RightOf(p, doc) ==
  /\ p.err <=> \E n \in DOMAIN doc : Broken(doc[n].value) \/ (Looked(doc[n]) /\ Faulty(doc[n].value))
  /\ ~p.err => \A s \in {"mal", "anilist"} :
       LET N == {n \in DOMAIN doc : doc[n].space = s /\ Looked(doc[n]) /\ Show(doc[n].value) > 0}
       IN  /\ DOMAIN p[s] = {doc[n].id : n \in N}
           /\ \A i \in DOMAIN p[s] : p[s][i] = Show(doc[Max({n \in N : doc[n].id = i})].value)

LEMMA ParseInvRight == ParseInv => ParseRight
<1> SUFFICES ASSUME ParseInv, Finished PROVE ParseRight
  BY DEF ParseRight
<1>1. PICK doc \in Documents : \E k \in 1..(Len(doc) + 1) : Reading(doc, k) \/ Voided(doc, k)
  BY DEF ParseInv, Finished
<1>2. PICK k \in 1..(Len(doc) + 1) : Reading(doc, k) \/ Voided(doc, k)
  BY <1>1
<1>3. Len(doc) \in Nat /\ DOMAIN doc = 1..Len(doc)
  BY MemberIs
<1>4. CASE Voided(doc, k)
  <2>1. parse.doc = doc /\ parse.err = TRUE
    BY <1>4 DEF Voided
  <2>2. PICK n \in 1..(k - 1) : Voids(doc[n])
    BY <1>4 DEF Voided
  <2>3. n \in DOMAIN doc
    BY <1>3
  <2> QED BY <2>1, <2>2, <2>3 DEF ParseRight, Voids
<1>5. CASE Reading(doc, k)
  <2> DEFINE p == ParseAt(doc, k)
  <2>1. parse = p
    BY <1>5 DEF Reading
  <2>2. /\ p.doc = doc /\ p.at = k /\ p.err = FALSE
        /\ p.mal = MapOf(doc, "mal", k - 1) /\ p.anilist = MapOf(doc, "anilist", k - 1)
    BY DEF ParseAt
  <2>3. k = Len(doc) + 1 /\ 1..(k - 1) = DOMAIN doc
    BY <1>3, <2>1, <2>2 DEF Finished
  <2>4. \A n \in DOMAIN doc : ~Voids(doc[n])
    BY <1>5, <2>3 DEF Reading
  <2> HIDE DEF p
  <2>5. ASSUME NEW s \in {"mal", "anilist"}
        PROVE  LET N == {n \in DOMAIN doc : doc[n].space = s /\ Looked(doc[n]) /\ Show(doc[n].value) > 0}
               IN  /\ DOMAIN p[s] = {doc[n].id : n \in N}
                   /\ \A i \in DOMAIN p[s] : p[s][i] = Show(doc[Max({n \in N : doc[n].id = i})].value)
    <3> DEFINE N == {n \in DOMAIN doc : doc[n].space = s /\ Looked(doc[n]) /\ Show(doc[n].value) > 0}
    <3>1. p[s] = MapOf(doc, s, k - 1)
      BY <2>2
    <3>2. N = Named(doc, s, k - 1)
      BY <2>3, Zenon DEF Named
    <3> HIDE DEF N
    <3>3. p[s] = [i \in {doc[n].id : n \in N} |-> Show(doc[Max({n \in N : doc[n].id = i})].value)]
      BY <3>1, <3>2, Zenon DEF MapOf
    <3>4. /\ DOMAIN p[s] = {doc[n].id : n \in N}
          /\ \A i \in DOMAIN p[s] : p[s][i] = Show(doc[Max({n \in N : doc[n].id = i})].value)
      BY <3>3
    <3> QED BY <3>4 DEF N
  <2>6. p.err <=> \E n \in DOMAIN doc : Broken(doc[n].value) \/ (Looked(doc[n]) /\ Faulty(doc[n].value))
    BY <2>2, <2>4 DEF Voids
  <2>7. RightOf(p, doc)
    BY <2>5, <2>6, Zenon DEF RightOf
  <2>8. RightOf(parse, parse.doc)
    BY <2>1, <2>2, <2>7, Zenon
  <2> QED BY <2>8, Zenon DEF ParseRight, RightOf
<1> QED BY <1>2, <1>4, <1>5

(***************************************************************************)
(* Whatever the documents, the width of an int and Go's map iteration       *)
(* order, a parse that ends (parseAnibridgeJSON) has the mapping of its     *)
(* document, or its error.                                                  *)
(***************************************************************************)
THEOREM ParseIsRight == ParseSpec => []ParseRight
<1>1. ParseInv /\ UNCHANGED parse => ParseInv'
  BY ParseSteps
<1> QED BY ParseStarts, ParseSteps, ParseInvRight, PTL DEF ParseSpec
=============================================================================
