-------------------------- MODULE SupervisionProofs -------------------------
(***************************************************************************)
(* Proofs about what runs in the background.  First ProviderFiles: what    *)
(* refreshes do to caches and provider files.  Then ReserveService, for    *)
(* every set of callers and any number of kills: who holds the lock, whom  *)
(* the pid file names, and what a successful installation has seen.  Then  *)
(* NsfcSupervisor, for every set of runs: what a run leaves behind, and    *)
(* how many write the data directory.                                      *)
(***************************************************************************)
EXTENDS ReserveService, NsfcSupervisor, ProviderFiles, FiniteSetTheorems, TLAPS

-----------------------------------------------------------------------------
(***************************************************************************)
(* Provider files, for every set of subscriptions and refreshers, and any  *)
(* number of changes and failures.                                         *)
(***************************************************************************)

\* Versions are numbers that can be compared.
LEMMA VersionsAreNumbers ==
  Versions \subseteq Nat /\ 0 \in Versions /\ 1 \in Versions /\ NoNodes \in [Urls -> Versions]
  BY FilesBoundsAssumption DEF Versions, NoNodes

LEMMA InitFilesInv == FilesInit => FilesInv
  <1> SUFFICES ASSUME FilesInit PROVE FilesInv
    OBVIOUS
  <1>1. FilesTypes
    <2>1. changes \in 0 .. MaxChanges /\ failures \in 0 .. MaxFailures
      BY FilesBoundsAssumption DEF FilesInit
    <2>2. /\ offer \in [Urls -> Versions] /\ stored \in [Files -> [Urls -> Versions]]
          /\ got \in [Refreshers -> [Urls -> Versions]]
      BY VersionsAreNumbers DEF FilesInit
    <2>3. /\ temp \in [Files -> SUBSET [Urls -> Versions]] /\ writing \in [Refreshers -> Files \cup {NoFile}]
          /\ urls \in [Refreshers -> SUBSET Urls] /\ todo \in [Refreshers -> SUBSET Urls]
      BY DEF FilesInit
    <2> QED
      BY <2>1, <2>2, <2>3 DEF FilesInit, FilesTypes
  <1>2. OffersAreNewest
    BY DEF FilesInit, OffersAreNewest, NoneAhead, NotAhead, NoNodes
  <1>3. \A r \in Refreshers : KnowsSources(r) /\ WritesInOrder(r) /\ AloneWritesOwn(r)
    BY FilesAssumption DEF FilesInit, KnowsSources, WritesInOrder, AloneWritesOwn, Sources, NoNodes
  <1>4. FilesInTurn
    BY DEF FilesInit, FilesInTurn, Active, NoNodes, cache, dest, Files
  <1> QED
    BY <1>1, <1>2, <1>3, <1>4 DEF FilesInv

LEMMA ContentsAreNumbers ==
  ASSUME FilesTypes
  PROVE  /\ cache \in [Urls -> Nat] /\ dest \in [Urls -> Nat] /\ offer \in [Urls -> Nat]
         /\ \A r \in Refreshers : got[r] \in [Urls -> Nat]
  <1>1. /\ stored \in [Files -> [Urls -> Versions]] /\ offer \in [Urls -> Versions]
        /\ got \in [Refreshers -> [Urls -> Versions]]
    BY DEF FilesTypes
  <1>2. cache \in [Urls -> Versions] /\ dest \in [Urls -> Versions]
    BY <1>1 DEF cache, dest, Files
  <1> QED
    BY ONLY <1>1, <1>2, VersionsAreNumbers

\* Passing on what someone has, what a source delivers, or nothing, gets nobody ahead.
LEMMA PassedOnIsNotAhead ==
  ASSUME FilesTypes, OffersAreNewest
  PROVE  /\ NoneAhead(NoNodes) /\ NoneAhead(offer) /\ NoneAhead(Delivered)
         /\ NoneAhead(cache) /\ NoneAhead(dest)
         /\ \A r \in Refreshers : NoneAhead(got[r])
         /\ \A u \in Urls : NotAhead(u, 1)
  <1>1. changes \in Nat /\ \A u \in Urls : offer[u] \in Nat
    BY ContentsAreNumbers, FilesBoundsAssumption DEF FilesTypes
  <1>2. NoneAhead(NoNodes) /\ NoneAhead(offer) /\ \A u \in Urls : NotAhead(u, 1)
    BY <1>1 DEF NoneAhead, NotAhead, NoNodes, OffersAreNewest
  <1>3. NoneAhead(Delivered)
    BY <1>2 DEF NoneAhead, Delivered, NoNodes
  <1>4. NoneAhead(cache) /\ NoneAhead(dest)
    BY DEF OffersAreNewest, NoneAhead, cache, dest, Files
  <1> QED
    BY <1>2, <1>3, <1>4 DEF OffersAreNewest

\* What a refresher writes has a type, and is not ahead of anything.
LEMMA TextIsNotAhead ==
  ASSUME FilesTypes, OffersAreNewest, NEW r \in Refreshers
  PROVE  Text(r) \in [Urls -> Versions] /\ NoneAhead(Text(r))
  <1>1. Text(r) \in [Urls -> Versions]
    BY VersionsAreNumbers DEF FilesTypes, Text
  <1>2. \A u \in Urls : Text(r)[u] \in {0, 1, got[r][u]}
    BY DEF Text
  <1> QED
    BY <1>1, <1>2, PassedOnIsNotAhead DEF NoneAhead, NoNodes

\* Texts that are not ahead now still are not after a step that neither
\* changes a source nor has anyone hold others.
LEMMA StillNotAhead ==
  ASSUME FilesTypes, OffersAreNewest, UNCHANGED <<offer, changes>>,
         \A f \in Files : NoneAhead(stored'[f]) /\ \A text \in temp'[f] : NoneAhead(text),
         \A r \in Refreshers : NoneAhead(got'[r])
  PROVE  OffersAreNewest'
  BY DEF OffersAreNewest, NoneAhead, NotAhead

\* A refresher that is alone in writing its file does not notice what others
\* do to other files.
LEMMA StaysAlone ==
  ASSUME FilesTypes, NEW o \in Refreshers, AloneWritesOwn(o),
         UNCHANGED kind, writing'[o] = writing[o], urls'[o] = urls[o], got'[o] = got[o],
         o \notin overlap' => o \notin overlap,
         writing[o] # NoFile /\ o \notin overlap' /\ kind # "file" =>
           /\ hold'[o] = hold[o] /\ temp'[writing[o]] = temp[writing[o]]
           /\ \A p \in Refreshers \ {o} : writing'[p] # writing[o]
  PROVE  AloneWritesOwn(o)'
  BY DEF AloneWritesOwn, Text

\* What a refresh that ends leaves of itself.
LEMMA EndsRefresh ==
  ASSUME FilesTypes, NEW r \in Refreshers, RefreshEnds(r)
  PROVE  /\ refresh' \in [Refreshers -> {"idle", "urls", "fetch", "load", "write"}]
         /\ urls' \in [Refreshers -> SUBSET Urls] /\ todo' \in [Refreshers -> SUBSET Urls]
         /\ got' \in [Refreshers -> [Urls -> Versions]]
         /\ refresh'[r] = "idle" /\ urls'[r] = {} /\ todo'[r] = {} /\ got'[r] = NoNodes
         /\ \A o \in Refreshers \ {r} : /\ urls'[o] = urls[o] /\ got'[o] = got[o]
                                        /\ refresh'[o] = refresh[o] /\ todo'[o] = todo[o]
  BY VersionsAreNumbers DEF FilesTypes, RefreshEnds, Step

LEMMA RefreshBeginsInv ==
  ASSUME FilesInv, NEW r \in Refreshers, RefreshBegins(r)
  PROVE  FilesInv'
  <1> USE DEF FilesInv, RefreshBegins, Step, worldVars, diskVars, writeVars
  <1>1. FilesTypes'
    BY DEF FilesTypes
  <1>2. OffersAreNewest'
    BY StillNotAhead DEF OffersAreNewest
  <1>3. \A o \in Refreshers : KnowsSources(o)'
    BY DEF KnowsSources, FilesTypes, Come, Sources
  <1>4. \A o \in Refreshers : WritesInOrder(o)'
    BY DEF WritesInOrder, KnowsSources, FilesTypes, Come
  <1>5. \A o \in Refreshers : AloneWritesOwn(o)'
    BY StaysAlone DEF AloneWritesOwn
  <1>6. kind' = "remote" /\ ~mixed' => FilesInTurn'
    <2> SUFFICES ASSUME kind = "remote", ~mixed, \A o \in Refreshers : refresh[o] = "idle"
                 PROVE  FilesInTurn'
      BY DEF FilesTypes
    <2>1. \A p, o \in Active' : p = o
      BY DEF Active, FilesTypes
    <2>2. Come(r)' = {}
      BY DEF Come, KnowsSources
    <2>3. Active' = {r}
      BY DEF Active, FilesTypes
    <2> QED
      BY <2>1, <2>2, <2>3 DEF FilesInTurn, Active, cache, dest
  <1> QED
    BY <1>1, <1>2, <1>3, <1>4, <1>5, <1>6

\* Who opens a file it does not write has it to itself, or everyone who writes
\* it is known not to.
LEMMA OpensFile ==
  ASSUME FilesInv, NEW r \in Refreshers, NEW f \in Files, Opens(r, f), writing[r] = NoFile,
         UNCHANGED kind,
         \A o \in Refreshers \ {r} : urls'[o] = urls[o] /\ got'[o] = got[o]
  PROVE  /\ writing' \in [Refreshers -> Files \cup {NoFile}] /\ overlap' \in SUBSET Refreshers
         /\ hold' \in [Refreshers -> {"closed", "temp", "file", "full"}]
         /\ temp' \in [Files -> SUBSET [Urls -> Versions]] /\ stored' \in [Files -> [Urls -> Versions]]
         /\ \A g \in Files : NoneAhead(stored'[g]) /\ \A text \in temp'[g] : NoneAhead(text)
         /\ \A o \in Refreshers : AloneWritesOwn(o)'
  <1> USE DEF Opens, StartsWriting
  <1>0. FilesTypes /\ OffersAreNewest /\ \A o \in Refreshers : AloneWritesOwn(o) /\ WritesInOrder(o)
    BY DEF FilesInv
  <1>1. /\ writing' \in [Refreshers -> Files \cup {NoFile}] /\ overlap' \in SUBSET Refreshers
        /\ hold' \in [Refreshers -> {"closed", "temp", "file", "full"}]
    BY <1>0 DEF FilesTypes
  <1>2. temp' \in [Files -> SUBSET [Urls -> Versions]] /\ stored' \in [Files -> [Urls -> Versions]]
    BY <1>0, VersionsAreNumbers DEF FilesTypes
  <1>3. \A g \in Files : NoneAhead(stored'[g]) /\ \A text \in temp'[g] : NoneAhead(text)
    BY <1>0, PassedOnIsNotAhead DEF FilesTypes, OffersAreNewest
  <1>4. AloneWritesOwn(r)'
    BY <1>0, FilesAssumption DEF AloneWritesOwn, FilesTypes
  <1>5. ASSUME NEW o \in Refreshers \ {r} PROVE AloneWritesOwn(o)'
    <2>1. writing'[o] = writing[o] /\ hold'[o] = hold[o] /\ (o \notin overlap' => o \notin overlap)
      BY <1>0 DEF FilesTypes
    <2>2. ASSUME writing[o] # NoFile, o \notin overlap', kind # "file"
          PROVE  /\ temp'[writing[o]] = temp[writing[o]]
                 /\ \A p \in Refreshers \ {o} : writing'[p] # writing[o]
      <3>1. writing[o] # f
        BY <1>0, <2>2 DEF FilesTypes
      <3>2. \A p \in Refreshers \ {o} : writing[p] # writing[o]
        BY <1>0, <2>1, <2>2 DEF AloneWritesOwn
      <3> QED
        BY <1>0, <3>1, <3>2 DEF FilesTypes
    <2> QED
      BY <1>0, <2>1, <2>2, StaysAlone
  <1> QED
    BY <1>1, <1>2, <1>3, <1>4, <1>5

\* Texts, files and writers are as they were.
LEMMA WritesNothing ==
  ASSUME FilesInv, NEW r \in Refreshers, UNCHANGED <<kind, offer, changes, diskVars, writeVars>>,
         writing[r] = NoFile,
         \A o \in Refreshers \ {r} : urls'[o] = urls[o] /\ got'[o] = got[o]
  PROVE  /\ \A g \in Files : NoneAhead(stored'[g]) /\ \A text \in temp'[g] : NoneAhead(text)
         /\ \A o \in Refreshers : AloneWritesOwn(o)'
  <1>0. FilesTypes /\ OffersAreNewest /\ \A o \in Refreshers : AloneWritesOwn(o)
    BY DEF FilesInv
  <1>1. AloneWritesOwn(r)'
    BY DEF AloneWritesOwn, writeVars
  <1>2. ASSUME NEW o \in Refreshers \ {r} PROVE AloneWritesOwn(o)'
    BY <1>0, StaysAlone DEF writeVars, diskVars, AloneWritesOwn
  <1> QED
    BY <1>0, <1>1, <1>2 DEF OffersAreNewest, diskVars

LEMMA TakesUrlsInv ==
  ASSUME FilesInv, NEW r \in Refreshers, TakesUrls(r)
  PROVE  FilesInv'
  <1> DEFINE list(l) == Takes(r, l) \/ (l = {} /\ RefreshEnds(r))
  <1>0. /\ FilesTypes /\ OffersAreNewest /\ refresh[r] = "urls"
        /\ \A o \in Refreshers : KnowsSources(o) /\ WritesInOrder(o) /\ AloneWritesOwn(o)
    BY DEF FilesInv, TakesUrls
  <1>1. PICK l \in SUBSET Urls : list(l)
    BY <1>0 DEF FilesTypes, TakesUrls, manifest, Sources
  <1>2. writing[r] = NoFile /\ hold[r] = "closed" /\ kind = "remote" /\ got[r] = NoNodes
    BY <1>0, FilesAssumption DEF WritesInOrder, KnowsSources, FilesTypes, Files
  <1>3. /\ urls' = [urls EXCEPT ![r] = l] /\ todo' = [todo EXCEPT ![r] = l]
        /\ refresh' \in {[refresh EXCEPT ![r] = s] : s \in {"fetch", "idle"}}
        /\ (refresh'[r] = "idle" => l = {})
        /\ got' = got
    BY <1>0, <1>1, <1>2 DEF Takes, RefreshEnds, Step, FilesTypes
  <1>4. UNCHANGED <<kind, archive, offer, changes, mixed, stored>> /\ failures' \in 0 .. MaxFailures
    BY <1>0, FilesBoundsAssumption DEF TakesUrls, worldVars, diskVars, Opens, Fails, FilesTypes
  <1>5. (Opens(r, "manifest") /\ refresh'[r] = "fetch") \/ UNCHANGED <<diskVars, writeVars>>
    BY <1>0 DEF TakesUrls, Takes, Step, FilesTypes
  <1>6. \A o \in Refreshers \ {r} : /\ urls'[o] = urls[o] /\ got'[o] = got[o]
                                    /\ refresh'[o] = refresh[o] /\ todo'[o] = todo[o]
    BY <1>0, <1>3 DEF FilesTypes
  <1>7. /\ writing' \in [Refreshers -> Files \cup {NoFile}] /\ overlap' \in SUBSET Refreshers
        /\ hold' \in [Refreshers -> {"closed", "temp", "file", "full"}]
        /\ temp' \in [Files -> SUBSET [Urls -> Versions]] /\ stored' \in [Files -> [Urls -> Versions]]
        /\ \A g \in Files : NoneAhead(stored'[g]) /\ \A text \in temp'[g] : NoneAhead(text)
        /\ \A o \in Refreshers : AloneWritesOwn(o)'
    <2>1. CASE Opens(r, "manifest")
      BY <1>2, <1>4, <1>6, <2>1, OpensFile DEF Files
    <2>2. CASE UNCHANGED <<diskVars, writeVars>>
      BY <1>0, <1>2, <1>4, <1>6, <2>2, WritesNothing DEF writeVars, diskVars, FilesTypes
    <2> QED
      BY <1>5, <2>1, <2>2
  <1>8. FilesTypes'
    BY <1>0, <1>3, <1>4, <1>7 DEF FilesTypes
  <1>9. OffersAreNewest'
    BY <1>0, <1>3, <1>4, <1>7, StillNotAhead DEF OffersAreNewest
  <1>10. ASSUME NEW o \in Refreshers PROVE KnowsSources(o)'
    <2>1. CASE o = r
      BY <1>0, <1>2, <1>3, <1>4, <2>1 DEF KnowsSources, Sources, NoNodes, FilesTypes
    <2>2. CASE o # r
      BY <1>0, <1>4, <1>6, <2>2 DEF KnowsSources, Come
    <2> QED
      BY <2>1, <2>2
  <1>11. ASSUME NEW o \in Refreshers PROVE WritesInOrder(o)'
    <2>1. CASE o = r
      <3>1. CASE Opens(r, "manifest") /\ refresh'[r] = "fetch"
        BY <1>0, <1>3, <2>1, <3>1, FilesAssumption DEF WritesInOrder, Opens, StartsWriting, FilesTypes, NoFile
      <3>2. CASE UNCHANGED <<diskVars, writeVars>>
        BY <1>0, <1>2, <2>1, <3>2, FilesAssumption DEF WritesInOrder, writeVars, NoFile
      <3> QED
        BY <1>5, <3>1, <3>2
    <2>2. CASE o # r
      <3>1. writing'[o] = writing[o] /\ hold'[o] = hold[o]
        BY <1>0, <1>5, <2>2 DEF writeVars, Opens, StartsWriting, FilesTypes
      <3> QED
        BY <1>0, <1>6, <2>2, <3>1 DEF WritesInOrder, Come
    <2> QED
      BY <2>1, <2>2
  <1>12. kind' = "remote" /\ ~mixed' => FilesInTurn'
    <2> SUFFICES ASSUME FilesInTurn PROVE FilesInTurn'
      BY <1>4 DEF FilesInv
    <2>1. Active' \subseteq {r} /\ \A o \in Refreshers : o # r => refresh[o] = "idle"
      BY <1>0, <1>3 DEF FilesInTurn, Active, FilesTypes
    <2>2. overlap' = {}
      <3>1. \A o \in Refreshers : writing[o] = NoFile
        BY <1>0, <1>2, <2>1 DEF WritesInOrder
      <3> QED
        BY <1>5, <3>1 DEF FilesInTurn, Opens, StartsWriting, writeVars, NoFile
    <2>3. Come(r)' = {}
      BY <1>0, <1>3 DEF Come, FilesTypes
    <2>4. cache' = cache /\ dest' = dest
      BY <1>4 DEF cache, dest
    <2>5. \A o \in Refreshers : refresh[o] # "write"
      BY <1>0, <2>1
    <2> QED
      BY <2>1, <2>2, <2>3, <2>4, <2>5 DEF FilesInTurn
  <1> QED
    BY <1>7, <1>8, <1>9, <1>10, <1>11, <1>12 DEF FilesInv

LEMMA FetchesInv ==
  ASSUME FilesInv, NEW r \in Refreshers, NEW u \in Urls, Fetches(r, u)
  PROVE  FilesInv'
  <1>0. /\ FilesTypes /\ OffersAreNewest /\ refresh[r] = "fetch" /\ writing[r] = NoFile /\ u \in todo[r]
        /\ \A o \in Refreshers : KnowsSources(o) /\ WritesInOrder(o) /\ AloneWritesOwn(o)
    BY DEF FilesInv, Fetches, Comes, NextOf
  <1>1. hold[r] = "closed" /\ kind = "remote" /\ u \in urls[r]
    BY <1>0 DEF WritesInOrder, KnowsSources
  <1>2. /\ todo' = [todo EXCEPT ![r] = @ \ {u}]
        /\ UNCHANGED <<kind, archive, offer, changes, refresh, urls, mixed, stored>>
    BY DEF Fetches, Comes, worldVars, Downloads, NoDownload, Opens, diskVars
  <1>3. failures' \in 0 .. MaxFailures
    BY <1>0, FilesBoundsAssumption DEF Fetches, Downloads, NoDownload, Fails, FilesTypes
  <1>4. PICK v \in {offer[u], cache[u]} :
          /\ got' = [got EXCEPT ![r][u] = v]
          /\ \/ v = offer[u] /\ offer[u] # 0 /\ Opens(r, u)
             \/ v = cache[u] /\ UNCHANGED <<diskVars, writeVars>>
    BY DEF Fetches, Downloads, NoDownload
  <1>5. v \in Versions /\ NotAhead(u, v)
    BY <1>0, <1>4, PassedOnIsNotAhead DEF FilesTypes, cache, Files, NoneAhead
  <1>6. /\ \A o \in Refreshers \ {r} : got'[o] = got[o] /\ todo'[o] = todo[o]
        /\ got'[r] = [got[r] EXCEPT ![u] = v] /\ todo'[r] = todo[r] \ {u}
    BY <1>0, <1>2, <1>4 DEF FilesTypes
  <1>7. /\ writing' \in [Refreshers -> Files \cup {NoFile}] /\ overlap' \in SUBSET Refreshers
        /\ hold' \in [Refreshers -> {"closed", "temp", "file", "full"}]
        /\ temp' \in [Files -> SUBSET [Urls -> Versions]] /\ stored' \in [Files -> [Urls -> Versions]]
        /\ \A g \in Files : NoneAhead(stored'[g]) /\ \A text \in temp'[g] : NoneAhead(text)
        /\ \A o \in Refreshers : AloneWritesOwn(o)'
    <2>1. CASE Opens(r, u)
      BY <1>0, <1>2, <1>6, <2>1, OpensFile DEF Files
    <2>2. CASE UNCHANGED <<diskVars, writeVars>>
      BY <1>0, <1>2, <1>6, <2>2, WritesNothing DEF writeVars, diskVars, FilesTypes
    <2> QED
      BY <1>4, <2>1, <2>2
  <1>8. FilesTypes'
    <2>1. got' \in [Refreshers -> [Urls -> Versions]] /\ todo' \in [Refreshers -> SUBSET Urls]
      BY <1>0, <1>2, <1>4, <1>5 DEF FilesTypes
    <2> QED
      BY <1>0, <1>2, <1>3, <1>7, <2>1 DEF FilesTypes
  <1>9. OffersAreNewest'
    <2>1. NoneAhead(got'[r])
      BY <1>0, <1>5, <1>6 DEF OffersAreNewest, NoneAhead, FilesTypes
    <2> QED
      BY <1>0, <1>2, <1>6, <1>7, <2>1, StillNotAhead DEF OffersAreNewest
  <1>10. ASSUME NEW o \in Refreshers PROVE KnowsSources(o)'
    <2>1. CASE o = r
      BY <1>0, <1>1, <1>2, <1>6, <2>1 DEF KnowsSources, Sources, Come, FilesTypes
    <2>2. CASE o # r
      BY <1>0, <1>2, <1>6, <2>2 DEF KnowsSources, Come
    <2> QED
      BY <2>1, <2>2
  <1>11. ASSUME NEW o \in Refreshers PROVE WritesInOrder(o)'
    <2>1. CASE o = r
      <3>1. CASE Opens(r, u)
        BY <1>0, <1>1, <1>2, <1>6, <2>1, <3>1, FilesAssumption
        DEF WritesInOrder, Opens, StartsWriting, FilesTypes, NoFile, Come
      <3>2. CASE UNCHANGED <<diskVars, writeVars>>
        BY <1>0, <1>1, <2>1, <3>2, FilesAssumption DEF WritesInOrder, writeVars, NoFile
      <3> QED
        BY <1>4, <3>1, <3>2
    <2>2. CASE o # r
      <3>1. writing'[o] = writing[o] /\ hold'[o] = hold[o]
        BY <1>0, <1>4, <2>2 DEF writeVars, Opens, StartsWriting, FilesTypes
      <3> QED
        BY <1>0, <1>2, <1>6, <2>2, <3>1 DEF WritesInOrder, Come
    <2> QED
      BY <2>1, <2>2
  <1>12. kind' = "remote" /\ ~mixed' => FilesInTurn'
    <2> SUFFICES ASSUME FilesInTurn PROVE FilesInTurn'
      BY <1>2 DEF FilesInv
    <2>1. Active = {r} /\ Active' = Active
      BY <1>0, <1>2 DEF FilesInTurn, Active
    <2>2. overlap' = {}
      <3>1. \A o \in Refreshers : writing[o] = NoFile
        BY <1>0, <1>1, <2>1 DEF WritesInOrder, Active
      <3> QED
        BY <1>4, <3>1, FilesAssumption DEF FilesInTurn, Opens, StartsWriting, writeVars, NoFile
    <2>3. Come(r)' = Come(r) \cup {u}
      BY <1>0, <1>1, <1>2, <1>6 DEF Come
    <2>4. cache' = cache /\ dest' = dest
      BY <1>2 DEF cache, dest
    <2>5. \A o \in Refreshers : refresh[o] # "write"
      BY <1>0, <2>1 DEF Active
    <2>6. v >= dest[u] /\ (u = writing'[r] \/ cache[u] >= v)
      <3>1. offer[u] # 0 => offer[u] >= dest[u]
        <4>1. dest[u] \in Nat /\ offer[u] \in Nat
          BY <1>0, ContentsAreNumbers
        <4>2. NotAhead(u, dest[u])
          BY <1>0, PassedOnIsNotAhead DEF NoneAhead
        <4> QED
          BY <4>1, <4>2 DEF NotAhead
      <3>2. cache[u] \in Nat
        BY <1>0, ContentsAreNumbers
      <3>3. cache[u] >= dest[u]
        BY <2>5 DEF FilesInTurn
      <3>4. Opens(r, u) => writing'[r] = u
        BY <1>0 DEF Opens, StartsWriting, FilesTypes
      <3> QED
        BY <1>4, <3>1, <3>2, <3>3, <3>4
    <2>7. ASSUME NEW w \in Come(r)'
          PROVE  (w = writing'[r] \/ cache[w] >= got'[r][w]) /\ got'[r][w] >= dest[w]
      <3>1. CASE w = u
        BY <1>0, <1>6, <2>6, <3>1 DEF FilesTypes
      <3>2. CASE w # u
        <4>1. w \in Come(r) /\ w \in Urls /\ got'[r][w] = got[r][w] /\ w # writing[r]
          BY <1>0, <1>6, <2>3, <2>7, <3>2, FilesAssumption DEF FilesTypes, Come
        <4> QED
          BY <2>1, <4>1 DEF FilesInTurn
      <3> QED
        BY <3>1, <3>2
    <2> QED
      BY <1>2, <2>1, <2>2, <2>4, <2>5, <2>7 DEF FilesInTurn
  <1> QED
    BY <1>7, <1>8, <1>9, <1>10, <1>11, <1>12 DEF FilesInv

LEMMA MergesInv ==
  ASSUME FilesInv, NEW r \in Refreshers, Merges(r)
  PROVE  FilesInv'
  <1> DEFINE none == got[r] = NoNodes
  <1>0. /\ FilesTypes /\ OffersAreNewest /\ refresh[r] = "fetch" /\ writing[r] = NoFile /\ todo[r] = {}
        /\ \A o \in Refreshers : KnowsSources(o) /\ WritesInOrder(o) /\ AloneWritesOwn(o)
    BY DEF FilesInv, Merges
  <1>1. /\ UNCHANGED <<kind, archive, offer, changes, temp, writing, overlap, mixed, failures>>
        /\ none => RefreshEnds(r) /\ UNCHANGED <<stored, hold>>
        /\ ~none => Step(r, "write") /\ Removes(Prunes(r)) /\ UNCHANGED <<urls, todo, got>>
    BY DEF Merges, NoneFound, worldVars
  <1>2. kind = "remote" /\ hold[r] = "closed"
    BY <1>0 DEF KnowsSources, WritesInOrder
  <1>3. /\ refresh' \in [Refreshers -> {"idle", "urls", "fetch", "load", "write"}]
        /\ urls' \in [Refreshers -> SUBSET Urls] /\ todo' \in [Refreshers -> SUBSET Urls]
        /\ got' \in [Refreshers -> [Urls -> Versions]]
        /\ refresh'[r] = IF none THEN "idle" ELSE "write"
        /\ todo'[r] = {} /\ (none => urls'[r] = {} /\ got'[r] = NoNodes)
        /\ (~none => urls'[r] = urls[r] /\ got'[r] = got[r])
        /\ \A o \in Refreshers \ {r} : /\ urls'[o] = urls[o] /\ got'[o] = got[o]
                                       /\ refresh'[o] = refresh[o] /\ todo'[o] = todo[o]
    <2>1. CASE none
      BY <1>0, <1>1, <2>1, EndsRefresh
    <2>2. CASE ~none
      BY <1>0, <1>1, <2>2 DEF FilesTypes, Step
    <2> QED
      BY <2>1, <2>2
  <1>4. /\ stored' \in [Files -> [Urls -> Versions]]
        /\ \A g \in Files : stored'[g] \in {stored[g], NoNodes}
        /\ stored'["provider"] = stored["provider"]
        /\ \A u \in urls[r] : stored'[u] = stored[u]
    BY <1>0, <1>1, VersionsAreNumbers, FilesAssumption DEF FilesTypes, Removes, Prunes, Files
  <1>5. /\ hold' \in [Refreshers -> {"closed", "temp", "file", "full"}]
        /\ \A o \in Refreshers : hold[o] # "file" => hold'[o] = hold[o]
        /\ \A o \in Refreshers : hold'[o] = "closed" <=> hold[o] = "closed"
    BY <1>0, <1>1 DEF FilesTypes, Removes
  <1>6. FilesTypes'
    BY <1>0, <1>1, <1>3, <1>4, <1>5 DEF FilesTypes
  <1>7. OffersAreNewest'
    <2>1. \A g \in Files : NoneAhead(stored'[g]) /\ \A text \in temp'[g] : NoneAhead(text)
      BY <1>0, <1>1, <1>4, PassedOnIsNotAhead DEF OffersAreNewest
    <2>2. \A o \in Refreshers : NoneAhead(got'[o])
      BY <1>0, <1>3, PassedOnIsNotAhead
    <2> QED
      BY <1>0, <1>1, <2>1, <2>2, StillNotAhead
  <1>8. ASSUME NEW o \in Refreshers PROVE KnowsSources(o)'
    <2>1. CASE o = r
      BY <1>0, <1>1, <1>2, <1>3, <2>1 DEF KnowsSources, Sources, Come, NoNodes
    <2>2. CASE o # r
      BY <1>0, <1>1, <1>3, <2>2 DEF KnowsSources, Come
    <2> QED
      BY <2>1, <2>2
  <1>9. ASSUME NEW o \in Refreshers PROVE WritesInOrder(o)'
    BY <1>0, <1>1, <1>2, <1>3, <1>5, FilesAssumption DEF WritesInOrder, Come, NoFile
  <1>10. ASSUME NEW o \in Refreshers PROVE AloneWritesOwn(o)'
    <2>1. CASE o = r
      BY <1>0, <1>1, <2>1 DEF AloneWritesOwn
    <2>2. CASE o # r
      <3>1. writing[o] # NoFile /\ o \notin overlap /\ kind # "file" =>
              hold'[o] = hold[o] /\ \A p \in Refreshers \ {o} : writing[p] # writing[o]
        BY <1>0, <1>5 DEF AloneWritesOwn
      <3> QED
        BY <1>0, <1>1, <1>3, <2>2, <3>1, StaysAlone
    <2> QED
      BY <2>1, <2>2
  <1>11. kind' = "remote" /\ ~mixed' => FilesInTurn'
    <2> SUFFICES ASSUME FilesInTurn PROVE FilesInTurn'
      BY <1>1 DEF FilesInv
    <2>1. Active = {r} /\ Active' = IF none THEN {} ELSE {r}
      BY <1>0, <1>3 DEF FilesInTurn, Active
    <2>2. \A u \in Urls : cache[u] >= dest[u]
      BY <1>0, <2>1 DEF FilesInTurn, Active
    <2>3. dest' = dest /\ \A u \in urls[r] : cache'[u] = cache[u]
      BY <1>0, <1>4 DEF dest, cache, FilesTypes
    <2>4. CASE none
      <3>1. cache' = cache
        BY <1>1, <2>4 DEF cache
      <3> QED
        BY <1>1, <2>1, <2>2, <2>3, <2>4, <3>1 DEF FilesInTurn
    <2>5. CASE ~none
      <3>1. ASSUME NEW u \in Come(r)'
            PROVE  cache'[u] >= got'[r][u] /\ got'[r][u] >= dest'[u]
        <4>1. u \in Come(r) /\ u \in Urls /\ u \in urls[r]
          BY <1>0, <1>3, <2>5, <3>1 DEF Come, FilesTypes
        <4> QED
          BY <1>0, <1>3, <2>1, <2>3, <2>5, <4>1, FilesAssumption DEF FilesInTurn
      <3> QED
        BY <1>0, <1>1, <1>3, <2>1, <2>5, <3>1 DEF FilesInTurn
    <2> QED
      BY <2>4, <2>5
  <1> QED
    BY <1>6, <1>7, <1>8, <1>9, <1>10, <1>11 DEF FilesInv

LEMMA LoadsInv ==
  ASSUME FilesInv, NEW r \in Refreshers, Loads(r)
  PROVE  FilesInv'
  <1>0. /\ FilesTypes /\ OffersAreNewest /\ refresh[r] = "load" /\ kind # "remote"
        /\ \A o \in Refreshers : KnowsSources(o) /\ WritesInOrder(o) /\ AloneWritesOwn(o)
    BY DEF FilesInv, Loads, KnowsSources
  <1>1. UNCHANGED <<kind, archive, offer, changes, stored, temp, writing, hold, overlap, mixed>>
    BY DEF Loads, worldVars, diskVars, writeVars
  <1>2. failures' \in 0 .. MaxFailures
    BY <1>0, FilesBoundsAssumption DEF Loads, Fails, FilesTypes
  <1>3. \/ RefreshEnds(r)
        \/ \E content \in {dest, Delivered} :
             /\ kind \in KeepsNodes => content # NoNodes
             /\ got' = [got EXCEPT ![r] = content] /\ Step(r, "write") /\ UNCHANGED <<urls, todo>>
    BY DEF Loads, KeepsNodes
  <1>4. writing[r] = NoFile /\ hold[r] = "closed" /\ urls[r] \subseteq Urls
    BY <1>0 DEF WritesInOrder, FilesTypes
  <1>5. dest \in [Urls -> Versions] /\ Delivered \in [Urls -> Versions]
    BY <1>0, VersionsAreNumbers DEF FilesTypes, dest, Files, Delivered
  <1>6. /\ refresh' \in [Refreshers -> {"idle", "urls", "fetch", "load", "write"}]
        /\ urls' \in [Refreshers -> SUBSET Urls] /\ todo' \in [Refreshers -> SUBSET Urls]
        /\ got' \in [Refreshers -> [Urls -> Versions]]
        /\ refresh'[r] \in {"idle", "write"}
        /\ (refresh'[r] = "idle" => urls'[r] = {} /\ todo'[r] = {} /\ got'[r] = NoNodes)
        /\ (refresh'[r] = "write" /\ kind \in KeepsNodes => got'[r] # NoNodes)
        /\ got'[r] \in {dest, Delivered, NoNodes}
        /\ urls'[r] = {} /\ todo'[r] = {}
        /\ \A o \in Refreshers \ {r} : /\ urls'[o] = urls[o] /\ got'[o] = got[o]
                                       /\ refresh'[o] = refresh[o] /\ todo'[o] = todo[o]
    <2>1. CASE RefreshEnds(r)
      BY <1>0, <2>1, EndsRefresh
    <2>2. CASE ~RefreshEnds(r)
      <3>1. urls[r] = {} /\ todo[r] = {}
        BY <1>0 DEF KnowsSources
      <3>2. PICK content \in {dest, Delivered} :
              /\ kind \in KeepsNodes => content # NoNodes
              /\ got' = [got EXCEPT ![r] = content] /\ Step(r, "write") /\ UNCHANGED <<urls, todo>>
        BY <1>3, <2>2
      <3> QED
        BY <1>0, <1>5, <3>1, <3>2 DEF FilesTypes, Step
    <2> QED
      BY <2>1, <2>2
  <1>7. FilesTypes'
    BY <1>0, <1>1, <1>2, <1>6 DEF FilesTypes
  <1>8. OffersAreNewest'
    <2>1. \A o \in Refreshers : NoneAhead(got'[o])
      BY <1>0, <1>6, PassedOnIsNotAhead
    <2> QED
      BY <1>0, <1>1, <2>1, StillNotAhead DEF OffersAreNewest
  <1>9. ASSUME NEW o \in Refreshers PROVE KnowsSources(o)'
    BY <1>0, <1>1, <1>6 DEF KnowsSources, Come
  <1>10. ASSUME NEW o \in Refreshers PROVE WritesInOrder(o)'
    BY <1>0, <1>1, <1>4, <1>6, FilesAssumption DEF WritesInOrder, Come, NoFile
  <1>11. \A o \in Refreshers : AloneWritesOwn(o)'
    BY <1>1, <1>4, <1>6, WritesNothing DEF diskVars, writeVars
  <1> QED
    BY <1>0, <1>1, <1>7, <1>8, <1>9, <1>10, <1>11 DEF FilesInv

LEMMA WritesInv ==
  ASSUME FilesInv, NEW r \in Refreshers, Writes(r)
  PROVE  FilesInv'
  <1>0. /\ FilesTypes /\ OffersAreNewest /\ refresh[r] = "write" /\ writing[r] = NoFile
        /\ \A o \in Refreshers : KnowsSources(o) /\ WritesInOrder(o) /\ AloneWritesOwn(o)
    BY DEF FilesInv, Writes
  <1>1. UNCHANGED <<kind, archive, offer, changes, refresh, urls, todo, got, mixed, failures>>
    BY DEF Writes, worldVars, refreshVars
  <1>2. /\ writing' = [writing EXCEPT ![r] = "provider"]
        /\ hold' \in {[hold EXCEPT ![r] = s] : s \in {"temp", "file"}}
        /\ \/ Opens(r, "provider") /\ kind # "file"
           \/ Copies(r) /\ kind = "file"
    BY DEF Writes, Opens, Copies, StartsWriting
  <1>3. /\ writing' \in [Refreshers -> Files \cup {NoFile}] /\ overlap' \in SUBSET Refreshers
        /\ hold' \in [Refreshers -> {"closed", "temp", "file", "full"}]
        /\ temp' \in [Files -> SUBSET [Urls -> Versions]] /\ stored' \in [Files -> [Urls -> Versions]]
        /\ \A g \in Files : NoneAhead(stored'[g]) /\ \A text \in temp'[g] : NoneAhead(text)
        /\ \A o \in Refreshers : AloneWritesOwn(o)'
    <2>1. CASE Opens(r, "provider")
      BY <1>0, <1>1, <2>1, OpensFile DEF Files
    <2>2. CASE Copies(r) /\ kind = "file"
      <3>1. /\ overlap' \in SUBSET Refreshers
            /\ writing' \in [Refreshers -> Files \cup {NoFile}]
            /\ hold' \in [Refreshers -> {"closed", "temp", "file", "full"}]
        BY <1>0, <1>2, <2>2 DEF Copies, StartsWriting, FilesTypes, Files
      <3>2. temp' = temp /\ stored' = [stored EXCEPT !["provider"] = NoNodes]
        BY <2>2 DEF Copies
      <3>3. stored' \in [Files -> [Urls -> Versions]]
        BY <1>0, <3>2, VersionsAreNumbers DEF FilesTypes
      <3>4. \A g \in Files : NoneAhead(stored'[g]) /\ \A text \in temp'[g] : NoneAhead(text)
        BY <1>0, <3>2, PassedOnIsNotAhead DEF FilesTypes, OffersAreNewest
      <3>5. \A o \in Refreshers : AloneWritesOwn(o)'
        BY <1>1, <2>2 DEF AloneWritesOwn
      <3> QED
        BY <1>0, <3>1, <3>2, <3>3, <3>4, <3>5 DEF FilesTypes
    <2> QED
      BY <1>2, <2>1, <2>2
  <1>4. FilesTypes'
    BY <1>0, <1>1, <1>3 DEF FilesTypes
  <1>5. OffersAreNewest'
    BY <1>0, <1>1, <1>3, StillNotAhead DEF OffersAreNewest
  <1>6. \A o \in Refreshers : KnowsSources(o)'
    BY <1>0, <1>1 DEF KnowsSources, Come
  <1>7. ASSUME NEW o \in Refreshers PROVE WritesInOrder(o)'
    BY <1>0, <1>1, <1>2, FilesAssumption DEF WritesInOrder, Come, NoFile, FilesTypes
  <1>8. kind' = "remote" /\ ~mixed' => FilesInTurn'
    <2> SUFFICES ASSUME kind = "remote", FilesInTurn PROVE FilesInTurn'
      BY <1>1 DEF FilesInv
    <2>1. Active = {r} /\ Active' = Active
      BY <1>0, <1>1 DEF FilesInTurn, Active
    <2>2. overlap' = {} /\ UNCHANGED stored
      <3>1. \A o \in Refreshers : writing[o] = NoFile
        BY <1>0, <2>1 DEF WritesInOrder, Active
      <3> QED
        BY <1>2, <3>1 DEF FilesInTurn, Opens, StartsWriting, NoFile
    <2>3. Come(r)' = Come(r) /\ Come(r) \subseteq Urls
      BY <1>0, <1>1 DEF Come, FilesTypes
    <2>4. cache' = cache /\ dest' = dest
      BY <2>2 DEF cache, dest
    <2>5. \A u \in Urls : u # writing[r] /\ u # writing'[r]
      BY <1>0, <1>2, FilesAssumption DEF FilesTypes
    <2> QED
      BY <1>0, <1>1, <2>1, <2>2, <2>3, <2>4, <2>5 DEF FilesInTurn
  <1> QED
    BY <1>3, <1>4, <1>5, <1>6, <1>7, <1>8 DEF FilesInv

\* What a refresher may put into a file.
LEMMA Puts ==
  ASSUME FilesInv, NEW r \in Refreshers, hold[r] # "closed"
  PROVE  /\ writing[r] \in Files
         /\ writing[r] # NoFile
         /\ \A text \in {Text(r), NoNodes} \cup temp[writing[r]] :
              text \in [Urls -> Versions] /\ NoneAhead(text)
         /\ kind # "file" /\ r \notin overlap =>
              /\ hold[r] \in {"temp", "full"}
              /\ hold[r] = "full" => temp[writing[r]] = {Text(r)}
              /\ \A o \in Refreshers \ {r} : writing[o] # writing[r]
  <1>0. FilesTypes /\ OffersAreNewest /\ WritesInOrder(r) /\ AloneWritesOwn(r)
    BY DEF FilesInv
  <1>1. writing[r] \in Files /\ writing[r] # NoFile
    BY <1>0 DEF WritesInOrder, FilesTypes
  <1>2. \A text \in temp[writing[r]] : text \in [Urls -> Versions] /\ NoneAhead(text)
    BY <1>0, <1>1 DEF FilesTypes, OffersAreNewest
  <1> QED
    BY <1>0, <1>1, <1>2, TextIsNotAhead, PassedOnIsNotAhead, VersionsAreNumbers DEF AloneWritesOwn

LEMMA FillsInv ==
  ASSUME FilesInv, NEW r \in Refreshers, Fills(r)
  PROVE  FilesInv'
  <1>0. /\ FilesTypes /\ OffersAreNewest /\ hold[r] \in {"temp", "file"}
        /\ \A o \in Refreshers : KnowsSources(o) /\ WritesInOrder(o) /\ AloneWritesOwn(o)
    BY DEF FilesInv, Fills
  <1>1. /\ UNCHANGED <<kind, archive, offer, changes, refresh, urls, todo, got, writing, overlap, mixed, failures>>
        /\ hold' = [hold EXCEPT ![r] = "full"]
    BY DEF Fills, worldVars, refreshVars
  <1>2. PICK text \in {Text(r), NoNodes} :
          /\ r \notin overlap => text = Text(r)
          /\ temp' = IF hold[r] = "temp" THEN [temp EXCEPT ![writing[r]] = {text}] ELSE temp
          /\ stored' = IF hold[r] = "file" THEN [stored EXCEPT ![writing[r]] = text] ELSE stored
    BY DEF Fills
  <1>3. writing[r] \in Files /\ text \in [Urls -> Versions] /\ NoneAhead(text)
    BY <1>0, <1>2, Puts
  <1>4. /\ stored' \in [Files -> [Urls -> Versions]] /\ temp' \in [Files -> SUBSET [Urls -> Versions]]
        /\ \A g \in Files : NoneAhead(stored'[g]) /\ \A t \in temp'[g] : NoneAhead(t)
    BY <1>0, <1>2, <1>3 DEF FilesTypes, OffersAreNewest
  <1>5. FilesTypes'
    BY <1>0, <1>1, <1>4 DEF FilesTypes
  <1>6. OffersAreNewest'
    BY <1>0, <1>1, <1>4, StillNotAhead DEF OffersAreNewest
  <1>7. \A o \in Refreshers : KnowsSources(o)'
    BY <1>0, <1>1 DEF KnowsSources, Come
  <1>8. ASSUME NEW o \in Refreshers PROVE WritesInOrder(o)'
    BY <1>0, <1>1 DEF WritesInOrder, Come, FilesTypes
  <1>9. ASSUME NEW o \in Refreshers PROVE AloneWritesOwn(o)'
    <2>1. CASE o = r
      <3>1. Text(r)' = Text(r)
        BY <1>1 DEF Text
      <3> QED
        BY <1>0, <1>1, <1>2, <1>3, <2>1, <3>1 DEF AloneWritesOwn, FilesTypes
    <2>2. CASE o # r
      <3>1. hold'[o] = hold[o]
        BY <1>0, <1>1, <2>2 DEF FilesTypes
      <3>2. writing[o] # NoFile /\ o \notin overlap /\ kind # "file" =>
              /\ temp'[writing[o]] = temp[writing[o]]
              /\ \A p \in Refreshers \ {o} : writing[p] # writing[o]
        BY <1>0, <1>2, <1>3, <2>2 DEF AloneWritesOwn, FilesTypes
      <3> QED
        BY <1>0, <1>1, <3>1, <3>2, StaysAlone
    <2> QED
      BY <2>1, <2>2
  <1>10. kind' = "remote" /\ ~mixed' => FilesInTurn'
    <2> SUFFICES ASSUME kind = "remote", FilesInTurn PROVE FilesInTurn'
      BY <1>1 DEF FilesInv
    <2>1. stored' = stored
      BY <1>0, <1>2, Puts DEF FilesInTurn
    <2> QED
      BY <1>1, <2>1 DEF FilesInTurn, cache, dest, Active, Come
  <1> QED
    BY <1>5, <1>6, <1>7, <1>8, <1>9, <1>10 DEF FilesInv

LEMMA ReplacesInv ==
  ASSUME FilesInv, NEW r \in Refreshers, Replaces(r)
  PROVE  FilesInv'
  <1> DEFINE f == writing[r]
  <1>0. /\ FilesTypes /\ OffersAreNewest /\ hold[r] = "full" /\ kind # "file"
        /\ \A o \in Refreshers : KnowsSources(o) /\ WritesInOrder(o) /\ AloneWritesOwn(o)
    BY DEF FilesInv, Replaces
  <1>1. f \in Files /\ f # NoFile
    BY <1>0, Puts
  <1>2. /\ UNCHANGED <<kind, archive, offer, changes, mixed, failures>>
        /\ writing' = [writing EXCEPT ![r] = NoFile] /\ overlap' = overlap \ {r}
        /\ temp' = [temp EXCEPT ![f] = {}]
        /\ IF f = "provider" THEN RefreshEnds(r) ELSE UNCHANGED refreshVars
        /\ hold' = [o \in Refreshers |->
                      IF o = r THEN "closed" ELSE IF writing[o] = f THEN AfterRename[hold[o]] ELSE hold[o]]
    BY DEF Replaces, StopsWriting, worldVars
  <1>3. PICK text \in temp[f] : stored' = [stored EXCEPT ![f] = text]
    BY DEF Replaces
  <1>4. text \in [Urls -> Versions] /\ NoneAhead(text) /\ (r \notin overlap => text = Text(r))
    BY <1>0, <1>3, Puts
  <1>5. /\ refresh' \in [Refreshers -> {"idle", "urls", "fetch", "load", "write"}]
        /\ urls' \in [Refreshers -> SUBSET Urls] /\ todo' \in [Refreshers -> SUBSET Urls]
        /\ got' \in [Refreshers -> [Urls -> Versions]]
        /\ f = "provider" => refresh'[r] = "idle" /\ urls'[r] = {} /\ todo'[r] = {} /\ got'[r] = NoNodes
        /\ f # "provider" => UNCHANGED <<refresh, urls, todo, got>>
        /\ \A o \in Refreshers \ {r} : /\ urls'[o] = urls[o] /\ got'[o] = got[o]
                                       /\ refresh'[o] = refresh[o] /\ todo'[o] = todo[o]
    <2>1. CASE f = "provider"
      BY <1>0, <1>2, <2>1, EndsRefresh
    <2>2. CASE f # "provider"
      BY <1>0, <1>2, <2>2 DEF FilesTypes, refreshVars
    <2> QED
      BY <2>1, <2>2
  <1>6. /\ hold' \in [Refreshers -> {"closed", "temp", "file", "full"}]
        /\ \A o \in Refreshers \ {r} : /\ hold'[o] = "closed" <=> hold[o] = "closed"
                                       /\ writing[o] # f => hold'[o] = hold[o]
    <2>1. ASSUME NEW o \in Refreshers, writing[o] = f
          PROVE  hold[o] \in {"temp", "file", "full"} /\ AfterRename[hold[o]] \in {"file", "full"}
      <3>1. hold[o] \in {"temp", "file", "full"}
        BY <1>0, <1>1, <2>1 DEF WritesInOrder, FilesTypes
      <3> QED
        BY <3>1 DEF AfterRename
    <2> QED
      BY <1>0, <1>2, <2>1 DEF FilesTypes
  <1>7. /\ stored' \in [Files -> [Urls -> Versions]] /\ temp' \in [Files -> SUBSET [Urls -> Versions]]
        /\ \A g \in Files : NoneAhead(stored'[g]) /\ \A t \in temp'[g] : NoneAhead(t)
    BY <1>0, <1>1, <1>2, <1>3, <1>4 DEF FilesTypes, OffersAreNewest
  <1>8. FilesTypes'
    <2>1. writing' \in [Refreshers -> Files \cup {NoFile}] /\ overlap' \in SUBSET Refreshers
      BY <1>0, <1>2 DEF FilesTypes
    <2> QED
      BY <1>0, <1>2, <1>5, <1>6, <1>7, <2>1 DEF FilesTypes
  <1>9. OffersAreNewest'
    <2>1. \A o \in Refreshers : NoneAhead(got'[o])
      BY <1>0, <1>5, PassedOnIsNotAhead
    <2> QED
      BY <1>0, <1>2, <1>7, <2>1, StillNotAhead
  <1>10. ASSUME NEW o \in Refreshers PROVE KnowsSources(o)'
    <2>1. CASE f = "provider" /\ o = r
      BY <1>0, <1>2, <1>5, <2>1 DEF KnowsSources, Come, Sources, NoNodes
    <2>2. CASE f # "provider" \/ o # r
      BY <1>0, <1>2, <1>5, <2>2 DEF KnowsSources, Come
    <2> QED
      BY <2>1, <2>2
  <1>11. ASSUME NEW o \in Refreshers PROVE WritesInOrder(o)'
    <2>1. CASE o = r
      BY <1>0, <1>2, <2>1, FilesAssumption DEF WritesInOrder, FilesTypes, NoFile
    <2>2. CASE o # r
      <3>1. writing'[o] = writing[o]
        BY <1>0, <1>2, <2>2 DEF FilesTypes
      <3> QED
        BY <1>0, <1>5, <1>6, <2>2, <3>1 DEF WritesInOrder, Come
    <2> QED
      BY <2>1, <2>2
  <1>12. ASSUME NEW o \in Refreshers PROVE AloneWritesOwn(o)'
    <2>1. CASE o = r
      BY <1>0, <1>2, <2>1 DEF AloneWritesOwn, FilesTypes
    <2>2. CASE o # r
      <3>1. writing'[o] = writing[o]
        BY <1>0, <1>2, <2>2 DEF FilesTypes
      <3>2. writing[o] # NoFile /\ o \notin overlap' /\ kind # "file" =>
              /\ hold'[o] = hold[o] /\ temp'[writing[o]] = temp[writing[o]]
              /\ \A p \in Refreshers \ {o} : writing'[p] # writing[o]
        BY <1>0, <1>2, <1>6, <2>2 DEF AloneWritesOwn, FilesTypes
      <3> QED
        BY <1>0, <1>2, <1>5, <2>2, <3>1, <3>2, StaysAlone
    <2> QED
      BY <2>1, <2>2
  <1>13. kind' = "remote" /\ ~mixed' => FilesInTurn'
    <2> SUFFICES ASSUME kind = "remote", FilesInTurn PROVE FilesInTurn'
      BY <1>2 DEF FilesInv
    <2>1. Active = {r} /\ overlap' = {} /\ text = Text(r)
      BY <1>0, <1>1, <1>2, <1>4 DEF FilesInTurn, Active, WritesInOrder
    <2>2. /\ \A u \in Urls : (u = f \/ cache[u] >= got[r][u] \/ u \notin Come(r))
        /\ \A u \in Come(r) : got[r][u] >= dest[u]
      BY <2>1 DEF FilesInTurn
    <2>3. CASE f = "provider"
      <3>1. dest' = got[r] /\ cache' = cache
        BY <1>0, <1>1, <1>3, <2>1, <2>3, FilesAssumption DEF dest, cache, Text, FilesTypes, Files
      <3>2. Active' = {}
        BY <1>5, <2>1, <2>3 DEF Active
      <3>3. ASSUME NEW u \in Urls PROVE cache[u] >= got[r][u]
        <4>1. cache[u] \in Nat /\ got[r][u] \in Nat
          BY <1>0, ContentsAreNumbers
        <4>2. CASE u \in Come(r)
          BY <2>2, <2>3, <4>2, FilesAssumption
        <4>3. CASE u \notin Come(r)
          BY <1>0, <4>1, <4>3 DEF KnowsSources, Sources
        <4> QED
          BY <4>2, <4>3
      <3> QED
        BY <2>1, <3>1, <3>2, <3>3 DEF FilesInTurn
    <2>4. CASE f \in Urls
      <3>1. dest' = dest /\ cache' = [cache EXCEPT ![f] = got[r][f]]
        BY <1>0, <1>1, <1>3, <2>1, <2>4, FilesAssumption DEF dest, cache, Text, FilesTypes, Files
      <3>2. Active' = {r} /\ Come(r)' = Come(r) /\ got' = got /\ refresh'[r] = "fetch"
        BY <1>0, <1>5, <2>1, <2>4, FilesAssumption DEF Active, Come, WritesInOrder
      <3>3. f \in Come(r) /\ cache[f] \in Nat /\ got[r][f] \in Nat
        BY <1>0, <2>4, ContentsAreNumbers DEF WritesInOrder
      <3>4. \A u \in Urls : cache'[u] = IF u = f THEN got[r][f] ELSE cache[u]
        BY <3>1 DEF cache
      <3>5. \A u \in Urls : cache[u] >= dest[u]
        BY <1>0, <2>1, <2>4, FilesAssumption DEF FilesInTurn, Active, WritesInOrder
      <3>6. \A u \in Come(r) : cache'[u] >= got[r][u]
        <4>1. \A u \in Come(r) : u \in Urls /\ cache'[u] = IF u = f THEN got[r][f] ELSE cache[u]
          BY <1>0, <3>4 DEF Come, FilesTypes
        <4> QED
          BY <2>2, <3>3, <4>1
      <3>7. \A u \in Urls : cache'[u] >= dest[u]
        BY <2>2, <3>3, <3>4, <3>5
      <3> QED
        BY <2>1, <2>2, <3>1, <3>2, <3>6, <3>7 DEF FilesInTurn
    <2>5. CASE f = "manifest"
      <3>1. dest' = dest /\ cache' = cache
        BY <1>0, <1>3, <2>5, FilesAssumption DEF dest, cache, FilesTypes, Files
      <3>2. Active' = {r} /\ Come(r)' = Come(r) /\ got' = got /\ refresh' = refresh
        BY <1>5, <2>1, <2>5 DEF Active, Come
      <3>3. f \notin Urls /\ Come(r) \subseteq Urls
        BY <1>0, <2>5, FilesAssumption DEF Come, FilesTypes
      <3> QED
        BY <2>1, <2>2, <3>1, <3>2, <3>3 DEF FilesInTurn
    <2> QED
      BY <1>1, <2>3, <2>4, <2>5 DEF Files
  <1> QED
    BY <1>8, <1>9, <1>10, <1>11, <1>12, <1>13 DEF FilesInv

\* A refresher gives its file up and moves nothing.
LEMMA GivesUpFile ==
  ASSUME FilesInv, NEW r \in Refreshers, StopsWriting(r), hold' = [hold EXCEPT ![r] = "closed"],
         UNCHANGED kind,
         \A o \in Refreshers \ {r} : /\ urls'[o] = urls[o] /\ got'[o] = got[o]
                                     /\ refresh'[o] = refresh[o] /\ todo'[o] = todo[o],
         \A o \in Refreshers \ {r} : writing[o] # NoFile => temp'[writing[o]] = temp[writing[o]]
  PROVE  /\ writing' \in [Refreshers -> Files \cup {NoFile}] /\ overlap' \in SUBSET Refreshers
         /\ hold' \in [Refreshers -> {"closed", "temp", "file", "full"}]
         /\ \A o \in Refreshers : WritesInOrder(o)' /\ AloneWritesOwn(o)'
  <1>0. FilesTypes /\ \A o \in Refreshers : AloneWritesOwn(o) /\ WritesInOrder(o)
    BY DEF FilesInv
  <1>1. writing' = [writing EXCEPT ![r] = NoFile] /\ overlap' = overlap \ {r}
    BY DEF StopsWriting
  <1>2. /\ writing' \in [Refreshers -> Files \cup {NoFile}] /\ overlap' \in SUBSET Refreshers
        /\ hold' \in [Refreshers -> {"closed", "temp", "file", "full"}]
    BY <1>0, <1>1 DEF FilesTypes
  <1>3. WritesInOrder(r)' /\ AloneWritesOwn(r)'
    BY <1>0, <1>1, FilesAssumption DEF WritesInOrder, AloneWritesOwn, FilesTypes, NoFile
  <1>4. ASSUME NEW o \in Refreshers \ {r} PROVE WritesInOrder(o)' /\ AloneWritesOwn(o)'
    <2>1. writing'[o] = writing[o] /\ hold'[o] = hold[o]
      BY <1>0, <1>1 DEF FilesTypes
    <2>2. WritesInOrder(o)'
      BY <1>0, <2>1 DEF WritesInOrder, Come
    <2>3. writing[o] # NoFile /\ o \notin overlap' /\ kind # "file" =>
            \A p \in Refreshers \ {o} : writing'[p] # writing[o]
      BY <1>0, <1>1 DEF AloneWritesOwn, FilesTypes
    <2> QED
      BY <1>0, <1>1, <2>1, <2>2, <2>3, StaysAlone
  <1> QED
    BY <1>2, <1>3, <1>4

LEMMA ReplaceFailsInv ==
  ASSUME FilesInv, NEW r \in Refreshers, ReplaceFails(r)
  PROVE  FilesInv'
  <1> DEFINE f == writing[r]
  <1>0. /\ FilesTypes /\ OffersAreNewest /\ hold[r] = "full" /\ kind # "file" /\ temp[f] = {}
        /\ \A o \in Refreshers : KnowsSources(o) /\ WritesInOrder(o)
    BY DEF FilesInv, ReplaceFails
  <1>1. UNCHANGED <<kind, archive, offer, changes, stored, temp, mixed, failures>>
    BY DEF ReplaceFails, worldVars, diskVars
  <1>2. r \in overlap
    BY <1>0, Puts
  <1>3. f \in Urls => /\ got' = [got EXCEPT ![r][f] = cache[f]] /\ UNCHANGED <<refresh, urls, todo>>
                     /\ refresh[r] = "fetch" /\ f \in Come(r)
    BY <1>0, FilesAssumption DEF ReplaceFails, WritesInOrder
  <1>4. /\ refresh' \in [Refreshers -> {"idle", "urls", "fetch", "load", "write"}]
        /\ urls' \in [Refreshers -> SUBSET Urls] /\ todo' \in [Refreshers -> SUBSET Urls]
        /\ got' \in [Refreshers -> [Urls -> Versions]]
        /\ f \notin Urls => refresh'[r] = "idle" /\ urls'[r] = {} /\ todo'[r] = {} /\ got'[r] = NoNodes
        /\ \A o \in Refreshers \ {r} : /\ urls'[o] = urls[o] /\ got'[o] = got[o]
                                       /\ refresh'[o] = refresh[o] /\ todo'[o] = todo[o]
    <2>1. CASE f \in Urls
      <3>1. cache[f] \in Versions
        BY <1>0, <2>1 DEF FilesTypes, cache, Files
      <3>2. got' \in [Refreshers -> [Urls -> Versions]] /\ \A o \in Refreshers \ {r} : got'[o] = got[o]
        <4>1. got \in [Refreshers -> [Urls -> Versions]]
          BY <1>0 DEF FilesTypes
        <4>2. \A u \in Urls, v \in Versions : [got EXCEPT ![r][u] = v] \in [Refreshers -> [Urls -> Versions]]
          BY <4>1
        <4> QED
          BY <1>3, <2>1, <3>1, <4>1, <4>2
      <3> QED
        BY <1>0, <1>3, <2>1, <3>2 DEF FilesTypes
    <2>2. CASE f \notin Urls
      BY <1>0, <2>2, EndsRefresh DEF ReplaceFails
    <2> QED
      BY <2>1, <2>2
  <1>5. /\ writing' \in [Refreshers -> Files \cup {NoFile}] /\ overlap' \in SUBSET Refreshers
        /\ hold' \in [Refreshers -> {"closed", "temp", "file", "full"}]
        /\ \A o \in Refreshers : WritesInOrder(o)' /\ AloneWritesOwn(o)'
    BY <1>1, <1>4, GivesUpFile DEF ReplaceFails
  <1>6. FilesTypes'
    BY <1>0, <1>1, <1>4, <1>5 DEF FilesTypes
  <1>7. OffersAreNewest'
    <2>1. NoneAhead(got'[r])
      <3>1. CASE f \in Urls
        <4>1. \A u \in Urls : got'[r][u] = IF u = f THEN cache[u] ELSE got[r][u]
          BY <1>0, <1>3, <3>1 DEF FilesTypes
        <4> QED
          BY <1>0, <4>1, PassedOnIsNotAhead DEF NoneAhead
      <3>2. CASE f \notin Urls
        BY <1>0, <1>4, <3>2, PassedOnIsNotAhead
      <3> QED
        BY <3>1, <3>2
    <2> QED
      BY <1>0, <1>1, <1>4, <2>1, StillNotAhead DEF OffersAreNewest
  <1>8. ASSUME NEW o \in Refreshers PROVE KnowsSources(o)'
    <2>1. CASE o # r
      BY <1>0, <1>1, <1>4, <2>1 DEF KnowsSources, Come
    <2>2. CASE o = r /\ f \in Urls
      <3>1. Sources(got'[r]) \subseteq Sources(got[r]) \cup {f}
        BY <1>0, <1>3, <2>2 DEF FilesTypes, Sources
      <3> QED
        BY <1>0, <1>1, <1>3, <2>2, <3>1 DEF KnowsSources, Come
    <2>3. CASE o = r /\ f \notin Urls
      BY <1>1, <1>4, <2>3 DEF KnowsSources, Come, Sources, NoNodes
    <2> QED
      BY <2>1, <2>2, <2>3
  <1>9. ~FilesInTurn
    BY <1>2 DEF FilesInTurn
  <1> QED
    BY <1>1, <1>5, <1>6, <1>7, <1>8, <1>9 DEF FilesInv

\* A refresh ends, wherever it was, and leaves the files alone.
LEMMA QuietEndInv ==
  ASSUME FilesInv, NEW r \in Refreshers, RefreshEnds(r), StopsWriting(r),
         hold' = [hold EXCEPT ![r] = "closed"],
         UNCHANGED <<worldVars, stored>>, failures' \in 0 .. MaxFailures, mixed' \in BOOLEAN,
         kind = "remote" => mixed',
         temp' = [f \in Files |-> IF \E o \in Refreshers \ {r} : writing[o] = f THEN temp[f] ELSE {}]
           \/ UNCHANGED temp
  PROVE  FilesInv'
  <1>0. /\ FilesTypes /\ OffersAreNewest /\ \A o \in Refreshers : KnowsSources(o)
    BY DEF FilesInv
  <1>1. /\ UNCHANGED <<kind, archive, offer, changes, stored>>
        /\ temp' \in [Files -> SUBSET [Urls -> Versions]] /\ \A f \in Files : temp'[f] \subseteq temp[f]
        /\ \A o \in Refreshers \ {r} : writing[o] # NoFile => temp'[writing[o]] = temp[writing[o]]
    BY <1>0 DEF worldVars, FilesTypes
  <1>2. /\ writing' \in [Refreshers -> Files \cup {NoFile}] /\ overlap' \in SUBSET Refreshers
        /\ hold' \in [Refreshers -> {"closed", "temp", "file", "full"}]
        /\ \A o \in Refreshers : WritesInOrder(o)' /\ AloneWritesOwn(o)'
    BY <1>0, <1>1, EndsRefresh, GivesUpFile
  <1>3. FilesTypes'
    BY <1>0, <1>1, <1>2, EndsRefresh DEF FilesTypes
  <1>4. OffersAreNewest'
    <2>1. \A o \in Refreshers : NoneAhead(got'[o])
      BY <1>0, EndsRefresh, PassedOnIsNotAhead
    <2> QED
      BY <1>0, <1>1, <2>1, StillNotAhead DEF OffersAreNewest
  <1>5. ASSUME NEW o \in Refreshers PROVE KnowsSources(o)'
    <2>1. CASE o # r
      BY <1>0, <1>1, <2>1, EndsRefresh DEF KnowsSources, Come
    <2>2. CASE o = r
      BY <1>0, <1>1, <2>2, EndsRefresh DEF KnowsSources, Come, Sources, NoNodes
    <2> QED
      BY <2>1, <2>2
  <1> QED
    BY <1>1, <1>2, <1>3, <1>4, <1>5 DEF FilesInv

LEMMA CopiedInv ==
  ASSUME FilesInv, NEW r \in Refreshers, Copied(r)
  PROVE  FilesInv'
  BY QuietEndInv DEF Copied, diskVars, FilesInv, FilesTypes

LEMMA KilledRefresherInv ==
  ASSUME FilesInv, NEW r \in Refreshers, RefresherKilled(r)
  PROVE  FilesInv'
  <1>1. failures' \in 0 .. MaxFailures
    BY FilesBoundsAssumption DEF FilesInv, FilesTypes, RefresherKilled, Fails
  <1> QED
    BY <1>1, QuietEndInv DEF RefresherKilled

\* What the provider and the user of Shadowrocket do.
LEMMA WorldInv ==
  ASSUME FilesInv, (\E u \in Urls : OfferChanges(u)) \/ ArchiveChanges
  PROVE  FilesInv'
  <1>0. /\ FilesTypes /\ OffersAreNewest
        /\ \A o \in Refreshers : KnowsSources(o) /\ WritesInOrder(o) /\ AloneWritesOwn(o)
    BY DEF FilesInv
  <1>1. /\ UNCHANGED <<kind, diskVars, refreshVars, writeVars, mixed, failures>>
        /\ changes < MaxChanges /\ changes' = changes + 1
    BY DEF OfferChanges, ArchiveChanges
  <1>2. changes \in Nat /\ changes' \in Nat /\ changes' \in 0 .. MaxChanges
    BY <1>0, <1>1, FilesBoundsAssumption DEF FilesTypes
  <1>3. archive' \in SUBSET Urls
    BY <1>0, FilesBoundsAssumption DEF FilesTypes, OfferChanges, ArchiveChanges
  <1>4. offer' = offer \/ \E u \in Urls, v \in {0, changes + 2} : offer' = [offer EXCEPT ![u] = v]
    BY DEF OfferChanges, ArchiveChanges
  <1>5. offer' \in [Urls -> Versions]
    <2>1. 0 \in Versions /\ changes + 2 \in Versions
      BY <1>1, <1>2, FilesBoundsAssumption DEF Versions
    <2>2. offer \in [Urls -> Versions]
      BY <1>0 DEF FilesTypes
    <2>3. ASSUME NEW u \in Urls, NEW v \in {0, changes + 2}
          PROVE  [offer EXCEPT ![u] = v] \in [Urls -> Versions]
      BY <2>1, <2>2
    <2> QED
      BY <1>4, <2>2, <2>3
  <1>6. FilesTypes'
    BY <1>0, <1>1, <1>2, <1>3, <1>5 DEF FilesTypes, diskVars, refreshVars, writeVars
  <1>7. OffersAreNewest'
    <2>1. \A u \in Urls : offer'[u] \in {offer[u], 0, changes + 2} /\ offer[u] \in Nat
      BY <1>0, <1>4, ContentsAreNumbers DEF FilesTypes
    <2>2. ASSUME NEW u \in Urls, NEW v \in Versions, NotAhead(u, v) PROVE NotAhead(u, v)'
      <3>1. v \in Nat
        BY VersionsAreNumbers
      <3> QED
        BY <1>1, <1>2, <2>1, <2>2, <3>1 DEF NotAhead
    <2>3. \A content \in [Urls -> Versions] : NoneAhead(content) => NoneAhead(content)'
      BY <2>2 DEF NoneAhead
    <2>4. \A u \in Urls : offer'[u] <= changes' + 1
      BY <1>0, <1>1, <1>2, <2>1 DEF OffersAreNewest
    <2> QED
      BY <1>0, <1>1, <2>3, <2>4 DEF OffersAreNewest, FilesTypes, diskVars, refreshVars
  <1>8. \A o \in Refreshers : KnowsSources(o)' /\ WritesInOrder(o)' /\ AloneWritesOwn(o)'
    BY <1>0, <1>1 DEF KnowsSources, WritesInOrder, AloneWritesOwn, Come, Text, diskVars, refreshVars, writeVars
  <1>9. FilesInTurn => FilesInTurn'
    BY <1>1 DEF FilesInTurn, Active, Come, cache, dest, diskVars, refreshVars, writeVars
  <1> QED
    BY <1>1, <1>6, <1>7, <1>8, <1>9 DEF FilesInv

\* Every step keeps the invariant of the provider files.
LEMMA NextFilesInv == FilesInv /\ [FilesNext]_filesVars => FilesInv'
  <1> SUFFICES ASSUME FilesInv, [FilesNext]_filesVars PROVE FilesInv'
    OBVIOUS
  <1>1. CASE UNCHANGED filesVars
    <2>1. UNCHANGED <<kind, archive, offer, changes, stored, temp, refresh, urls, todo, got,
                      writing, hold, overlap, mixed, failures>>
      BY <1>1 DEF filesVars, worldVars, diskVars, refreshVars, writeVars
    <2>2. FilesTypes' /\ OffersAreNewest' /\ (FilesInTurn => FilesInTurn')
      BY <2>1 DEF FilesInv, FilesTypes, OffersAreNewest, NoneAhead, NotAhead,
                  FilesInTurn, Active, Come, cache, dest
    <2>3. \A r \in Refreshers : KnowsSources(r)' /\ WritesInOrder(r)' /\ AloneWritesOwn(r)'
      BY <2>1 DEF FilesInv, KnowsSources, WritesInOrder, AloneWritesOwn, Come, Text
    <2> QED
      BY <2>1, <2>2, <2>3 DEF FilesInv
  <1>2. ASSUME NEW r \in Refreshers, RefreshBegins(r) \/ RefresherMoves(r) \/ RefresherKilled(r)
        PROVE  FilesInv'
    BY <1>2, RefreshBeginsInv, TakesUrlsInv, FetchesInv, MergesInv, LoadsInv, WritesInv, FillsInv,
       ReplacesInv, ReplaceFailsInv, CopiedInv, KilledRefresherInv DEF RefresherMoves
  <1>3. CASE (\E u \in Urls : OfferChanges(u)) \/ ArchiveChanges
    BY <1>3, WorldInv
  <1> QED
    BY <1>1, <1>2, <1>3 DEF FilesNext

\* FilesInv is an invariant of the provider files: who has what of each source,
\* and in what order it reaches the caches and the provider file.
THEOREM FilesInvHolds == FilesSpec => []FilesInv
  BY InitFilesInv, NextFilesInv, PTL DEF FilesSpec

\* Only these steps write the provider file.
LEMMA OnlyWrites ==
  ASSUME FilesInv, [FilesNext]_filesVars, dest' # dest
  PROVE  \/ \E r \in Refreshers : /\ writing[r] = "provider"
                                 /\ \/ Fills(r) /\ hold[r] = "file"
                                    \/ Replaces(r)
         \/ kind = "file"
  <1> USE DEF dest
  <1>0. FilesTypes
    BY DEF FilesInv
  <1>1. CASE UNCHANGED filesVars
    BY <1>1 DEF filesVars, diskVars
  <1>2. ASSUME NEW r \in Refreshers, RefreshBegins(r) \/ RefresherMoves(r) \/ RefresherKilled(r)
        PROVE  (writing[r] = "provider" /\ ((Fills(r) /\ hold[r] = "file") \/ Replaces(r))) \/ kind = "file"
    <2>1. CASE RefreshBegins(r) \/ Loads(r) \/ TakesUrls(r) \/ (\E u \in Urls : Fetches(r, u)) \/ ReplaceFails(r)
               \/ Copied(r) \/ RefresherKilled(r)
      BY <2>1 DEF RefreshBegins, Loads, TakesUrls, Fetches, Downloads, NoDownload, ReplaceFails, Copied,
                  RefresherKilled, Opens, diskVars
    <2>2. CASE Merges(r)
      BY <1>0, <2>2, FilesAssumption DEF Merges, Removes, Prunes, FilesTypes, Files
    <2>3. CASE Writes(r)
      BY <2>3 DEF Writes, Opens
    <2>4. CASE Fills(r)
      <3>1. writing[r] \in Files
        BY <2>4, Puts DEF Fills
      <3>2. hold[r] = "file" /\ stored' # stored
        BY <2>4 DEF Fills
      <3>3. writing[r] # "provider" => dest' = dest
        BY <1>0, <2>4, <3>1 DEF Fills, FilesTypes
      <3> QED
        BY <2>4, <3>2, <3>3
    <2>5. CASE Replaces(r)
      <3>1. writing[r] \in Files
        BY <2>5, Puts DEF Replaces
      <3>2. writing[r] # "provider" => dest' = dest
        BY <1>0, <2>5, <3>1 DEF Replaces, FilesTypes
      <3> QED
        BY <2>5, <3>2
    <2> QED
      BY <1>2, <2>1, <2>2, <2>3, <2>4, <2>5 DEF RefresherMoves
  <1>3. CASE (\E u \in Urls : OfferChanges(u)) \/ ArchiveChanges
    BY <1>3 DEF OfferChanges, ArchiveChanges, diskVars
  <1> QED
    BY <1>1, <1>2, <1>3 DEF FilesNext

\* What a step can put into the provider file that is written by one alone.
LEMMA AloneReplaces ==
  ASSUME FilesInv, NEW r \in Refreshers, writing[r] = "provider", kind # "file", r \notin overlap,
         (Fills(r) /\ hold[r] = "file") \/ Replaces(r)
  PROVE  refresh[r] = "write" /\ dest' = got[r]
  <1>0. FilesTypes /\ WritesInOrder(r)
    BY DEF FilesInv
  <1>1. Replaces(r) /\ temp["provider"] = {Text(r)}
    BY Puts DEF Fills, Replaces
  <1>2. dest' = Text(r)
    BY <1>0, <1>1 DEF Replaces, dest, FilesTypes, Files
  <1>3. Text(r) = got[r]
    BY <1>0, FilesAssumption DEF Text, FilesTypes
  <1> QED
    BY <1>0, <1>2, <1>3, FilesAssumption DEF WritesInOrder, NoFile

\* NeverEmptied: no refresh leaves a provider without nodes that had some,
\* unless two are writing that file through their common temporary one.
THEOREM NeverEmptiedHolds == FilesSpec => NeverEmptied
  <1>1. ASSUME FilesInv, [FilesNext]_filesVars, dest # NoNodes, kind \in KeepsNodes, dest' = NoNodes
        PROVE  \E r \in overlap : writing[r] = "provider"
    <2>1. PICK r \in Refreshers : writing[r] = "provider" /\ ((Fills(r) /\ hold[r] = "file") \/ Replaces(r))
      BY <1>1, OnlyWrites DEF KeepsNodes
    <2>2. ASSUME r \notin overlap PROVE FALSE
      <3>1. refresh[r] = "write" /\ dest' = got[r]
        BY <1>1, <2>1, <2>2, AloneReplaces DEF KeepsNodes
      <3> QED
        BY <1>1, <3>1 DEF FilesInv, KnowsSources
    <2> QED
      BY <2>1, <2>2
  <1>2. FilesInv /\ [FilesNext]_filesVars =>
          [dest # NoNodes /\ kind \in KeepsNodes => dest' # NoNodes \/ \E r \in overlap : writing[r] = "provider"]_filesVars
    BY <1>1
  <1> QED
    BY FilesInvHolds, <1>2, PTL DEF FilesSpec, NeverEmptied

\* MergesEachSource: refreshers that take turns lose no source, bring back
\* nothing older, and keep nothing they do not refresh.
THEOREM MergesEachSourceHolds == FilesSpec => MergesEachSource
  <1>1. ASSUME FilesInv, [FilesNext]_filesVars, kind = "remote", ~mixed, dest' # dest,
               NEW r \in Refreshers, refresh[r] = "write"
        PROVE  Sources(dest') \subseteq urls[r] /\ \A u \in urls[r] : dest'[u] >= dest[u]
    <2>1. PICK p \in Refreshers : writing[p] = "provider" /\ ((Fills(p) /\ hold[p] = "file") \/ Replaces(p))
      BY <1>1, OnlyWrites
    <2>2. FilesInTurn /\ KnowsSources(r)
      BY <1>1 DEF FilesInv
    <2>3. refresh[p] = "write" /\ dest' = got[p]
      BY <1>1, <2>1, <2>2, AloneReplaces DEF FilesInTurn
    <2>4. p = r
      BY <1>1, <2>2, <2>3 DEF FilesInTurn, Active
    <2>5. Come(r) = urls[r] /\ r \in Active
      BY <1>1, <2>2 DEF KnowsSources, Come, Active
    <2> QED
      BY <1>1, <2>2, <2>3, <2>4, <2>5 DEF KnowsSources, FilesInTurn
  <1>2. FilesInv /\ [FilesNext]_filesVars =>
          [kind = "remote" /\ ~mixed /\ dest' # dest =>
             \A r \in Refreshers : refresh[r] = "write" =>
               /\ Sources(dest') \subseteq urls[r]
               /\ \A u \in urls[r] : dest'[u] >= dest[u]]_filesVars
    BY <1>1
  <1> QED
    BY FilesInvHolds, <1>2, PTL DEF FilesSpec, MergesEachSource

\* CacheBacksFile: each source in the provider file has its cache to fall back to.
THEOREM CacheBacksFileHolds == FilesSpec => []CacheBacksFile
  <1>1. FilesInv => CacheBacksFile
    BY DEF FilesInv, FilesInTurn, CacheBacksFile
  <1> QED
    BY FilesInvHolds, <1>1, PTL

-----------------------------------------------------------------------------
(***************************************************************************)
(* The service.                                                            *)
(***************************************************************************)
USE DaemonsAssumption, ServiceBoundsAssumption

CallSteps == {"idle", "evict", "enable", "bootstrap", "print", "compare", "undo", "unload",
              "disable", "bootout", "find", "check", "look", "look-check", "signal", "waiting", "stop"}

CallTypes  == call \in [Callers -> CallSteps] /\ seen \in [Callers -> Pids]
DaemonTypes ==
  /\ daemon \in [Daemons -> Holding \cup {"off", "born"}]
  /\ stopping \in [Daemons -> BOOLEAN]
  /\ lock \in Daemons \cup {Unlocked}
  /\ pidFile \in Pids
OtherTypes ==
  /\ enabled \in BOOLEAN /\ loaded \in BOOLEAN
  /\ gateway \in {"up", "down", "halted"} /\ mishaps \in 0 .. MaxMishaps

Holds    == \A d \in Daemons : daemon[d] \in Holding <=> lock = d
Named    == \A d \in Daemons : pidFile = d /\ Alive(d) => daemon[d] \in Holding \ {"locked", "closing"}
Compared == \A c \in Callers : call[c] = "compare" => seen[c] \in {Job, Gone, NoPid}

\* What concerns the daemons, and what concerns the callers.
DaemonInv == DaemonTypes /\ Holds /\ Named
CallInv   == CallTypes /\ Compared

LEMMA InvParts == ServiceInv <=> DaemonInv /\ CallInv /\ OtherTypes
  BY DEF ServiceInv, ServiceTypes, DaemonInv, CallInv, CallTypes, CallSteps, DaemonTypes, OtherTypes,
         Holds, Named, Compared

LEMMA InitParts == ServiceInit => DaemonInv /\ CallInv /\ OtherTypes
  <1> SUFFICES ASSUME ServiceInit PROVE DaemonInv /\ CallInv /\ OtherTypes
    OBVIOUS
  <1>1. DaemonInv
    BY DEF ServiceInit, DaemonInv, DaemonTypes, Holds, Named, Holding, Looping, Pids, Alive
  <1>2. CallInv
    BY DEF ServiceInit, CallInv, CallTypes, CallSteps, Compared, Pids
  <1>3. OtherTypes
    <2>1. mishaps \in 0 .. MaxMishaps
      BY ServiceBoundsAssumption DEF ServiceInit
    <2> QED
      BY <2>1 DEF ServiceInit, OtherTypes
  <1> QED
    BY <1>1, <1>2, <1>3

-----------------------------------------------------------------------------
\* The end of a process, whichever it is, takes nothing from the others.
LEMMA EndsInv ==
  ASSUME DaemonInv, NEW d \in Daemons, Ends(d), pidFile' \in {pidFile, NoPid}
  PROVE  DaemonInv'
  <1> USE DEF DaemonInv, DaemonTypes, Ends
  <1>1. DaemonTypes'
    BY DEF Pids
  <1>2. Holds'
    BY DEF Holds, Holding, Looping
  <1>3. Named'
    BY DEF Named, Alive
  <1> QED
    BY <1>1, <1>2, <1>3

\* A process that begins is named by nothing.
LEMMA SpawnedInv ==
  ASSUME DaemonInv, CallInv, NEW d \in Daemons, Spawned(d), UNCHANGED <<stopping, lock, call>>
  PROVE  DaemonInv' /\ CallInv'
  <1> USE DEF DaemonInv, DaemonTypes, CallInv, CallTypes, Spawned, Moves
  <1>1. DaemonTypes'
    BY DEF Pids
  <1>2. Holds'
    BY DEF Holds, Holding, Looping, Alive
  <1>3. Named'
    BY DEF Named, Alive
  <1>4. CallTypes'
    BY DEF Pids
  <1>5. Compared'
    BY DEF Compared
  <1> QED
    BY <1>1, <1>2, <1>3, <1>4, <1>5

\* The steps of a daemon that is there.
LEMMA DaemonMovesInv ==
  ASSUME DaemonInv, NEW d \in Daemons, DaemonMoves(d)
  PROVE  DaemonInv'
  <1> USE DEF DaemonInv, Moves
  <1>1. CASE TakesLock(d)
    <2>1. CASE lock = Unlocked
      <3>1. DaemonTypes'
        BY <1>1, <2>1 DEF TakesLock, DaemonTypes, Holding
      <3>2. Holds' /\ Named'
        BY <1>1, <2>1 DEF TakesLock, DaemonTypes, Holds, Named, Holding, Looping, Alive
      <3> QED
        BY <3>1, <3>2
    <2>2. CASE lock # Unlocked
      BY <1>1, <2>2, EndsInv DEF TakesLock
    <2> QED
      BY <2>1, <2>2
  <1>2. CASE WritesPid(d)
    <2>1. DaemonTypes'
      BY <1>2 DEF WritesPid, DaemonTypes, Holding, Pids
    <2>2. Holds' /\ Named'
      BY <1>2 DEF WritesPid, DaemonTypes, Holds, Named, Holding, Looping, Alive
    <2> QED
      BY <2>1, <2>2
  <1>3. CASE InstallsHandlers(d) \/ StartsGateway(d) \/ CycleEnds(d) \/ WaitEnds(d)
    <2>1. /\ UNCHANGED <<stopping, lock, pidFile>>
          /\ daemon[d] \in Looping \cup {"named"}
          /\ \E s \in Looping \cup {"ending"} : daemon' = [daemon EXCEPT ![d] = s]
      BY <1>3 DEF InstallsHandlers, StartsGateway, CycleEnds, WaitEnds, Looping
    <2>2. DaemonTypes'
      BY <2>1 DEF DaemonTypes, Holding
    <2>3. Holds' /\ Named'
      BY <2>1 DEF DaemonTypes, Holds, Named, Holding, Looping, Alive
    <2> QED
      BY <2>2, <2>3
  <1>4. CASE WayOut(d) /\ daemon[d] = "ending"
    <2>1. DaemonTypes'
      BY <1>4 DEF WayOut, DaemonTypes, Holding, Pids
    <2>2. Holds' /\ Named'
      BY <1>4 DEF WayOut, DaemonTypes, Holds, Named, Holding, Looping, Alive, Pids
    <2> QED
      BY <2>1, <2>2
  <1>5. CASE WayOut(d) /\ daemon[d] = "closing"
    BY <1>5, EndsInv DEF WayOut
  <1> QED
    BY <1>1, <1>2, <1>3, <1>4, <1>5 DEF DaemonMoves, WayOut

\* SIGTERM.
LEMMA TerminatesInv ==
  ASSUME DaemonInv, NEW d \in Daemons, Terminates(d) \/ UNCHANGED daemonVars, UNCHANGED pidFile
  PROVE  DaemonInv'
  <1>1. CASE UNCHANGED daemonVars
    BY <1>1 DEF daemonVars, DaemonInv, DaemonTypes, Holds, Named, Alive
  <1>2. CASE Terminates(d) /\ daemon[d] \in Looping
    BY <1>2 DEF Terminates, DaemonInv, DaemonTypes, Holds, Named, Alive
  <1>3. CASE Terminates(d) /\ daemon[d] \notin Looping /\ Alive(d)
    BY <1>3, EndsInv DEF Terminates
  <1> QED
    BY <1>1, <1>2, <1>3 DEF Terminates

-----------------------------------------------------------------------------
\* A call goes to its next step with a pid that may stand there.
LEMMA KnowsInv ==
  ASSUME CallInv, NEW c \in Callers, NEW step \in CallSteps, NEW p \in Pids, Knows(c, step, p),
         step = "compare" => p \in {Job, Gone, NoPid}
  PROVE  CallInv'
  <1>1. CallTypes'
    BY DEF CallInv, CallTypes, Knows
  <1>2. Compared'
    BY DEF CallInv, CallTypes, Compared, Knows
  <1> QED
    BY <1>1, <1>2 DEF CallInv

LEMMA CallsInv ==
  ASSUME CallInv, NEW c \in Callers, NEW step \in CallSteps, Calls(c, step), step # "compare"
  PROVE  CallInv'
  <1>1. CASE step = "signal"
    BY <1>1, KnowsInv DEF Calls, CallInv, CallTypes
  <1>2. CASE step # "signal"
    BY <1>2, KnowsInv DEF Calls, Pids
  <1> QED
    BY <1>1, <1>2

\* What the daemons' part of a call does.
LEMMA CallStepsDaemon ==
  ASSUME DaemonInv, NEW c \in Callers, CallBegins(c) \/ CallMoves(c)
  PROVE  DaemonInv'
  <1>1. CASE UNCHANGED <<daemonVars, pidFile>>
    BY <1>1 DEF daemonVars, DaemonInv, DaemonTypes, Holds, Named, Alive
  <1>2. CASE Evicts(c) \/ BootsOut(c)
    <2>1. UNCHANGED pidFile /\ (Unloads \/ UNCHANGED daemonVars)
      BY <1>2 DEF Evicts, BootsOut, BootsOutAndGoes
    <2> QED
      BY <2>1, TerminatesInv DEF Unloads, Daemons
  <1>3. CASE Signals(c)
    <2>1. CASE seen[c] \in Daemons /\ Alive(seen[c])
      BY <1>3, <2>1, TerminatesInv DEF Signals
    <2>2. CASE ~(seen[c] \in Daemons /\ Alive(seen[c]))
      BY <1>3, <2>2, <1>1 DEF Signals
    <2> QED
      BY <2>1, <2>2
  <1>4. CASE Checks(c) /\ UNCHANGED daemonVars /\ pidFile' = NoPid
    BY <1>4 DEF daemonVars, DaemonInv, DaemonTypes, Holds, Named, Alive, Pids
  <1> QED
    BY <1>1, <1>2, <1>3, <1>4 DEF CallBegins, CallMoves, InstallBegins, StopBegins, StatusBegins,
       Enables, Bootstraps, Prints, Compares, Disables, Finds, Checks, StopReturns, StopsGateway

\* What the call's own part does: every step goes to one that is there, and only
\* a look at launchd leads to the comparison.
LEMMA CallStepsCall ==
  ASSUME CallInv, NEW c \in Callers, CallBegins(c) \/ CallMoves(c), DaemonTypes
  PROVE  CallInv'
  <1>0. CASE GivesUp(c)
    BY <1>0, CallsInv DEF GivesUp, CallSteps
  <1>1. CASE Prints(c)
    <2>1. JobPid \in {Job, NoPid} /\ JobPid \in Pids /\ NoPid \in Pids
      BY DEF JobPid, Pids, Daemons
    <2>2. GivesUp(c) \/ \E p \in {JobPid, NoPid} : Knows(c, "compare", p)
      BY <1>1 DEF Prints
    <2> QED
      BY <1>0, <2>1, <2>2, KnowsInv DEF CallSteps
  <1>2. CASE Finds(c)
    <2>1. CASE pidFile = NoPid
      BY <1>2, <2>1, CallsInv DEF Finds, NotFound, CallSteps
    <2>2. CASE pidFile # NoPid
      <3>1. PICK step \in {"check", "look-check"} : Knows(c, step, pidFile)
        BY <1>2, <2>2 DEF Finds
      <3> QED
        BY <3>1, KnowsInv DEF CallSteps, DaemonTypes
    <2> QED
      BY <2>1, <2>2
  <1>3. CASE Compares(c)
    BY <1>3, CallsInv DEF Compares, CallSteps
  <1>4. CASE Checks(c) \/ Signals(c)
    BY <1>4, CallsInv DEF Checks, Signals, NotFound, CallSteps
  <1>5. CASE CallBegins(c)
    BY <1>5, CallsInv DEF CallBegins, InstallBegins, StopBegins, StatusBegins, CallSteps
  <1>6. CASE Evicts(c) \/ Enables(c) \/ Bootstraps(c) \/ Disables(c) \/ BootsOut(c)
             \/ StopReturns(c) \/ StopsGateway(c)
    <2>1. GivesUp(c) \/ \E step \in CallSteps \ {"compare"} : Calls(c, step)
      BY <1>6 DEF Evicts, Enables, Bootstraps, Disables, BootsOut, BootsOutAndGoes, StopReturns,
         StopsGateway, CallSteps
    <2> QED
      BY <1>0, <2>1, CallsInv
  <1> QED
    BY <1>1, <1>2, <1>3, <1>4, <1>5, <1>6 DEF CallMoves

LEMMA NextOtherTypes ==
  ASSUME OtherTypes, ServiceNext
  PROVE  OtherTypes'
  <1> USE DEF OtherTypes, launchdVars
  <1>1. CASE UserStarts \/ LaunchdStarts \/ LaunchdKills
    BY <1>1 DEF UserStarts, LaunchdStarts, LaunchdKills, SomethingStarts
  <1>2. ASSUME NEW d \in Daemons, DaemonMoves(d) PROVE OtherTypes'
    BY <1>2 DEF DaemonMoves, TakesLock, WritesPid, InstallsHandlers, StartsGateway, CycleEnds,
       WaitEnds, WayOut
  <1>3. ASSUME NEW d \in Daemons, Killed(d) PROVE OtherTypes'
    <2>1. mishaps' \in 0 .. MaxMishaps
      BY <1>3, ServiceBoundsAssumption DEF Killed
    <2> QED
      BY <1>3, <2>1 DEF Killed
  <1>4. ASSUME NEW c \in Callers, CallBegins(c) PROVE OtherTypes'
    BY <1>4 DEF CallBegins, InstallBegins, StopBegins, StatusBegins, SomethingStarts
  <1>5. ASSUME NEW c \in Callers, CallMoves(c) PROVE OtherTypes'
    <2>1. UNCHANGED mishaps \/ Mishap
      BY <1>5 DEF CallMoves, Evicts, Enables, Bootstraps, Prints, Compares, Disables, BootsOut,
         BootsOutAndGoes, Finds, Checks, Signals, StopReturns, StopsGateway
    <2>2. mishaps' \in 0 .. MaxMishaps
      BY <2>1, ServiceBoundsAssumption DEF Mishap
    <2>3. enabled' \in BOOLEAN /\ loaded' \in BOOLEAN
      BY <1>5 DEF CallMoves, Evicts, Unloads, Enables, Bootstraps, Prints, Compares, Disables,
         BootsOut, BootsOutAndGoes, Finds, Checks, Signals, StopReturns, StopsGateway
    <2>4. gateway' \in {"up", "down", "halted"}
      BY <1>5 DEF CallMoves, Evicts, Enables, Bootstraps, Prints, Compares, Disables, BootsOut,
         Finds, Checks, Signals, StopReturns, StopsGateway
    <2> QED
      BY <2>2, <2>3, <2>4
  <1> QED
    BY <1>1, <1>2, <1>3, <1>4, <1>5 DEF ServiceNext

LEMMA DaemonStepsCall ==
  ASSUME UNCHANGED callVars, CallInv
  PROVE  CallInv'
  BY DEF callVars, CallInv, CallTypes, Compared

LEMMA NextParts ==
  ASSUME DaemonInv, CallInv, OtherTypes, [ServiceNext]_serviceVars
  PROVE  DaemonInv' /\ CallInv' /\ OtherTypes'
  <1>1. CASE UNCHANGED serviceVars
    <2>1. DaemonInv'
      BY <1>1 DEF serviceVars, daemonVars, DaemonInv, DaemonTypes, Holds, Named, Alive
    <2>2. CallInv'
      BY <1>1, DaemonStepsCall DEF serviceVars
    <2> QED
      BY <1>1, <2>1, <2>2 DEF serviceVars, launchdVars, OtherTypes
  <1>2. CASE ServiceNext
    <2>0. Job \in Daemons /\ Manual \in Daemons
      BY DEF Daemons
    <2>1. CASE UserStarts \/ LaunchdStarts
      <3>1. (Spawned(Job) \/ Spawned(Manual)) /\ UNCHANGED <<stopping, lock, call>>
        BY <2>1 DEF UserStarts, LaunchdStarts
      <3> QED
        BY <1>2, <2>0, <3>1, SpawnedInv, NextOtherTypes
    <2>2. CASE LaunchdKills
      <3>1. Ends(Job) /\ pidFile' = pidFile /\ UNCHANGED callVars
        BY <2>2 DEF LaunchdKills
      <3> QED
        BY <1>2, <2>0, <3>1, EndsInv, DaemonStepsCall, NextOtherTypes
    <2>3. ASSUME NEW d \in Daemons, DaemonMoves(d) PROVE DaemonInv' /\ CallInv'
      <3>1. UNCHANGED callVars
        BY <2>3 DEF DaemonMoves, TakesLock, WritesPid, InstallsHandlers, StartsGateway, CycleEnds,
           WaitEnds, WayOut
      <3> QED
        BY <2>3, <3>1, DaemonMovesInv, DaemonStepsCall
    <2>4. ASSUME NEW d \in Daemons, Killed(d) PROVE DaemonInv' /\ CallInv'
      BY <2>4, EndsInv, DaemonStepsCall DEF Killed
    <2>5. ASSUME NEW c \in Callers, CallBegins(c) \/ CallMoves(c) PROVE DaemonInv' /\ CallInv'
      BY <2>5, CallStepsDaemon, CallStepsCall DEF DaemonInv
    <2> QED
      BY <1>2, <2>1, <2>2, <2>3, <2>4, <2>5, NextOtherTypes DEF ServiceNext
  <1> QED
    BY <1>1, <1>2

\* The three parts in every state.
LEMMA PartsHold == ServiceSpec => [](DaemonInv /\ CallInv /\ OtherTypes)
  <1>1. (DaemonInv /\ CallInv /\ OtherTypes) /\ [ServiceNext]_serviceVars
          => (DaemonInv /\ CallInv /\ OtherTypes)'
    BY NextParts
  <1> QED
    BY InitParts, <1>1, PTL DEF ServiceSpec

-----------------------------------------------------------------------------
\* The inductive invariant of the maintenance service holds in every state.
THEOREM ServiceInvHolds == ServiceSpec => []ServiceInv
  BY PartsHold, InvParts, PTL

LEMMA NamedHolder == DaemonInv /\ MaintenancePid # NoPid => lock = MaintenancePid /\ MaintenancePid \in Daemons
  BY DEF DaemonInv, Holds, Named, MaintenancePid

\* A live process in the pid file is the one that holds the lock.
THEOREM PidNamesHolderHolds == ServiceSpec => []PidNamesHolder
  <1>1. DaemonInv => PidNamesHolder
    BY NamedHolder DEF PidNamesHolder
  <1> QED
    BY <1>1, PartsHold, PTL

\* Only a check that read the pid file earlier takes it from a daemon that works:
\* two daemons that start, stop or die never do.
THEOREM OnlyLateChecksUnnameHolds == ServiceSpec => OnlyLateChecksUnname
  <1> DEFINE Unnames ==
        \A d \in Daemons :
          pidFile = d /\ pidFile' # d /\ daemon[d] \in Looping /\ daemon'[d] \in Looping
            => \E c \in Callers : /\ call[c] \in {"check", "look-check"} /\ call'[c] # call[c]
                                  /\ seen[c] # d
  <1>1. ASSUME DaemonInv, CallInv, ServiceNext,
               NEW d \in Daemons, pidFile = d, pidFile' # d,
               daemon[d] \in Looping, daemon'[d] \in Looping
        PROVE  \E c \in Callers : /\ call[c] \in {"check", "look-check"} /\ call'[c] # call[c]
                                  /\ seen[c] # d
    <2>1. lock = d /\ daemon[d] # "off"
      BY <1>1 DEF DaemonInv, Holds, Holding, Looping
    <2>2. ~UserStarts /\ ~LaunchdStarts /\ ~LaunchdKills
      BY <1>1, <2>1 DEF UserStarts, LaunchdStarts, LaunchdKills, Spawned, Alive
    <2>3. ASSUME NEW e \in Daemons PROVE ~Killed(e)
      BY <1>1 DEF Killed
    <2>4. ASSUME NEW e \in Daemons, DaemonMoves(e) PROVE FALSE
      <3>1. daemon[e] \in {"locked", "ending"}
        BY <1>1, <2>4 DEF DaemonMoves, TakesLock, WritesPid, InstallsHandlers, StartsGateway,
           CycleEnds, WaitEnds, WayOut
      <3>2. e = d
        BY <1>1, <2>1, <3>1 DEF DaemonInv, Holds, Holding
      <3> QED
        BY <1>1, <3>1, <3>2 DEF Looping
    <2>5. PICK c \in Callers : CallBegins(c) \/ CallMoves(c)
      BY <1>1, <2>2, <2>3, <2>4 DEF ServiceNext
    <2>6. Checks(c)
      BY <1>1, <2>5 DEF CallBegins, CallMoves, InstallBegins, StopBegins, StatusBegins, Evicts,
         Enables, Bootstraps, Prints, Compares, Disables, BootsOut, Finds, Signals, StopReturns,
         StopsGateway
    <2>7. ~(seen[c] \in Daemons /\ Alive(seen[c]))
      BY <1>1, <2>6 DEF Checks
    <2>8. PICK step \in {"idle", "stop"} : Calls(c, step)
      BY <2>6, <2>7 DEF Checks, NotFound
    <2>9. call'[c] = step
      BY <1>1, <2>8 DEF Calls, Knows, CallInv, CallTypes
    <2> QED
      BY <2>1, <2>6, <2>7, <2>9 DEF Checks, Alive
  <1>3. DaemonInv /\ CallInv /\ OtherTypes /\ [ServiceNext]_serviceVars => [Unnames]_serviceVars
    BY <1>1
  <1> QED
    BY <1>3, PartsHold, PTL DEF ServiceSpec, OnlyLateChecksUnname

\* An installation that found a job and reports success found the job that
\* holds the lock, for every history of kills, stops and hand-started daemons.
THEOREM InstalledJobHasLockHolds == ServiceSpec => InstalledJobHasLock
  <1> DEFINE Success ==
        \A c \in Callers : call[c] = "compare" /\ call'[c] = "idle" /\ seen[c] # NoPid => lock = Job
  <1>1. ASSUME DaemonInv, CallInv, ServiceNext,
               NEW c \in Callers, call[c] = "compare", call'[c] = "idle", seen[c] # NoPid
        PROVE  lock = Job
    <2>1. ASSUME call' = call PROVE FALSE
      BY <1>1, <2>1
    <2>2. PICK o \in Callers : CallBegins(o) \/ CallMoves(o)
      BY <1>1, <2>1 DEF ServiceNext, UserStarts, LaunchdStarts, LaunchdKills, DaemonMoves, TakesLock,
         WritesPid, InstallsHandlers, StartsGateway, CycleEnds, WaitEnds, WayOut, Killed, callVars
    <2>3. \E step, p : Knows(o, step, p)
      BY <2>2 DEF CallBegins, CallMoves, InstallBegins, StopBegins, StatusBegins, Evicts, Enables,
         Bootstraps, Prints, Compares, Disables, BootsOut, BootsOutAndGoes, GivesUp, Finds, Checks,
         Signals, StopReturns, StopsGateway, Calls
    <2>4. o = c
      BY <1>1, <2>3 DEF Knows, CallInv, CallTypes
    <2>5. Compares(c)
      BY <1>1, <2>2, <2>4 DEF CallBegins, CallMoves, InstallBegins, StopBegins, StatusBegins, Evicts,
         Enables, Bootstraps, Prints, Disables, BootsOut, Finds, Checks, Signals, StopReturns,
         StopsGateway
    <2>6. seen[c] = MaintenancePid
      BY <1>1, <2>5 DEF Compares, Calls, Knows, CallInv, CallTypes
    <2>7. lock = seen[c] /\ seen[c] \in Daemons
      BY <1>1, <2>6, NamedHolder
    <2> QED
      BY <1>1, <2>7, DaemonsAssumption DEF CallInv, Compared
  <1>2. DaemonInv /\ CallInv /\ OtherTypes /\ [ServiceNext]_serviceVars => [Success]_serviceVars
    BY <1>1
  <1> QED
    BY <1>2, PartsHold, PTL DEF ServiceSpec, InstalledJobHasLock

-----------------------------------------------------------------------------
(***************************************************************************)
(* The NSFC supervisor.                                                    *)
(***************************************************************************)

USE RunBoundsAssumption

LEMMA InitNsfcInv == NsfcInit => NsfcInv
  <1> SUFFICES ASSUME NsfcInit PROVE NsfcInv
    OBVIOUS
  <1>1. NsfcTypes
    <2>1. runKills \in 0 .. MaxRunKills
      BY RunBoundsAssumption DEF NsfcInit
    <2>2. run \in [Runs -> Over] /\ Over \subseteq Unguarded \cup {"watch"} \cup Leaving \cup Over
      BY DEF NsfcInit, Over
    <2>3. run \in [Runs -> Unguarded \cup {"watch"} \cup Leaving \cup Over]
      BY <2>2
    <2> QED
      BY <2>1, <2>3 DEF NsfcInit, NsfcTypes
  <1>2. \A r \in Runs : run[r] = "off" /\ crawler[r] = "none"
    BY DEF NsfcInit
  <1> QED
    BY <1>1, <1>2 DEF NsfcInv, NsfcInit, Writers, Starting

\* A step of one run, its children and the counters it may touch.
LEMMA RunBeginsInv ==
  ASSUME NsfcInv, NEW r \in Runs, RunBegins(r)
  PROVE  NsfcInv'
  <1> USE DEF NsfcInv, RunBegins, RunGoes, childVars, stopVars
  <1>1. NsfcTypes'
    BY DEF NsfcTypes, Unguarded
  <1>2. Writers' = Writers
    BY DEF NsfcTypes, Writers
  <1>3. crawler'[r] = "none" /\ r \notin working'
    BY DEF Writers
  <1> QED
    BY <1>1, <1>2, <1>3 DEF NsfcTypes, Starting, Over

LEMMA LooksForWritersInv ==
  ASSUME NsfcInv, NEW r \in Runs, LooksForWriters(r)
  PROVE  NsfcInv'
  <1> USE DEF NsfcInv, LooksForWriters, RunGoes, childVars, stopVars
  <1>1. NsfcTypes'
    BY DEF NsfcTypes, Unguarded, Starting, Over
  <1>2. Writers' = Writers
    BY DEF Writers
  <1>3. run'[r] = "lanes" => Writers = {}
    BY DEF NsfcTypes
  <1>4. ASSUME run'[r] = "lanes", ~raced', NEW o \in Runs \ {r}
        PROVE  run'[o] \notin Starting
    BY <1>4 DEF PassesBeside, NsfcTypes
  <1>5. ASSUME ~raced', NEW o \in Runs, NEW p \in Runs, run'[o] \in Starting, run'[p] \in Starting
        PROVE  o = p
    BY <1>4, <1>5 DEF NsfcTypes, Starting
  <1>6. \A o \in Runs : ~raced' /\ run'[o] \in Starting => Writers = {}
    BY <1>3 DEF NsfcTypes, Starting
  <1> QED
    BY <1>1, <1>2, <1>5, <1>6 DEF NsfcTypes, Starting, Over

LEMMA GetsLanesInv ==
  ASSUME NsfcInv, NEW r \in Runs, GetsLanes(r)
  PROVE  NsfcInv'
  <1> USE DEF NsfcInv, GetsLanes, RunGoes, stopVars
  <1>1. NsfcTypes'
    BY DEF NsfcTypes, Unguarded, Starting, Over
  <1>2. Writers' = Writers
    BY DEF Writers
  <1> QED
    BY <1>1, <1>2 DEF NsfcTypes, Starting, Over

LEMMA StartsCrawlerInv ==
  ASSUME NsfcInv, NEW r \in Runs, StartsCrawler(r)
  PROVE  NsfcInv'
  <1> USE DEF NsfcInv, StartsCrawler, RunGoes, stopVars
  <1>1. NsfcTypes'
    BY DEF NsfcTypes, Unguarded, Starting, Over
  <1>2. Writers' \subseteq Writers \cup {r}
    BY DEF Writers, NsfcTypes
  <1>3. \A o \in Runs : run'[o] \in Starting => run[o] \in Starting /\ o # r
    BY DEF NsfcTypes, Starting
  <1>4. ASSUME ~raced' PROVE \A o \in Runs : run'[o] \notin Starting
    BY <1>3, <1>4 DEF Starting
  <1>5. ASSUME ~raced' PROVE \A o, p \in Writers' : o = p
    BY <1>2, <1>5 DEF Starting
  <1> QED
    BY <1>1, <1>4, <1>5 DEF NsfcTypes, Starting, Over

\* Steps after which no run is nearer to starting a crawler, and no child is
\* there that was not, but workers of an autopilot.
WindDown ==
  /\ raced' = raced
  /\ \A r \in Runs : run'[r] = run[r] \/ run'[r] \notin {"check", "lanes", "crawler", "done"}
  /\ \A r \in Runs : /\ crawler'[r] # "none" => crawler[r] # "none"
                     /\ r \in working' => r \in working \/ crawler[r] # "none"
  /\ monitor' \subseteq monitor

LEMMA WindsDown ==
  ASSUME NsfcInv, NsfcTypes', WindDown
  PROVE  NsfcInv'
  <1>1. Writers' \subseteq Writers
    BY DEF WindDown, Writers
  <1>2. \A r \in Runs : run'[r] \in Starting => run[r] \in Starting
    BY DEF WindDown, Starting
  <1>3. \A r \in Runs :
          run'[r] \in {"check", "lanes", "crawler"} => crawler'[r] = "none" /\ r \notin working'
    BY DEF WindDown, NsfcInv
  <1>4. \A r \in Runs : run'[r] = "done" => crawler'[r] = "none" /\ r \notin monitor'
    BY DEF WindDown, NsfcInv
  <1> QED
    BY <1>1, <1>2, <1>3, <1>4 DEF NsfcInv, WindDown

LEMMA InstallsRunHandlersInv ==
  ASSUME NsfcInv, NEW r \in Runs, InstallsRunHandlers(r)
  PROVE  NsfcInv'
  <1> USE DEF InstallsRunHandlers, RunGoes, childVars, stopVars
  <1>1. NsfcTypes'
    BY DEF NsfcInv, NsfcTypes
  <1>2. WindDown
    BY DEF WindDown, NsfcInv, NsfcTypes
  <1> QED
    BY <1>1, <1>2, WindsDown

LEMMA WatchesInv ==
  ASSUME NsfcInv, NEW r \in Runs, Watches(r)
  PROVE  NsfcInv'
  <1> USE DEF Watches, RunGoes, childVars, stopVars
  <1>1. NsfcTypes'
    BY DEF NsfcInv, NsfcTypes, Leaving
  <1>2. WindDown
    BY DEF WindDown, NsfcInv, NsfcTypes
  <1> QED
    BY <1>1, <1>2, WindsDown

LEMMA TermsChildrenInv ==
  ASSUME NsfcInv, NEW r \in Runs, TermsChildren(r)
  PROVE  NsfcInv'
  <1> USE DEF TermsChildren, RunGoes, stopVars, Told
  <1>1. NsfcTypes'
    BY DEF NsfcInv, NsfcTypes, Leaving
  <1>2. WindDown
    BY DEF WindDown, NsfcInv, NsfcTypes
  <1> QED
    BY <1>1, <1>2, WindsDown

\* Here a run returns: it has killed what was left of its children.
LEMMA KillsChildrenInv ==
  ASSUME NsfcInv, NEW r \in Runs, KillsChildren(r)
  PROVE  NsfcInv'
  <1> USE DEF NsfcInv, KillsChildren, RunGoes
  <1>1. NsfcTypes'
    BY DEF NsfcTypes, Over
  <1>2. Writers' \subseteq Writers
    BY DEF Writers, NsfcTypes
  <1>3. \A o \in Runs : run'[o] \in Starting => run[o] \in Starting
    BY DEF NsfcTypes, Starting
  <1>4. crawler'[r] = "none" /\ r \notin monitor'
    BY DEF NsfcTypes
  <1>5. \A o \in Runs : o # r => run'[o] = run[o] /\ crawler'[o] = crawler[o]
    BY DEF NsfcTypes
  <1> QED
    BY <1>1, <1>2, <1>3, <1>4, <1>5 DEF NsfcTypes

LEMMA RunSignalledInv ==
  ASSUME NsfcInv, NEW r \in Runs, RunSignalled(r)
  PROVE  NsfcInv'
  <1> USE DEF RunSignalled, childVars, stopVars
  <1>1. NsfcTypes'
    BY DEF NsfcInv, NsfcTypes
  <1>2. WindDown
    BY DEF WindDown, NsfcInv, NsfcTypes
  <1> QED
    BY <1>1, <1>2, WindsDown

LEMMA RunKilledInv ==
  ASSUME NsfcInv, NEW r \in Runs, RunKilled(r)
  PROVE  NsfcInv'
  <1> USE DEF RunKilled, RunGoes, childVars, stopVars
  <1>1. NsfcTypes'
    BY DEF NsfcInv, NsfcTypes, Over
  <1>2. WindDown
    BY DEF WindDown, NsfcInv, NsfcTypes
  <1> QED
    BY <1>1, <1>2, WindsDown

LEMMA ChildrenInv ==
  ASSUME NsfcInv, NEW r \in Runs,
         CrawlerExits(r) \/ MonitorExits(r) \/ WorkersStart(r) \/ WorkersExit(r)
  PROVE  NsfcInv'
  <1> USE DEF CrawlerExits, MonitorExits, WorkersStart, WorkersExit, stopVars
  <1>1. NsfcTypes'
    BY DEF NsfcInv, NsfcTypes
  <1>2. WindDown
    BY DEF WindDown, NsfcInv, NsfcTypes
  <1> QED
    BY <1>1, <1>2, WindsDown

LEMMA StopInv ==
  ASSUME NsfcInv, StopLooks \/ StopMoves
  PROVE  NsfcInv'
  <1> USE DEF StopLooks, StopMoves, StopTerms, StopDrains, StopKills, childVars, Told
  <1>1. NsfcTypes'
    BY DEF NsfcInv, NsfcTypes, Writing, Roles
  <1>2. WindDown
    BY DEF WindDown, NsfcInv, NsfcTypes
  <1> QED
    BY <1>1, <1>2, WindsDown

LEMMA NextNsfcInv == NsfcInv /\ [NsfcNext]_nsfcVars => NsfcInv'
  <1> SUFFICES ASSUME NsfcInv, [NsfcNext]_nsfcVars PROVE NsfcInv'
    OBVIOUS
  <1>1. ASSUME NEW r \in Runs, RunBegins(r) PROVE NsfcInv'
    BY <1>1, RunBeginsInv
  <1>2. ASSUME NEW r \in Runs, RunMoves(r) PROVE NsfcInv'
    BY <1>2, LooksForWritersInv, GetsLanesInv, StartsCrawlerInv, InstallsRunHandlersInv,
       WatchesInv, TermsChildrenInv, KillsChildrenInv DEF RunMoves
  <1>3. ASSUME NEW r \in Runs, RunSignalled(r) \/ RunKilled(r) PROVE NsfcInv'
    BY <1>3, RunSignalledInv, RunKilledInv
  <1>4. ASSUME NEW r \in Runs,
               CrawlerExits(r) \/ MonitorExits(r) \/ WorkersStart(r) \/ WorkersExit(r)
        PROVE  NsfcInv'
    BY <1>4, ChildrenInv
  <1>5. CASE StopLooks \/ StopMoves
    BY <1>5, StopInv
  <1>6. CASE UNCHANGED nsfcVars
    BY <1>6 DEF NsfcInv, NsfcTypes, Writers, nsfcVars, childVars, stopVars
  <1> QED
    BY <1>1, <1>2, <1>3, <1>4, <1>5, <1>6 DEF NsfcNext

\* The inductive invariant of the supervisor holds in every state.
THEOREM NsfcInvHolds == NsfcSpec => []NsfcInv
  BY InitNsfcInv, NextNsfcInv, PTL DEF NsfcSpec

\* run_nsfc and stop_nsfc_processes keep one writer per data directory, unless
\* two runs pass the check before either has started its crawler.
THEOREM OneWriterHolds == NsfcSpec => []OneWriterUnlessRaced
  <1>1. ASSUME NsfcInv PROVE OneWriterUnlessRaced
    <2> SUFFICES ASSUME ~raced PROVE Cardinality(Writers) <= 1
      BY DEF OneWriterUnlessRaced
    <2>1. Writers = {} \/ \E w \in Writers : Writers = {w}
      BY <1>1 DEF NsfcInv
    <2>2. Cardinality({}) = 0 /\ \A w \in Runs : Cardinality({w}) = 1
      BY FS_EmptySet, FS_Singleton
    <2> QED
      BY <2>1, <2>2 DEF Writers
  <1> QED
    BY <1>1, NsfcInvHolds, PTL

\* A run that has returned left neither autopilot nor monitor.
THEOREM NoStraysHolds == NsfcSpec => []NoStrays
  <1>1. NsfcInv => NoStrays
    BY DEF NsfcInv, NoStrays
  <1> QED
    BY <1>1, NsfcInvHolds, PTL

=============================================================================
