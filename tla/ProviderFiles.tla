---------------------------- MODULE ProviderFiles ----------------------------
(***************************************************************************)
(* materialize_provider (subscriptions.py): how a provider file follows    *)
(* its sources.  A Shadowrocket provider with refresh_remote merges what   *)
(* several subscription URLs deliver, each with a cache of its own, and    *)
(* remembers the URLs in a manifest, because the background service does   *)
(* not read the archive when it has one.  The other kinds of provider have *)
(* a single source.  Any process may refresh; no lock keeps them apart,    *)
(* and all of them write a file through the same temporary one.            *)
(*                                                                         *)
(* Contents are versions of sources, 0 is none: no file, one that cannot   *)
(* be read, or no nodes of that source.                                    *)
(* A refresh whose archive file is missing altogether does not begin.      *)
(***************************************************************************)
EXTENDS Integers, FiniteSets

CONSTANTS
  Urls,           \* subscriptions
  Background,     \* the refresher that runs as the background service
  Foreground,     \* refreshers that do not
  Changing,       \* those that change, or come and go, in the model
  MaxChanges,     \* how often they do
  MaxFailures     \* how many downloads fail, archives cannot be read, and
                  \* refreshers are killed

Refreshers == Foreground \cup {Background}

\* The provider file, the manifest, and the cache of each subscription.
NoFile == "none"
Files  == Urls \cup {"manifest", "provider"}

ASSUME FilesAssumption      == Urls \cap {"manifest", "provider", NoFile} = {}
ASSUME RefreshersAssumption == Background \notin Foreground
ASSUME FilesBoundsAssumption == Changing \subseteq Urls /\ MaxChanges \in Nat /\ MaxFailures \in Nat

VARIABLES
  kind,           \* "remote" Shadowrocket; "archive" (refresh_remote off), or
                  \* "scoped" when it takes only some of it; "url"; "file"
  archive,        \* the subscriptions in the Shadowrocket archive, or the one
                  \* source of the other kinds
  offer,          \* url -> the version it delivers now
  stored,         \* file -> url -> version; a manifest has 1 for those it lists
  temp,           \* file -> {what its temporary file contains}, {} without one
  refresh,        \* refresher -> where it is
  urls,           \* refresher -> the subscriptions it refreshes
  todo,           \* refresher -> those it has not come to
  got,            \* refresher -> url -> what it will write
  writing,        \* refresher -> the file it is writing, or NoFile
  hold,           \* refresher -> "closed"; what it has opened: the temporary
                  \* one, since then the "file"; "full": filled, or nameless
  overlap,        \* history: who was not alone in writing its file
  mixed,          \* two refreshers ran at once, or one was killed
  changes,
  failures

worldVars   == <<kind, archive, offer, changes>>
diskVars    == <<stored, temp>>
refreshVars == <<refresh, urls, todo, got>>
writeVars   == <<writing, hold, overlap>>
filesVars   == <<worldVars, diskVars, refreshVars, writeVars, mixed, failures>>

Versions == 0 .. MaxChanges + 1
Kinds    == {"remote", "archive", "scoped", "url", "file"}
NoNodes  == [u \in Urls |-> 0]
Sources(content) == {u \in Urls : content[u] # 0}

manifest == Sources(stored["manifest"])
cache    == [u \in Urls |-> stored[u][u]]
dest     == stored["provider"]

FilesTypes ==
  /\ kind \in Kinds
  /\ archive \in SUBSET Urls /\ offer \in [Urls -> Versions]
  /\ stored \in [Files -> [Urls -> Versions]] /\ temp \in [Files -> SUBSET [Urls -> Versions]]
  /\ refresh \in [Refreshers -> {"idle", "urls", "fetch", "load", "write"}]
  /\ urls \in [Refreshers -> SUBSET Urls] /\ todo \in [Refreshers -> SUBSET Urls]
  /\ got \in [Refreshers -> [Urls -> Versions]]
  /\ writing \in [Refreshers -> Files \cup {NoFile}] /\ overlap \in SUBSET Refreshers
  /\ hold \in [Refreshers -> {"closed", "temp", "file", "full"}]
  /\ mixed \in BOOLEAN /\ changes \in 0 .. MaxChanges /\ failures \in 0 .. MaxFailures

FilesInit ==
  /\ kind \in Kinds
  /\ archive \in SUBSET Urls \ {{}} /\ (kind # "remote" => Cardinality(archive) = 1)
  /\ offer = [u \in Urls |-> 1]
  /\ stored = [f \in Files |-> NoNodes] /\ temp = [f \in Files |-> {}]
  /\ refresh = [r \in Refreshers |-> "idle"]
  /\ urls = [r \in Refreshers |-> {}] /\ todo = [r \in Refreshers |-> {}]
  /\ got = [r \in Refreshers |-> NoNodes]
  /\ writing = [r \in Refreshers |-> NoFile] /\ hold = [r \in Refreshers |-> "closed"] /\ overlap = {}
  /\ mixed = FALSE /\ changes = 0 /\ failures = 0

Fails == failures < MaxFailures /\ failures' = failures + 1

Step(r, step) == refresh' = [refresh EXCEPT ![r] = step]
RefreshEnds(r) ==
  /\ Step(r, "idle")
  /\ urls' = [urls EXCEPT ![r] = {}] /\ todo' = [todo EXCEPT ![r] = {}]
  /\ got' = [got EXCEPT ![r] = NoNodes]

RefreshBegins(r) ==
  /\ refresh[r] = "idle"
  /\ Step(r, IF kind = "remote" THEN "urls" ELSE "load")
  /\ mixed' = (mixed \/ \E o \in Refreshers : refresh[o] # "idle")
  /\ UNCHANGED <<worldVars, diskVars, urls, todo, got, writeVars, failures>>

(***************************************************************************)
(* _atomic_yaml_write, _write_subscription_urls: the text is written to a  *)
(* file whose name depends on nothing but the file it then replaces.       *)
(***************************************************************************)

\* What the refresher is writing.
Text(r) ==
  [u \in Urls |->
    CASE writing[r] = "manifest" -> IF u \in urls[r] THEN 1 ELSE 0
      [] writing[r] \in Urls \ {u} -> 0
      [] OTHER -> got[r][u]]

\* It is not the only one that writes the file.
StartsWriting(r, f, holds) ==
  /\ writing' = [writing EXCEPT ![r] = f]
  /\ hold' = [hold EXCEPT ![r] = holds]
  /\ LET others == {o \in Refreshers : writing[o] = f}
     IN  overlap' = overlap \cup (IF others = {} THEN {} ELSE others \cup {r})

\* The temporary file is truncated if there is one, also under the hands of
\* another refresher.
Opens(r, f) ==
  /\ StartsWriting(r, f, "temp")
  /\ temp' = [temp EXCEPT ![f] = {NoNodes}]
  /\ UNCHANGED stored

\* Two texts in one file may give one that cannot be read.
Fills(r) ==
  /\ hold[r] \in {"temp", "file"}
  /\ \E text \in {Text(r)} \cup {NoNodes : o \in overlap \cap {r}} :
       /\ temp' = IF hold[r] = "temp" THEN [temp EXCEPT ![writing[r]] = {text}] ELSE temp
       /\ stored' = IF hold[r] = "file" THEN [stored EXCEPT ![writing[r]] = text] ELSE stored
  /\ hold' = [hold EXCEPT ![r] = "full"]
  /\ UNCHANGED <<worldVars, refreshVars, writing, overlap, mixed, failures>>

StopsWriting(r) ==
  /\ writing' = [writing EXCEPT ![r] = NoFile]
  /\ overlap' = overlap \ {r}

\* What another refresher has opened, when the temporary file becomes the file.
AfterRename == [temp |-> "file", file |-> "full", full |-> "full"]

\* os.replace moves whatever has the temporary name by now.
Replaces(r) ==
  /\ hold[r] = "full" /\ kind # "file"
  /\ \E text \in temp[writing[r]] : stored' = [stored EXCEPT ![writing[r]] = text]
  /\ temp' = [temp EXCEPT ![writing[r]] = {}]
  /\ hold' = [o \in Refreshers |->
                IF o = r THEN "closed" ELSE IF writing[o] = writing[r] THEN AfterRename[hold[o]] ELSE hold[o]]
  /\ StopsWriting(r)
  /\ IF writing[r] = "provider" THEN RefreshEnds(r) ELSE UNCHANGED refreshVars
  /\ UNCHANGED <<worldVars, mixed, failures>>

\* Another refresher has moved it: FileNotFoundError.  A source counts as
\* failed, anything else ends the refresh.
ReplaceFails(r) ==
  /\ hold[r] = "full" /\ kind # "file"
  /\ temp[writing[r]] = {}
  /\ hold' = [hold EXCEPT ![r] = "closed"]
  /\ StopsWriting(r)
  /\ IF writing[r] \in Urls
     THEN got' = [got EXCEPT ![r][writing[r]] = cache[writing[r]]] /\ UNCHANGED <<refresh, urls, todo>>
     ELSE RefreshEnds(r)
  /\ UNCHANGED <<worldVars, diskVars, mixed, failures>>

(***************************************************************************)
(* _refresh_shadowrocket_subscriptions.                                    *)
(***************************************************************************)

Takes(r, list) ==
  /\ Step(r, "fetch")
  /\ urls' = [urls EXCEPT ![r] = list] /\ todo' = [todo EXCEPT ![r] = list]
  /\ UNCHANGED got

\* The background service prefers the manifest; everyone else reads the
\* archive and writes the manifest; an archive that cannot be read, or is
\* empty, leaves the manifest, or nothing.
TakesUrls(r) ==
  /\ refresh[r] = "urls"
  /\ LET prefersManifest == r = Background /\ manifest # {}
         fallsBack       == UNCHANGED <<diskVars, writeVars>>
     IN  \/ prefersManifest /\ Takes(r, manifest) /\ fallsBack /\ UNCHANGED failures
         \/ /\ ~prefersManifest /\ archive # {}
            /\ Takes(r, archive) /\ Opens(r, "manifest") /\ UNCHANGED failures
         \/ /\ ~prefersManifest /\ fallsBack
            /\ IF archive = {} THEN UNCHANGED failures ELSE Fails
            /\ IF manifest = {} THEN RefreshEnds(r) ELSE Takes(r, manifest)
  /\ UNCHANGED <<worldVars, mixed>>

\* It comes to the next source, in the order of the list.
NextOf(list) == CHOOSE u \in list : TRUE
Comes(r, u) ==
  /\ refresh[r] = "fetch" /\ writing[r] = NoFile /\ todo[r] # {} /\ u = NextOf(todo[r])
  /\ todo' = [todo EXCEPT ![r] = @ \ {u}]
  /\ UNCHANGED <<worldVars, refresh, urls, mixed>>

\* Download and convert, then write the cache.
Downloads(r, u) ==
  /\ offer[u] # 0
  /\ got' = [got EXCEPT ![r][u] = offer[u]]
  /\ Opens(r, u)
  /\ UNCHANGED failures
NoDownload(r, u) ==
  /\ IF offer[u] = 0 THEN UNCHANGED failures ELSE Fails
  /\ UNCHANGED <<diskVars, writeVars>>

\* Mutant: what a source delivered last time is not looked at.
ForgetsCache(r, u) ==
  /\ Comes(r, u)
  /\ Downloads(r, u) \/ (NoDownload(r, u) /\ UNCHANGED got)

\* Mutant: a source that has a cache is not asked again.
PrefersCache(r, u) ==
  /\ Comes(r, u)
  /\ IF cache[u] = 0 /\ offer[u] # 0 THEN Downloads(r, u)
     ELSE got' = [got EXCEPT ![r][u] = cache[u]] /\ UNCHANGED <<diskVars, writeVars, failures>>

\* When any of it fails, the cache speaks for the source, and without one the
\* source is left out.
Fetches(r, u) ==
  /\ Comes(r, u)
  /\ \/ Downloads(r, u)
     \/ /\ NoDownload(r, u)
        /\ got' = [got EXCEPT ![r][u] = cache[u]]

\* The caches of subscriptions this refresher does not know are removed.
\* Mutant: those of sources that failed, too.
PrunesFailed(r) == {u \in Urls : u \notin urls[r] \/ got[r][u] # offer[u]}
Prunes(r) == Urls \ urls[r]
Removes(gone) ==
  /\ stored' = [f \in Files |-> IF f \in gone THEN NoNodes ELSE stored[f]]
  /\ hold' = [o \in Refreshers |-> IF hold[o] = "file" /\ writing[o] \in gone THEN "full" ELSE hold[o]]

\* Without a node from any source or cache, the provider file is left as it is.
\* Mutant: an empty result is a result.
TakesAnything(r) == FALSE
NoneFound(r) == got[r] = NoNodes
Merges(r) ==
  /\ refresh[r] = "fetch" /\ writing[r] = NoFile /\ todo[r] = {}
  /\ IF NoneFound(r)
     THEN RefreshEnds(r) /\ UNCHANGED <<stored, hold>>
     ELSE Step(r, "write") /\ Removes(Prunes(r)) /\ UNCHANGED <<urls, todo, got>>
  /\ UNCHANGED <<worldVars, temp, writing, overlap, mixed, failures>>

(***************************************************************************)
(* materialize_provider.                                                   *)
(***************************************************************************)

\* What the source offers by now, or nothing usable.
Delivered == [u \in Urls |-> IF u \in archive THEN offer[u] ELSE 0]

\* The kinds with one source.  The background service takes an archive's nodes
\* from the provider file when it has any; an archive of which only some nodes
\* are wanted may have none of them.
Loads(r) ==
  LET keepsFile == kind \in {"archive", "scoped"} /\ r = Background /\ dest # NoNodes
      loads(content) == got' = [got EXCEPT ![r] = content] /\ Step(r, "write") /\ UNCHANGED <<urls, todo>>
  IN  /\ refresh[r] = "load"
      /\ \/ keepsFile /\ loads(dest) /\ UNCHANGED failures
         \/ /\ ~keepsFile /\ (kind \in {"scoped", "file"} \/ Delivered # NoNodes)
            /\ loads(Delivered) /\ UNCHANGED failures
         \/ /\ kind \in {"archive", "url"} /\ ~keepsFile /\ Delivered = NoNodes
            /\ RefreshEnds(r) /\ UNCHANGED failures
         \/ kind # "file" /\ ~keepsFile /\ Fails /\ RefreshEnds(r)
      /\ UNCHANGED <<worldVars, diskVars, writeVars, mixed>>

\* A file is copied over the provider file itself, and parsed then.
Copies(r) ==
  /\ StartsWriting(r, "provider", "file")
  /\ stored' = [stored EXCEPT !["provider"] = NoNodes]
  /\ UNCHANGED temp

Writes(r) ==
  /\ refresh[r] = "write" /\ writing[r] = NoFile
  /\ IF kind = "file" THEN Copies(r) ELSE Opens(r, "provider")
  /\ UNCHANGED <<worldVars, refreshVars, mixed, failures>>

Copied(r) ==
  /\ hold[r] = "full" /\ kind = "file"
  /\ hold' = [hold EXCEPT ![r] = "closed"]
  /\ StopsWriting(r)
  /\ RefreshEnds(r)
  /\ UNCHANGED <<worldVars, diskVars, mixed, failures>>

\* What it has written so far stays, but for a temporary file nobody is writing:
\* the next one to open that truncates it.
RefresherKilled(r) ==
  /\ refresh[r] # "idle" /\ Fails /\ RefreshEnds(r) /\ mixed' = TRUE
  /\ hold' = [hold EXCEPT ![r] = "closed"] /\ StopsWriting(r)
  /\ temp' = [f \in Files |-> IF \E o \in Refreshers \ {r} : writing[o] = f THEN temp[f] ELSE {}]
  /\ UNCHANGED <<worldVars, stored>>

(***************************************************************************)
(* The provider, and the user of Shadowrocket.                             *)
(***************************************************************************)

\* New content, or (0) an answer that is no subscription.
OfferChanges(u) ==
  /\ u \in Changing /\ changes < MaxChanges /\ changes' = changes + 1
  /\ \E v \in {0, changes + 2} : offer' = [offer EXCEPT ![u] = v]
  /\ UNCHANGED <<kind, archive, diskVars, refreshVars, writeVars, mixed, failures>>

ArchiveChanges ==
  /\ kind = "remote" /\ changes < MaxChanges /\ changes' = changes + 1
  /\ archive' \in {archive \cup Changing, archive \ Changing} \ {archive}
  /\ UNCHANGED <<kind, offer, diskVars, refreshVars, writeVars, mixed, failures>>

RefresherMoves(r) ==
  \/ TakesUrls(r) \/ (\E u \in Urls : Fetches(r, u)) \/ Merges(r)
  \/ Loads(r) \/ Writes(r) \/ Fills(r) \/ Replaces(r) \/ ReplaceFails(r) \/ Copied(r)

FilesNext ==
  \/ \E r \in Refreshers : RefreshBegins(r) \/ RefresherMoves(r) \/ RefresherKilled(r)
  \/ (\E u \in Urls : OfferChanges(u)) \/ ArchiveChanges

FilesSpec == FilesInit /\ [][FilesNext]_filesVars

\* The service refreshes again and again, and goes on when it has begun.
FilesFairness ==
  /\ WF_filesVars(RefreshBegins(Background))
  /\ WF_filesVars(RefresherMoves(Background))

FairFilesSpec == FilesSpec /\ FilesFairness

-----------------------------------------------------------------------------
(***************************************************************************)
(* Properties.                                                             *)
(***************************************************************************)

Active == {r \in Refreshers : refresh[r] # "idle"}
\* The sources a refresher has come to.
Come(r) == urls[r] \ todo[r]

\* Version v of a source is not newer than what the source delivers now.
NotAhead(u, v) == v <= changes + 1 /\ (offer[u] # 0 => v <= offer[u])

\* Nobody has of a source what it has not delivered yet.
NoneAhead(content) == \A u \in Urls : NotAhead(u, content[u])
OffersAreNewest ==
  /\ \A u \in Urls : offer[u] <= changes + 1
  /\ \A f \in Files : NoneAhead(stored[f]) /\ \A text \in temp[f] : NoneAhead(text)
  /\ \A r \in Refreshers : NoneAhead(got[r])

\* A refresher of subscriptions has nodes of the sources it has come to only,
\* and no refresher is about to replace the provider file by nothing.
KeepsNodes == {"remote", "archive", "url"}
KnowsSources(r) ==
  /\ refresh[r] \in {"urls", "fetch"} => kind = "remote"
  /\ refresh[r] = "load" => kind # "remote"
  /\ refresh[r] \in {"idle", "urls", "load"} => urls[r] = {} /\ got[r] = NoNodes
  /\ todo[r] \subseteq urls[r] /\ (kind = "remote" => Sources(got[r]) \subseteq Come(r))
  /\ refresh[r] = "write" => todo[r] = {} /\ (kind \in KeepsNodes => got[r] # NoNodes)

\* A refresher writes the manifest and the caches before it has merged them, and
\* the provider file afterwards.
WritesInOrder(r) ==
  /\ hold[r] = "closed" <=> writing[r] = NoFile
  /\ writing[r] # NoFile => refresh[r] = IF writing[r] = "provider" THEN "write" ELSE "fetch"
  /\ writing[r] \in Urls => writing[r] \in Come(r)
  /\ writing[r] = "manifest" => todo[r] = urls[r]

\* Who is alone in writing a file has its own text in the temporary one.
AloneWritesOwn(r) ==
  writing[r] # NoFile /\ r \notin overlap /\ kind # "file" =>
    /\ \A o \in Refreshers \ {r} : writing[o] # writing[r]
    /\ hold[r] \in {"temp", "full"}
    /\ hold[r] = "full" => temp[writing[r]] = {Text(r)}

\* Refreshers who take turns have what is in the file, or newer, in the caches,
\* or, while they write it, in what they are about to write.
FilesInTurn ==
  /\ \A r, o \in Active : r = o
  /\ overlap = {}
  /\ (\A r \in Refreshers : refresh[r] # "write") => \A u \in Urls : cache[u] >= dest[u]
  /\ \A r \in Active : \A u \in Come(r) :
       (u = writing[r] \/ cache[u] >= got[r][u]) /\ got[r][u] >= dest[u]

\* The inductive invariant.
FilesInv ==
  /\ FilesTypes /\ OffersAreNewest
  /\ \A r \in Refreshers : KnowsSources(r) /\ WritesInOrder(r) /\ AloneWritesOwn(r)
  /\ kind = "remote" /\ ~mixed => FilesInTurn

\* No refresh, failed or killed half-way through any write, ever leaves a
\* provider without nodes that had some ("preserve cached provider files when a
\* subscription refresh temporarily fails", SKILL.md:58), unless two refreshers
\* are just writing that very file through their common temporary one.  The
\* exceptions are a file provider, whose file is replaced before it is parsed,
\* and an archive with a scope.
NeverEmptied ==
  [][ dest # NoNodes /\ kind \in KeepsNodes =>
        dest' # NoNodes \/ \E r \in overlap : writing[r] = "provider" ]_filesVars

\* The same without the exception for two refreshers.
NeverEmptiedByRace == [][ dest # NoNodes /\ kind \in KeepsNodes => dest' # NoNodes ]_filesVars

\* "Merge fresh sources with only the corresponding failed source caches"
\* (SKILL.md:58).  Refreshers that take turns never lose the nodes of a source
\* they still refresh, nor bring back older ones, and keep no source they do
\* not refresh.
MergesEachSource ==
  [][ kind = "remote" /\ ~mixed /\ dest' # dest =>
        \A r \in Refreshers : refresh[r] = "write" =>
          /\ Sources(dest') \subseteq urls[r]
          /\ \A u \in urls[r] : dest'[u] >= dest[u] ]_filesVars

\* Every source of the provider file has its cache to fall back to.
CacheBacksFile ==
  kind = "remote" /\ ~mixed /\ (\A r \in Refreshers : refresh[r] = "idle") =>
    \A u \in Urls : cache[u] >= dest[u]

\* Once the sources keep still, the background service alone brings the
\* provider file up to what its subscriptions deliver.
FileConverges ==
  (kind = "remote" /\ <>[][UNCHANGED worldVars]_worldVars /\ <>[](\A r \in Foreground : refresh[r] = "idle"))
    => <>[](\A u \in manifest : offer[u] # 0 => dest[u] = offer[u])

=============================================================================
