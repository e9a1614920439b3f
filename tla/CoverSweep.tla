----------------------------- MODULE CoverSweep -----------------------------
(* The covers the app keeps for offline use: the JPEGs on disk, the        *)
(* manifest that says which belongs to which anime, the passes that ask    *)
(* the bridge for them and clean up, and the inbox into which the native   *)
(* runtime downloads while the app is away.  A file is named by its anime  *)
(* and the etag of its image, here a version.  The time an entry waits is  *)
(* a choice; only one answer of 401, an unreachable bridge or a throw, the *)
(* one that cuts a pass off, is kept apart from the answers it persists.   *)
EXTENDS Integers, Sequences, FiniteSets

CONSTANTS
  CoverAnimes,   \* the animes
  MaxVersion,    \* bound: images the bridge ever served of an anime
  MaxTask,       \* bound: hydrations and passes in the queue
  MaxPass,       \* bound: passes
  MaxChange,     \* bound: changes of the covers at the bridge and of the list
  MaxKill        \* bound: times the app's process dies or a file is taken from outside

ASSUME CoverAssumption ==
  /\ IsFiniteSet(CoverAnimes)
  /\ MaxVersion \in Nat \ {0} /\ MaxTask \in Nat \ {0} /\ MaxPass \in Nat
  /\ MaxChange \in Nat /\ MaxKill \in Nat

VARIABLES
  coverFiles,  \* the JPEGs in covers/
  manifest,    \* the manifest file, or NoCopy
  spare,       \* its temp file, or NoCopy
  inbox,       \* the pairs in the inbox: the image, the sidecar and the source in it
  prefetch,    \* the anime the native prefetch works on and what it downloaded
  tasks,       \* the exclusive queue of the cover store, the running task first
  sweepStep,   \* where the running task is
  found,       \* what it holds in memory
  shown,       \* the URI map the cards read
  source,      \* the source of the cover in the anime's row, 0 for none
  served,      \* the image the bridge has for it, 0 for none
  active,      \* the animes in the list
  passes, kills, changes   \* counts towards the bounds

store == <<coverFiles, manifest, spare>>
world == <<source, served, active, changes>>
coverVars == <<store, inbox, prefetch, tasks, sweepStep, found, shown, world, passes, kills>>

Versions == 0 .. MaxVersion
NoEntry == [file |-> 0, source |-> -1]
Entries == [CoverAnimes -> [file : Versions, source : {-1, 0, 1, 2}]]
NoCopy == [a \in CoverAnimes |-> [file |-> 0, source |-> -2]]
NoEntries == [a \in CoverAnimes |-> NoEntry]
NothingFound == [entries |-> NoEntries, targets |-> {}, wanted |-> {}, asked |-> [a \in CoverAnimes |-> 0],
           answered |-> FALSE, cut |-> FALSE, handled |-> {}, then |-> "none"]
NoPair == [image |-> 0, sidecar |-> 0, source |-> 0]
NoPrefetch == [anime |-> "none", image |-> 0, source |-> 0]

CoverTypeOK ==
  /\ coverFiles \subseteq CoverAnimes \X (1 .. MaxVersion)
  /\ manifest \in Entries \cup {NoCopy} /\ spare \in Entries \cup {NoCopy}
  /\ inbox \in [CoverAnimes -> [image : Versions, sidecar : Versions, source : {0, 1, 2}]]
  /\ prefetch.anime \in CoverAnimes \cup {"none"} /\ prefetch.image \in Versions
  /\ tasks \in Seq({"hydrate", "sweep", "forced"}) /\ Len(tasks) <= MaxTask
  /\ sweepStep \in {"idle", "adopt", "clear", "fill", "drop", "move", "discard",
                    "config", "ask", "delete", "publish"}
  /\ (sweepStep # "idle" => tasks # <<>>)
  /\ found.entries \in Entries /\ found.targets \subseteq CoverAnimes
  /\ found.wanted \subseteq CoverAnimes /\ found.handled \subseteq CoverAnimes
  /\ found.then \in {"none", "discard", "delete", "publish"}
  /\ found.answered \in BOOLEAN /\ found.cut \in BOOLEAN
  /\ shown \in [CoverAnimes -> Versions] /\ active \subseteq CoverAnimes
  /\ source \in [CoverAnimes -> {0, 1, 2}] /\ served \in [CoverAnimes -> Versions]
  /\ passes \in 0 .. MaxPass /\ kills \in 0 .. MaxKill
  /\ changes \in 0 .. MaxChange

CoverInit ==
  /\ coverFiles = {} /\ manifest = NoCopy /\ spare = NoCopy
  /\ inbox = [a \in CoverAnimes |-> NoPair]
  /\ prefetch = NoPrefetch /\ tasks = <<>> /\ sweepStep = "idle"
  /\ shown = [a \in CoverAnimes |-> 0]
  /\ source = [a \in CoverAnimes |-> 1] /\ served = [a \in CoverAnimes |-> 1]
  /\ active = CoverAnimes /\ passes = 0 /\ kills = 0 /\ changes = 0
  /\ found = NothingFound

----------------------------------------------------------------------------
(* The manifest and what it means.                                         *)

\* readCoverManifest: the temp file stands in for a manifest that is missing.
Readable ==
  IF manifest # NoCopy THEN manifest ELSE IF spare # NoCopy THEN spare ELSE NoEntries

\* buildCoverUriMap.
UriMap(entries) == [a \in CoverAnimes |-> entries[a].file]

\* planCoverInboxAdoption, of the pairs whose image is still there.
Adopted == {a \in CoverAnimes : /\ inbox[a].sidecar # 0 /\ inbox[a].image # 0
                                /\ Readable[a].file = 0}

\* selectCoverSweepTargets; `late` are the animes whose waiting time is over.
Targets(entries, late, force) ==
  {a \in active : force \/ a \in late \/ entries[a].source # source[a]}

\* resolveCoverManifestEntry: what an answer about anime a, asked for source s, leaves.
Resolved(entry, kind, image, s) ==
  [file |-> CASE kind = "image" -> image
              [] kind = "absent" -> IF entry.source = s THEN entry.file ELSE 0
              [] OTHER -> entry.file,
   source |-> s]

----------------------------------------------------------------------------
(* The queue and the hydration.                                            *)

Enqueue(task) == Len(tasks) < MaxTask /\ tasks' = Append(tasks, task)

RequestHydrate ==
  /\ Enqueue("hydrate")
  /\ UNCHANGED <<store, inbox, prefetch, sweepStep, found, shown, world, passes, kills>>

\* runCoverSweep: an unforced call joins the pass in flight, a forced one queues its own.
RequestSweep(task) ==
  /\ passes < MaxPass /\ passes' = passes + 1
  /\ IF task = "sweep" /\ (\E i \in DOMAIN tasks : tasks[i] # "hydrate")
     THEN UNCHANGED tasks ELSE Enqueue(task)
  /\ UNCHANGED <<store, inbox, prefetch, sweepStep, found, shown, world, kills>>

TakeTask ==
  /\ sweepStep = "idle" /\ tasks # <<>> /\ sweepStep' = "adopt"
  /\ UNCHANGED <<store, inbox, prefetch, tasks, found, shown, world, passes, kills>>

\* adoptCoverInbox, and the entries whose file is gone lose it.
AdoptInbox ==
  /\ sweepStep = "adopt"
  /\ coverFiles' = coverFiles \cup {<<a, inbox[a].image>> : a \in Adopted}
  /\ inbox' = [a \in CoverAnimes |-> IF a \in Adopted THEN [inbox[a] EXCEPT !.image = 0]
                                                     ELSE inbox[a]]
  /\ LET adopted == [a \in CoverAnimes |->
           IF a \in Adopted THEN [file |-> inbox[a].image, source |-> inbox[a].source] ELSE Readable[a]]
         checked == [a \in CoverAnimes |->
           IF <<a, adopted[a].file>> \in coverFiles' THEN adopted[a]
           ELSE [adopted[a] EXCEPT !.file = 0]]
     IN  /\ found' = [found EXCEPT !.entries = checked, !.then = "discard",
                                 !.handled = {a \in CoverAnimes : inbox[a].sidecar # 0}]
         /\ sweepStep' = IF checked = Readable THEN "discard" ELSE "clear"
  /\ UNCHANGED <<manifest, spare, prefetch, tasks, shown, world, passes, kills>>

Finish == tasks' = Tail(tasks) /\ sweepStep' = "idle" /\ found' = NothingFound

\* A hydration ends, alone or as the first part of a pass.
EndHydration ==
  IF Head(tasks) = "hydrate" THEN Finish
  ELSE sweepStep' = "config" /\ UNCHANGED <<tasks, found>>

\* The handled pairs go and the map is published.
Discard ==
  /\ sweepStep = "discard"
  /\ inbox' = [a \in CoverAnimes |->
                 IF a \in found.handled THEN NoPair ELSE inbox[a]]
  /\ shown' = UriMap(found.entries)
  /\ EndHydration
  /\ UNCHANGED <<store, prefetch, world, passes, kills>>

----------------------------------------------------------------------------
(* writeCoverManifest, one file operation at a time.                       *)

diskAndSteps == <<coverFiles, inbox, prefetch, tasks, found, shown, world, passes, kills>>

ClearSpare ==
  /\ sweepStep = "clear" /\ spare' = NoCopy /\ sweepStep' = "fill"
  /\ UNCHANGED <<manifest, diskAndSteps>>
FillSpare ==
  /\ sweepStep = "fill" /\ spare' = found.entries /\ sweepStep' = "drop"
  /\ UNCHANGED <<manifest, diskAndSteps>>
DropManifest ==
  /\ sweepStep = "drop" /\ manifest' = NoCopy /\ sweepStep' = "move"
  /\ UNCHANGED <<spare, diskAndSteps>>
MoveSpare ==
  /\ sweepStep = "move" /\ manifest' = spare /\ spare' = NoCopy /\ sweepStep' = found.then
  /\ UNCHANGED diskAndSteps

\* The temp file cannot be written: a hydration swallows it, a pass rejects.
WriteFails ==
  /\ sweepStep = "fill"
  /\ IF found.then = "discard" THEN EndHydration ELSE Finish
  /\ UNCHANGED <<store, inbox, prefetch, shown, world, passes, kills>>

----------------------------------------------------------------------------
(* executeCoverSweep.                                                      *)

\* Without a paired bridge the pass ends here; otherwise it reads what to ask for.
SelectTargets ==
  /\ sweepStep = "config"
  /\ \/ Finish
     \/ \E late \in SUBSET active :
          /\ found' = [found EXCEPT !.entries = Readable, !.wanted = active, !.asked = source,
               !.targets = Targets(Readable, late, Head(tasks) = "forced")]
          /\ sweepStep' = "ask" /\ UNCHANGED tasks
  /\ UNCHANGED <<store, inbox, prefetch, shown, world, passes, kills>>

\* One cover is answered; the bytes of an image are written, nothing is deleted.
Answer(a, kind) ==
  /\ sweepStep = "ask" /\ a \in found.targets
  /\ kind = "image" => served[a] \notin {0, found.entries[a].file}
  /\ kind = "not_modified" => served[a] # 0 /\ served[a] = found.entries[a].file
  /\ kind = "absent" => served[a] = 0
  /\ coverFiles' = IF kind = "image" THEN coverFiles \cup {<<a, served[a]>>} ELSE coverFiles
  /\ found' = [found EXCEPT !.targets = @ \ {a}, !.answered = TRUE,
       !.entries[a] = Resolved(@, kind, served[a], found.asked[a])]
  /\ UNCHANGED <<manifest, spare, inbox, prefetch, tasks, sweepStep, shown, world, passes, kills>>

\* A 401, an unreachable bridge or a throw: nothing more is asked.
CutOff(a) ==
  /\ sweepStep = "ask" /\ a \in found.targets /\ ~found.cut
  /\ found' = [found EXCEPT !.targets = @ \ {a}, !.cut = TRUE]
  /\ UNCHANGED <<store, inbox, prefetch, tasks, sweepStep, shown, world, passes, kills>>

\* pruneInactiveCoverEntries.
Pruned == [a \in CoverAnimes |-> IF a \in found.wanted THEN found.entries[a] ELSE NoEntry]

\* The files a manifest does not name.
Orphans(entries) == {f \in coverFiles : entries[f[1]].file # f[2]}

\* Mutant: the files go before the manifest that no longer names them is on disk.
SettleDeletingFirst ==
  /\ sweepStep = "ask" /\ (found.cut \/ found.targets = {})
  /\ IF ~found.answered THEN shown' = UriMap(found.entries) /\ Finish /\ UNCHANGED coverFiles
     ELSE /\ found' = IF found.cut THEN [found EXCEPT !.then = "publish"]
                     ELSE [found EXCEPT !.entries = Pruned, !.then = "publish"]
          /\ coverFiles' = IF found.cut THEN coverFiles ELSE coverFiles \ Orphans(Pruned)
          /\ sweepStep' = "clear" /\ UNCHANGED <<tasks, shown>>
  /\ UNCHANGED <<manifest, spare, inbox, prefetch, world, passes, kills>>

\* settleCoverSweep: nothing answered changes nothing; a pass cut off is persisted; one
\* answered to the end drops the inactive animes, and the files nobody names any more.
Settle ==
  /\ sweepStep = "ask" /\ (found.cut \/ found.targets = {})
  /\ IF ~found.answered THEN shown' = UriMap(found.entries) /\ Finish
     ELSE /\ found' = IF found.cut THEN [found EXCEPT !.then = "publish"]
                     ELSE [found EXCEPT !.entries = Pruned, !.then = "delete"]
          /\ sweepStep' = "clear" /\ UNCHANGED <<tasks, shown>>
  /\ UNCHANGED <<store, inbox, prefetch, world, passes, kills>>

DeleteOrphans ==
  /\ sweepStep = "delete" /\ coverFiles' = coverFiles \ Orphans(found.entries)
  /\ sweepStep' = "publish"
  /\ UNCHANGED <<manifest, spare, inbox, prefetch, tasks, found, shown, world, passes, kills>>

Publish ==
  /\ sweepStep = "publish" /\ shown' = UriMap(found.entries) /\ Finish
  /\ UNCHANGED <<store, inbox, prefetch, world, passes, kills>>

----------------------------------------------------------------------------
(* The native prefetch, and what happens to the covers from outside.       *)

\* An active anime the manifest file does not know and that has no sidecar yet; a manifest
\* that is missing knows nobody.
PrefetchStarts(a) ==
  /\ prefetch = NoPrefetch /\ a \in active /\ source[a] # 0 /\ served[a] # 0
  /\ manifest = NoCopy \/ manifest[a] = NoEntry
  /\ inbox[a].sidecar = 0
  /\ prefetch' = [anime |-> a, image |-> served[a], source |-> source[a]]
  /\ UNCHANGED <<store, inbox, tasks, sweepStep, found, shown, world, passes, kills>>

\* The image is renamed into place first, the sidecar last.
PrefetchImage(a) ==
  /\ prefetch.anime = a /\ inbox[a].image # prefetch.image
  /\ inbox' = [inbox EXCEPT ![a].image = prefetch.image]
  /\ UNCHANGED <<store, prefetch, tasks, sweepStep, found, shown, world, passes, kills>>
PrefetchSidecar(a) ==
  /\ prefetch.anime = a /\ inbox[a].image = prefetch.image
  /\ inbox' = [inbox EXCEPT ![a].sidecar = prefetch.image, ![a].source = prefetch.source]
  /\ prefetch' = NoPrefetch
  /\ UNCHANGED <<store, tasks, sweepStep, found, shown, world, passes, kills>>
PrefetchEnds ==
  /\ prefetch # NoPrefetch /\ prefetch' = NoPrefetch
  /\ UNCHANGED <<store, inbox, tasks, sweepStep, found, shown, world, passes, kills>>

\* The app's process dies: memory is gone, the disk stays.
AppDies ==
  /\ kills < MaxKill /\ kills' = kills + 1
  /\ tasks' = <<>> /\ sweepStep' = "idle" /\ found' = NothingFound
  /\ shown' = [a \in CoverAnimes |-> 0]
  /\ UNCHANGED <<store, inbox, prefetch, world, passes>>

WorldChanges == changes < MaxChange /\ changes' = changes + 1

\* The image is replaced at its path, or the file is moved on the PC.
ImageChanges(a) ==
  /\ WorldChanges
  /\ served[a] # 0
  /\ \E image \in {0} \cup {v \in Versions : v = served[a] + 1} : served' = [served EXCEPT ![a] = image]
  /\ UNCHANGED <<store, inbox, prefetch, tasks, sweepStep, found, shown, source, active, passes, kills>>

\* The user edits or removes the cover; the row arrives changed.
CoverEdited(a) ==
  /\ WorldChanges
  /\ source[a] = 1 /\ source' = [source EXCEPT ![a] = IF served[a] = 0 THEN 0 ELSE 2]
  /\ UNCHANGED <<store, inbox, prefetch, tasks, sweepStep, found, shown, served, active, passes, kills>>

AnimeLeavesOrReturns(a) ==
  /\ WorldChanges
  /\ active' = IF a \in active THEN active \ {a} ELSE active \cup {a}
  /\ UNCHANGED <<store, inbox, prefetch, tasks, sweepStep, found, shown, source, served, passes, kills>>

\* A file is taken from outside, between two tasks.
FileVanishes ==
  /\ sweepStep = "idle" /\ coverFiles # {} /\ kills < MaxKill /\ kills' = kills + 1
  /\ \E f \in coverFiles : coverFiles' = coverFiles \ {f}
  /\ UNCHANGED <<manifest, spare, inbox, prefetch, tasks, sweepStep, found, shown, world, passes>>

CoverNext ==
  \/ RequestHydrate \/ \E t \in {"sweep", "forced"} : RequestSweep(t)
  \/ TakeTask \/ AdoptInbox \/ Discard
  \/ ClearSpare \/ FillSpare \/ DropManifest \/ MoveSpare \/ WriteFails
  \/ SelectTargets \/ Settle \/ DeleteOrphans \/ Publish \/ PrefetchEnds \/ AppDies \/ FileVanishes
  \/ \E a \in CoverAnimes :
       \/ \E k \in {"image", "not_modified", "absent", "unknown", "transient"} : Answer(a, k)
       \/ CutOff(a) \/ PrefetchStarts(a) \/ PrefetchImage(a) \/ PrefetchSidecar(a)
       \/ ImageChanges(a) \/ CoverEdited(a) \/ AnimeLeavesOrReturns(a)

CoverSpec == CoverInit /\ [][CoverNext]_coverVars

----------------------------------------------------------------------------
(* Properties.                                                             *)

HasCover(a) == Readable[a].file # 0 /\ <<a, Readable[a].file>> \in coverFiles

\* A cover never stops loading: once the manifest on disk names a file that is there, a
\* restart at any moment finds one for the anime, unless the anime left the list or its
\* source changed when the pass read them (settleCoverSweep and resolveAbsentEntry).  The
\* exception is a manifest that already is only in the temp file, which the next write
\* deletes first.
CoverStays ==
  [][\A a \in CoverAnimes :
       HasCover(a) /\ manifest # NoCopy /\ sweepStep # "idle" /\ ~HasCover(a)' =>
         found.answered /\ (a \notin found.wanted \/ found.asked[a] # Readable[a].source)]_coverVars

============================================================================
