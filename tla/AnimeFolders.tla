---------------------------- MODULE AnimeFolders ----------------------------
(* The folders of the animes on the tablet: the index of a chosen root, the *)
(* walk that builds it, and the probes that find a folder which arrives    *)
(* after its anime.  A folder is its path below the root, a sequence of    *)
(* names; a name is a number.  Uris, labels, files, hidden folders, and    *)
(* which of the indexed folders an anime's button opens are left out.      *)
EXTENDS Integers, Sequences, FiniteSets, FiniteSetsExt

CONSTANTS
  FolderRoots,     \* the roots the user may pick
  MaxName,         \* bound: names
  WalkDepth,       \* ANIME_FOLDERS_MAX_DEPTH
  MaxAppear,       \* bound: folders that appear
  MaxWalk          \* bound: walks

ASSUME FoldersAssumption ==
  /\ IsFiniteSet(FolderRoots) /\ MaxName \in Nat \ {0} /\ WalkDepth \in Nat \ {0}
  /\ MaxAppear \in Nat /\ MaxWalk \in Nat

VARIABLES
  tree,        \* the folders on disk of every root
  readable,    \* the roots whose grant and card are there
  wanted,      \* the bridge path of the pending anime
  root,        \* state.rootUri, "none" before one is known
  status,      \* state.status
  index,       \* state.index, or NoIndex
  walks,       \* the runs under way, by id: their root, frontier and findings
  sharedWalk,    \* the run callers share, 0 for none
  probe,       \* the root and listings of a probe under way
  appeared     \* counts towards MaxAppear

foldersVars ==
  <<tree, readable, wanted, root, status, index, walks, sharedWalk, probe, appeared>>

FolderNames == 1 .. MaxName
Paths == UNION {[1 .. n -> FolderNames] : n \in 1 .. WalkDepth + 1}
NoIndex == {<<>>}
NoWalk == [root |-> "none", depth |-> 0, level |-> {}, found |-> {}]
NoProbe == [root |-> "none", at |-> {}]
WalkIds == 1 .. MaxWalk

FoldersTypeOK ==
  /\ tree \in [FolderRoots -> SUBSET Paths] /\ readable \subseteq FolderRoots
  /\ wanted \in Paths
  /\ root \in FolderRoots \cup {"none"} /\ status \in {"idle", "indexing", "ready", "lost"}
  /\ (index = NoIndex \/ index \subseteq Paths) /\ (status = "ready" => index # NoIndex)
  /\ \A w \in WalkIds : /\ walks[w].root \in FolderRoots \cup {"none", "over"}
                        /\ walks[w].depth \in 0 .. WalkDepth
                        /\ walks[w].found \subseteq Paths
  /\ sharedWalk \in 0 .. MaxWalk /\ (sharedWalk # 0 => walks[sharedWalk].root \in FolderRoots)
  /\ probe.root \in FolderRoots \cup {"none"}
  /\ appeared \in 0 .. MaxAppear

FoldersInit ==
  /\ tree = [r \in FolderRoots |-> {}] /\ readable = FolderRoots
  /\ wanted \in Paths
  /\ root = "none" /\ status = "idle" /\ index = NoIndex
  /\ walks = [w \in WalkIds |-> NoWalk] /\ sharedWalk = 0
  /\ probe = NoProbe /\ appeared = 0

----------------------------------------------------------------------------
(* Matching.                                                               *)

Ending(path, n) == SubSeq(path, Len(path) - n + 1, Len(path))
Shared(p, q) == Min({Len(p), Len(q)})
Related(p, q) == Ending(p, Shared(p, q)) = Ending(q, Shared(p, q))

\* matchByPath: the longest shared tail wins, a tie leaves several.
MatchByPath(folders, path) ==
  LET related == {f \in folders : path # <<>> /\ Related(f, path)}
  IN  {f \in related : \A g \in related : Shared(g, path) <= Shared(f, path)}

Named(folders, name) == {f \in folders : f[Len(f)] = name}

\* Mutant: the deepest folders the walk reaches are probed like any other.
ExpectedAtAnyDepth(folders, path) ==
  IF path = <<>> \/ Named(folders, path[Len(path)]) # {} THEN {}
  ELSE LET known == {d \in 1 .. Len(path) - 1 : MatchByPath(folders, SubSeq(path, 1, d)) # {}}
           parents == MatchByPath(folders, SubSeq(path, 1, Max(known)))
       IN  IF known = {} THEN {<<path[1]>>}
           ELSE {Append(f, path[Max(known) + 1]) :
                   f \in {g \in parents : Cardinality(parents) = 1}}

\* findExpectedFolder: where the folder of a pending anime would appear, if a new walk would
\* find it there.
Expected(folders, path) ==
  IF path = <<>> \/ Named(folders, path[Len(path)]) # {} THEN {}
  ELSE LET known == {d \in 1 .. Len(path) - 1 : MatchByPath(folders, SubSeq(path, 1, d)) # {}}
           parents == MatchByPath(folders, SubSeq(path, 1, Max(known)))
       IN  IF known = {} THEN {<<path[1]>>}
           ELSE {Append(f, path[Max(known) + 1]) :
                   f \in {g \in parents : Cardinality(parents) = 1 /\ Len(g) < WalkDepth}}

\* walkFolderTree of a tree that holds still.
Walked(folders) == {f \in folders : Len(f) <= WalkDepth}

----------------------------------------------------------------------------
(* The store.                                                              *)

\* runIndex begins: a root that cannot be read is lost at once.
StartWalk(r, aside) ==
  IF r \notin readable
  THEN /\ status' = "lost" /\ index' = NoIndex /\ sharedWalk' = 0 /\ UNCHANGED walks
  ELSE \E w \in WalkIds :
         /\ walks[w] = NoWalk /\ \A v \in 1 .. w - 1 : walks[v] # NoWalk
         /\ walks' = [walks EXCEPT ![w] = [NoWalk EXCEPT !.root = r, !.level = {<<>>}]]
         /\ sharedWalk' = w /\ status' = "indexing" /\ index' = aside

\* indexAnimeFolders.
IndexFolders(r, force) ==
  LET known == IF root = r THEN index ELSE NoIndex
      was == IF root = r THEN status ELSE "idle"
  IN  /\ root' = r
      /\ CASE sharedWalk # 0 /\ walks[sharedWalk].root = r ->
                /\ status' = IF was = "idle" THEN "indexing" ELSE was
                /\ index' = known /\ UNCHANGED <<walks, sharedWalk>>
           [] ~(sharedWalk # 0 /\ walks[sharedWalk].root = r) /\ was # "idle" /\ ~force ->
                status' = was /\ index' = known /\ UNCHANGED <<walks, sharedWalk>>
           [] OTHER -> StartWalk(r, known)

outside == <<tree, readable, wanted, appeared>>

\* chooseRoot and reindex force a walk; the effect of a mounted screen does not.
IndexRequested(r, force) ==
  /\ ~force => root \in {"none", r}
  /\ IndexFolders(r, force)
  /\ UNCHANGED <<probe, outside>>

Ended(w) ==
  /\ walks' = [walks EXCEPT ![w] = [NoWalk EXCEPT !.root = "over"]]
  /\ sharedWalk' = IF sharedWalk = w THEN 0 ELSE sharedWalk

\* One level is listed; the levels below are known only then.
ListLevel(w) ==
  /\ walks[w].root \in readable /\ walks[w].depth < WalkDepth
  /\ LET children == {f \in tree[walks[w].root] :
                        SubSeq(f, 1, Len(f) - 1) \in walks[w].level}
     IN  walks' = [walks EXCEPT ![w].depth = @ + 1, ![w].level = children,
                                ![w].found = @ \cup children]
  /\ UNCHANGED <<root, status, index, sharedWalk, probe, outside>>

\* The walk is over: its result is published unless the root changed meanwhile.
WalkPublishes(w) ==
  /\ walks[w].root \in FolderRoots /\ walks[w].depth = WalkDepth
  /\ IF root = walks[w].root THEN status' = "ready" /\ index' = walks[w].found
     ELSE UNCHANGED <<status, index>>
  /\ Ended(w)
  /\ UNCHANGED <<root, probe, outside>>

\* A listing throws: access is lost.
WalkFails(w) ==
  /\ walks[w].root \in FolderRoots \ readable /\ walks[w].depth < WalkDepth
  /\ IF root = walks[w].root THEN status' = "lost" /\ index' = NoIndex
     ELSE UNCHANGED <<status, index>>
  /\ Ended(w)
  /\ UNCHANGED <<root, probe, outside>>

\* recheckAnimeFoldersAccess, when the app returns to the foreground.
RecheckAccess ==
  /\ root # "none" /\ sharedWalk = 0
  /\ \/ /\ root \notin readable /\ status # "lost" /\ status' = "lost" /\ index' = NoIndex
        /\ UNCHANGED <<root, walks, sharedWalk>>
     \/ root \in readable /\ status = "lost" /\ IndexFolders(root, TRUE)
  /\ UNCHANGED <<probe, outside>>

\* probeAnimeFolders: on an incoming event, or when the app returns.
ProbeStarts ==
  /\ probe = NoProbe /\ root # "none" /\ index # NoIndex /\ sharedWalk = 0
  /\ Expected(index, wanted) # {}
  /\ probe' = [root |-> root, at |-> Expected(index, wanted)]
  /\ UNCHANGED <<root, status, index, walks, sharedWalk, outside>>

\* The listing answers, one that fails with nothing; only a hit of the same root walks again.
ProbeAnswers ==
  /\ probe # NoProbe /\ probe' = NoProbe
  /\ IF probe.root \in readable /\ probe.at \cap tree[probe.root] # {} /\ root = probe.root
     THEN IndexFolders(root, TRUE)
     ELSE UNCHANGED <<root, status, index, walks, sharedWalk>>
  /\ UNCHANGED outside

----------------------------------------------------------------------------
(* The device.                                                             *)

FolderAppears(r) ==
  /\ appeared < MaxAppear /\ appeared' = appeared + 1
  /\ \E f \in Paths \ tree[r] :
       /\ Len(f) = 1 \/ SubSeq(f, 1, Len(f) - 1) \in tree[r]
       /\ tree' = [tree EXCEPT ![r] = @ \cup {f}]
  /\ UNCHANGED <<readable, wanted, root, status, index, walks, sharedWalk, probe>>

\* The card is pulled or the grant revoked, and comes back.
AccessChanges(r) ==
  /\ readable' = IF r \in readable THEN readable \ {r} ELSE readable \cup {r}
  /\ UNCHANGED <<tree, wanted, root, status, index, walks, sharedWalk, probe, appeared>>

FoldersNext ==
  \/ RecheckAccess \/ ProbeStarts \/ ProbeAnswers
  \/ \E r \in FolderRoots : \/ \E force \in BOOLEAN : IndexRequested(r, force)
                            \/ FolderAppears(r) \/ AccessChanges(r)
  \/ \E w \in WalkIds : ListLevel(w) \/ WalkPublishes(w) \/ WalkFails(w)

FoldersSpec == FoldersInit /\ [][FoldersNext]_foldersVars

----------------------------------------------------------------------------
(* Properties.                                                             *)

\* Once a walk saw the tree as it is, no probe hits: a hit walks the whole tree again, which
\* must find the folder, or every event would walk it for nothing (findExpectedFolder, "a
\* hit there would re-walk the whole tree on every event and still find nothing").
ProbesConverge ==
  (root # "none" /\ index = Walked(tree[root])) =>
    Expected(index, wanted) \cap tree[root] = {}

============================================================================
