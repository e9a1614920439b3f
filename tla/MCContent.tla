----------------------------- MODULE MCContent -----------------------------
(* What the app keeps, side by side: the animes that remote changes are     *)
(* merged into, the diagnostics outbox, the chapter buttons, the covers,    *)
(* the folders and the row of the sync status.  They are modelled without   *)
(* shared state, so every behaviour is one of a single component, which its *)
(* first state chooses; where the others start does not matter and is       *)
(* fixed.                                                                   *)
EXTENDS RemoteMerge, DiagnosticsOutbox, ChapterActions,
        CoverSweep, AnimeFolders, RuntimeStatus

VARIABLE kept    \* the component whose behaviour this is

contentVars == <<kept, vars, diagnosticsVars, chapterVars, coverVars, foldersVars, statusVars>>

ContentInit ==
  /\ kept \in {"merge", "diagnostics", "chapter", "cover", "folders", "status"}
  /\ Init /\ DiagnosticsInit /\ ChapterInit /\ CoverInit /\ FoldersInit
  /\ StatusInit /\ (kept # "status" => releasing = 0)
  /\ kept # "merge" => feed = <<>>
  /\ kept # "chapter" => row = [seen |-> 0, estado |-> 0]
  /\ kept # "folders" => wanted = <<1>>

ContentNext ==
  /\ UNCHANGED kept
  /\ \/ /\ kept = "merge" /\ Next
        /\ UNCHANGED <<diagnosticsVars, chapterVars, coverVars, foldersVars, statusVars>>
     \/ /\ kept = "diagnostics" /\ DiagnosticsNext
        /\ UNCHANGED <<vars, chapterVars, coverVars, foldersVars, statusVars>>
     \/ /\ kept = "chapter" /\ ChapterNext
        /\ UNCHANGED <<vars, diagnosticsVars, coverVars, foldersVars, statusVars>>
     \/ /\ kept = "cover" /\ CoverNext
        /\ UNCHANGED <<vars, diagnosticsVars, chapterVars, foldersVars, statusVars>>
     \/ /\ kept = "folders" /\ FoldersNext
        /\ UNCHANGED <<vars, diagnosticsVars, chapterVars, coverVars, statusVars>>
     \/ /\ kept = "status" /\ StatusNext
        /\ UNCHANGED <<vars, diagnosticsVars, chapterVars, coverVars, foldersVars>>

ContentSpec == ContentInit /\ [][ContentNext]_contentVars

\* The state of every component is of its type; an action of a chapter button is reported
\* with one verdict, and `committed` only when its write is (chapter-action-diagnostics).
ContentTypeOK ==
  /\ TypeOK /\ DiagnosticsTypeOK /\ ChapterTypeOK /\ CoverTypeOK /\ FoldersTypeOK
  /\ StatusTypeOK

============================================================================
