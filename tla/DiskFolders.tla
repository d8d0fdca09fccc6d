---------------------------- MODULE DiskFolders ----------------------------
(***************************************************************************)
(* The folder tree of an object on Bitrix24 Disk                           *)
(* (file-storage/bitrix-disk-folders.ts).  A level of the tree is mapped   *)
(* to a folder by a row that is committed with the upload it was made for, *)
(* while the folder itself is there at once and stays after a rollback.    *)
(* People may delete folders in Disk at any time.                          *)
(***************************************************************************)
EXTENDS Integers, FiniteSets, SequencesExt

CONSTANTS
  Writers,   \* uploads that run at the same time, each in its transaction
  Depth,     \* bound: levels of the chain, from the first below the storage's root
  MaxFolders \* bound: folders ever made

\* What the constants satisfy.
FoldersAssumption == Depth \in Nat \ {0} /\ MaxFolders \in Nat

VARIABLES
  folders, \* folders on Disk in the order of their ids
  mapping, \* storage_folder_mappings: [Levels -> folder or Unmapped], committed
  writers  \* [Writers -> Writer]

vars == <<folders, mapping, writers>>

Levels == 1..Depth
Unmapped == 0
Root == 0
Untouched == -1
Folder == [level : Levels, parent : 0..MaxFolders, live : BOOLEAN]

Idle == [phase |-> "idle", level |-> 1, parent |-> Root, have |-> [l \in Levels |-> Unmapped],
         own |-> [l \in Levels |-> Untouched], locks |-> {}, healed |-> FALSE]
In(w, phase) == writers[w].phase = phase
Level(w) == writers[w].level
Live(f) == f = Root \/ (f \in DOMAIN folders /\ folders[f].live)

Init ==
  /\ folders = <<>>
  /\ mapping = [l \in Levels |-> Unmapped]
  /\ writers = [w \in Writers |-> Idle]

-----------------------------------------------------------------------------
\* What a transaction reads: its own rows over the committed ones.
Over(w) ==
  [l \in Levels |-> IF writers[w].own[l] = Untouched THEN mapping[l] ELSE writers[w].own[l]]

\* pg_advisory_xact_lock of one scope, and the key of its row.
\* Mutated form: creators of a scope are not serialised.
AnyScope(w, l) == TRUE
ScopeIsFree(w, l) == \A v \in Writers \ {w} : l \notin writers[v].locks
RowIsFree(w, l) == \A v \in Writers \ {w} : writers[v].own[l] = Untouched

\* findFolder: the live child of the level with the lowest id.
Children(parent, l) ==
  {f \in DOMAIN folders : folders[f].live /\ folders[f].level = l /\ folders[f].parent = parent}
Found(w) == Children(writers[w].parent, Level(w))
Lowest(ids) == CHOOSE f \in ids : \A g \in ids : f <= g

\* The level is settled: the next one below it.
Down(w, folder) ==
  [writers[w] EXCEPT !.phase = "resolving", !.level = @ + 1, !.parent = folder]
\* INSERT ... ON CONFLICT DO NOTHING, and the row that is there afterwards.
Mapped(w, folder) ==
  LET l == Level(w)
      stored == IF Over(w)[l] = Unmapped THEN folder ELSE Over(w)[l] IN
    IF Over(w)[l] = Unmapped THEN [Down(w, stored) EXCEPT !.own[l] = stored] ELSE Down(w, stored)

Become(w, next) == writers' = [writers EXCEPT ![w] = next]

-----------------------------------------------------------------------------
Begin(w) ==
  /\ In(w, "idle")
  /\ Become(w, [Idle EXCEPT !.phase = "resolving", !.have = mapping])
  /\ UNCHANGED <<folders, mapping>>

\* resolve: a level that was mapped when the transaction looked.
Descend(w) ==
  /\ In(w, "resolving") /\ Level(w) \in Levels
  /\ writers[w].have[Level(w)] # Unmapped
  /\ Become(w, Down(w, writers[w].have[Level(w)]))
  /\ UNCHANGED <<folders, mapping>>

\* createLevel: under the lock of the scope another one's row may be there now.
LockScope(w) ==
  LET l == Level(w) locked == [writers[w] EXCEPT !.locks = @ \cup {l}] IN
    /\ In(w, "resolving") /\ l \in Levels /\ writers[w].have[l] = Unmapped
    /\ ScopeIsFree(w, l)
    /\ Become(w, IF Over(w)[l] = Unmapped
                 THEN [locked EXCEPT !.phase = "finding"]
                 ELSE [locked EXCEPT !.level = @ + 1, !.parent = Over(w)[l]])
    /\ UNCHANGED <<folders, mapping>>

\* ensureFolder: adopt, or make.
Find(w) ==
  /\ In(w, "finding") /\ Live(writers[w].parent)
  /\ IF Found(w) = {}
     THEN Become(w, [writers[w] EXCEPT !.phase = "adding"])
     ELSE RowIsFree(w, Level(w)) /\ Become(w, Mapped(w, Lowest(Found(w))))
  /\ UNCHANGED <<folders, mapping>>

NewFolder(w) == [level |-> Level(w), parent |-> writers[w].parent, live |-> TRUE]
AddFolder(w) ==
  /\ In(w, "adding") /\ Live(writers[w].parent) /\ Len(folders) < MaxFolders
  /\ folders' = Append(folders, NewFolder(w))
  /\ \/ RowIsFree(w, Level(w)) /\ Become(w, Mapped(w, Len(folders) + 1))
     \/ Become(w, [writers[w] EXCEPT !.phase = "unanswered"])
  /\ UNCHANGED mapping

\* The answer was lost: look again.
FindAgain(w) ==
  /\ In(w, "unanswered") /\ Found(w) # {} /\ RowIsFree(w, Level(w))
  /\ Become(w, Mapped(w, Lowest(Found(w))))
  /\ UNCHANGED <<folders, mapping>>

Upload(w) ==
  /\ In(w, "resolving") /\ Level(w) = Depth + 1 /\ Live(writers[w].parent)
  /\ Become(w, [writers[w] EXCEPT !.phase = "uploaded"])
  /\ UNCHANGED <<folders, mapping>>

\* The upload failed because its folder is gone: dropMissing, once.
BeginDrop(w) ==
  /\ In(w, "resolving") /\ Level(w) = Depth + 1 /\ ~Live(writers[w].parent)
  /\ ~writers[w].healed
  /\ Become(w, [writers[w] EXCEPT !.phase = "dropping", !.level = Depth, !.have = Over(w)])
  /\ UNCHANGED <<folders, mapping>>

\* From the leaf up, rows of folders that are gone are deleted by their scope:
\* the row may name another folder by now, and a statement that waited for the
\* one who replaced it finds nothing to delete.
Drop(w) ==
  LET l == Level(w)
      was == writers[w].have[l]
      up == [writers[w] EXCEPT !.level = @ - 1]
      now == Over(w)[l] IN
    /\ In(w, "dropping") /\ l \in Levels
    /\ \/ was = Unmapped /\ Become(w, up)
       \/ /\ ~Live(was) /\ RowIsFree(w, l)
          /\ \/ now # Unmapped /\ Become(w, [up EXCEPT !.own[l] = Unmapped])
             \/ now # was /\ Become(w, up)
    /\ UNCHANGED <<folders, mapping>>

\* The first folder that is there ends it, and the chain is resolved again.
AllLooked(w) ==
  LET l == Level(w) IN
    l \in Levels => writers[w].have[l] # Unmapped /\ Live(writers[w].have[l])
EndDrop(w) ==
  /\ In(w, "dropping") /\ AllLooked(w)
  /\ Become(w, [writers[w] EXCEPT !.phase = "resolving", !.level = 1, !.parent = Root,
                  !.have = Over(w), !.healed = TRUE])
  /\ UNCHANGED <<folders, mapping>>

Commit(w) ==
  /\ In(w, "uploaded")
  /\ mapping' = Over(w)
  /\ Become(w, Idle)
  /\ UNCHANGED folders

\* A refusal, a lost answer, a deadlock, a crash.
Abort(w) ==
  /\ ~In(w, "idle")
  /\ Become(w, Idle)
  /\ UNCHANGED <<folders, mapping>>

\* Somebody deletes a folder in Disk, with everything below it.
RECURSIVE Below(_)
Below(f) ==
  {f} \cup UNION {Below(g) : g \in {h \in DOMAIN folders : folders[h].parent = f}}
DeleteFolder(f) ==
  /\ folders[f].live
  /\ folders' = [g \in DOMAIN folders |->
                   IF g \in Below(f) THEN [folders[g] EXCEPT !.live = FALSE] ELSE folders[g]]
  /\ UNCHANGED <<mapping, writers>>

Next ==
  \/ \E w \in Writers :
       \/ Begin(w) \/ Descend(w) \/ LockScope(w) \/ Find(w) \/ AddFolder(w) \/ FindAgain(w)
       \/ Upload(w) \/ BeginDrop(w) \/ Drop(w) \/ EndDrop(w) \/ Commit(w) \/ Abort(w)
  \/ \E f \in DOMAIN folders : DeleteFolder(f)

Spec == Init /\ [][Next]_vars

-----------------------------------------------------------------------------
\* Every variable keeps its shape.
TypeOK ==
  /\ folders \in Seq(Folder) /\ Len(folders) <= MaxFolders
  /\ mapping \in [Levels -> 0..MaxFolders]

\* First uploads, repeated or concurrent, rolled back or without an answer,
\* converge on one tree: no folder has a live twin (bitrix-disk-folders.ts:25-26).
TreeIsOne ==
  \A f \in DOMAIN folders : folders[f].live =>
    Children(folders[f].parent, folders[f].level) = {f}

\* The row of a folder that is there is not turned to another folder, also when
\* somebody drops it for the one it replaced (bitrix-disk-folders.ts:140).
LiveRowsStay ==
  \A l \in Levels : mapping[l] # Unmapped /\ Live(mapping[l]) => mapping'[l] = mapping[l]

\* A mapped folder that is there lies in the folder its parent level is mapped to.
TreeIsMapped ==
  \A l \in Levels : mapping[l] # Unmapped /\ Live(mapping[l]) =>
    folders[mapping[l]].parent = (IF l = 1 THEN Root ELSE mapping[l-1])

\* First uploads converge on one tree under its mapped folders, and a folder
\* that is there keeps its row while others recreate the deleted ones
\* (bitrix-disk-folders.ts:25-26, 123-145).
FoldersConverge ==
  /\ [](TypeOK /\ TreeIsOne /\ TreeIsMapped)
  /\ [][LiveRowsStay]_vars
=============================================================================
