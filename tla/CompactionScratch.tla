------------------------ MODULE CompactionScratch ------------------------
(***************************************************************************)
(* The files of compactions that run at the same time, one per overlay:    *)
(* each streams its tile data into a scratch file, copies that behind the  *)
(* directories into <archive>.pmtiles.tmp, and renames this over the       *)
(* archive.  The scratch file lies in a temporary directory named after    *)
(* the process and the archive's file stem; its own name is the same in    *)
(* every one of them.  A path may stop naming the file a compaction is     *)
(* still writing, and come to name another's.                              *)
(*                                                                         *)
(* If the process dies, the archives are what they are at that step.       *)
(***************************************************************************)
EXTENDS Naturals, Sequences

CONSTANTS
  Jobs,           \* compactions, of one overlay each
  Stem,           \* [Jobs -> file stem of the archive]
  Chunks,         \* writes it takes to stream a compaction's tile data
  Nothing         \* no file; a hole in one

VARIABLES
  pc,             \* per job: "start", "stream", "copy", "rename", "remove", "drop" or "ended"
  fd,             \* the scratch file it has open: named by the job that created it
  pos,            \* its position in it, writing and then copying
  inode,          \* contents of the scratch files
  scratch,        \* [path -> the file it names]
  tmp,            \* <archive>.pmtiles.tmp: the tile data copied so far
  published       \* the tile data of the new archive; Nothing while the old one is there

scratchVars == <<pc, fd, pos, inode, scratch, tmp, published>>

\* the scratch directory is named after the process and the archive's stem
Scratch(j) == Stem[j]
Paths == {Scratch(j) : j \in Jobs}

Part(j, n) == [i \in 1 .. n |-> <<j, i>>]     \* the first n chunks of its tile data
Data(j) == Part(j, Chunks)

ScratchInit ==
  /\ pc = [j \in Jobs |-> "start"] /\ fd = [j \in Jobs |-> Nothing] /\ pos = [j \in Jobs |-> 0]
  /\ inode = [j \in Jobs |-> <<>>] /\ scratch = [p \in Paths |-> Nothing]
  /\ tmp = [j \in Jobs |-> Nothing] /\ published = [j \in Jobs |-> Nothing]

Goto(j, l) == pc' = [pc EXCEPT ![j] = l]

\* File::create: a new file, or the one of that name truncated
Create(j) ==
  /\ pc[j] = "start" /\ Goto(j, "stream")
  /\ LET f == IF scratch[Scratch(j)] = Nothing THEN j ELSE scratch[Scratch(j)] IN
       /\ fd' = [fd EXCEPT ![j] = f]
       /\ inode' = [inode EXCEPT ![f] = <<>>]
       /\ scratch' = [scratch EXCEPT ![Scratch(j)] = f]
  /\ UNCHANGED <<pos, tmp, published>>

\* at its own position, past a hole if the file was truncated under it
WrittenAt(s, p, c) ==
  [i \in 1 .. (IF p > Len(s) THEN p ELSE Len(s)) |->
     IF i = p THEN c ELSE IF i <= Len(s) THEN s[i] ELSE Nothing]

Stream(j) ==
  /\ pc[j] = "stream" /\ pos[j] < Chunks
  /\ inode' = [inode EXCEPT ![fd[j]] = WrittenAt(@, pos[j] + 1, <<j, pos[j] + 1>>)]
  /\ pos' = [pos EXCEPT ![j] = @ + 1]
  /\ UNCHANGED <<pc, fd, scratch, tmp, published>>

\* finish: the scratch file is opened again, by its name, to be read from the start
Reopen(j) ==
  /\ pc[j] = "stream" /\ pos[j] = Chunks /\ scratch[Scratch(j)] # Nothing
  /\ Goto(j, "copy")
  /\ fd' = [fd EXCEPT ![j] = scratch[Scratch(j)]]
  /\ pos' = [pos EXCEPT ![j] = 0]
  /\ tmp' = [tmp EXCEPT ![j] = <<>>]
  /\ UNCHANGED <<inode, scratch, published>>

CopyOut(j) ==
  /\ pc[j] = "copy"
  /\ \/ /\ pos[j] < Len(inode[fd[j]])
        /\ tmp' = [tmp EXCEPT ![j] = Append(@, inode[fd[j]][pos[j] + 1])]
        /\ pos' = [pos EXCEPT ![j] = @ + 1]
        /\ UNCHANGED pc
     \/ /\ pos[j] >= Len(inode[fd[j]])          \* end of file
        /\ Goto(j, "rename")
        /\ UNCHANGED <<pos, tmp>>
  /\ UNCHANGED <<fd, inode, scratch, published>>

Rename(j) ==
  /\ pc[j] = "rename" /\ Goto(j, "remove")
  /\ published' = [published EXCEPT ![j] = tmp[j]]
  /\ tmp' = [tmp EXCEPT ![j] = Nothing]
  /\ UNCHANGED <<fd, pos, inode, scratch>>

\* whatever file has that name by now
Removed(j) == scratch' = [scratch EXCEPT ![Scratch(j)] = Nothing]

RemoveScratch(j) ==
  /\ pc[j] = "remove" /\ Goto(j, "drop")
  /\ Removed(j)
  /\ UNCHANGED <<fd, pos, inode, tmp, published>>

\* Drop for PmtilesWriter, after an error as well
Drop(j) ==
  /\ pc[j] = "drop" /\ Goto(j, "ended")
  /\ Removed(j)
  /\ fd' = [fd EXCEPT ![j] = Nothing]
  /\ UNCHANGED <<pos, inode, tmp, published>>

\* without a scratch file there is no writer to drop; an error while streaming leaves no .tmp, one
\* while assembling removes it, one of the rename does not
GiveUp(j) ==
  /\ pc[j] \in {"start", "stream", "copy", "rename"}
  /\ Goto(j, IF pc[j] = "start" THEN "ended" ELSE "drop")
  /\ tmp' = [tmp EXCEPT ![j] = IF pc[j] = "rename" THEN @ ELSE Nothing]
  /\ UNCHANGED <<fd, pos, inode, scratch, published>>

ScratchNext == \E j \in Jobs :
  Create(j) \/ Stream(j) \/ Reopen(j) \/ CopyOut(j) \/ Rename(j) \/ RemoveScratch(j) \/ Drop(j) \/ GiveUp(j)

ScratchSpec == ScratchInit /\ [][ScratchNext]_scratchVars

(***************************************************************************)
(* Properties.                                                             *)
(***************************************************************************)
(***************************************************************************)
(* Every archive is the old one or the whole new one at every step, hence  *)
(* after a crash at any of them, and never holds another archive's data:   *)
(* compactions that run at the same time "never collide on the writer's    *)
(* scratch file".  (write.rs: new, add, finish, Drop; overlay.rs:          *)
(* compact_overlay_layer)  Archives of one name in two directories do.     *)
(***************************************************************************)
ArchivesAreWhole == \A j \in Jobs : published[j] \in {Nothing, Data(j)}

(***************************************************************************)
(* When a compaction has ended, in whichever way, its scratch file is gone.*)
(* (write.rs: finish, Drop)                                                *)
(***************************************************************************)
NoScratchIsLeft ==
  \A j \in Jobs : pc[j] = "ended" => scratch[Scratch(j)] # j
==========================================================================
