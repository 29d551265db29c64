------------------------------ MODULE SafeRead ------------------------------
(***************************************************************************)
(* How the files of a package are read while its own scripts write them    *)
(* (backend/app/portable_file_io.py): the identities of the directory and  *)
(* of the file are taken before the file is opened, by its handle before   *)
(* and after the read, and by its path after it.                           *)
(*                                                                         *)
(* A file has two halves, which are read, and rewritten in place, one      *)
(* after the other; every write moves its time of modification.            *)
(***************************************************************************)
EXTENDS Naturals, Sequences

CONSTANTS Retries,      \* retries of safe_read_bytes
          MaxWrites     \* bound on what the scripts do to the file

ASSUME RetriesAssumption == Retries \in Nat

VARIABLES
  folder,     \* the identity of the directory
  here,       \* the file its path names, 0 if there is none
  files,      \* files ever made: their halves and the time of modification
  read,       \* the read under way
  writes

readVars == <<folder, here, files, read, writes>>

NoRead == [pc |-> "parents", try |-> 0, folder |-> 0, file |-> 0, stamp |-> 0, open |-> 0,
           one |-> 0, two |-> 0, named |-> <<0, 0>>]

ReadInit ==
  /\ folder = 1
  /\ \/ here = 0 /\ files = <<>>
     \/ here = 1 /\ files = <<[one |-> 0, two |-> 0, stamp |-> 0]>>
  /\ read = NoRead
  /\ writes = 0

At(pc) == read' = [read EXCEPT !.pc = pc]

\* Something moved under the read: the next attempt, or an error.
Again == read' = IF read.try < Retries THEN [NoRead EXCEPT !.try = read.try + 1]
                 ELSE [read EXCEPT !.pc = "refused"]

Quiet == UNCHANGED <<folder, here, files, writes>>

\* _snapshot_ancestors
SnapParents ==
  /\ read.pc = "parents"
  /\ read' = [read EXCEPT !.pc = "file", !.folder = folder]
  /\ Quiet

\* _snapshot_file; a file that is missing is looked for again once the
\* directory proves to be the same.
SnapFile ==
  /\ read.pc = "file"
  /\ read' = IF here = 0 THEN [read EXCEPT !.pc = "missing"]
             ELSE [read EXCEPT !.pc = "open", !.file = here, !.stamp = files[here].stamp]
  /\ Quiet

Missing ==
  /\ read.pc = "missing"
  /\ IF folder = read.folder THEN At("absent") ELSE Again
  /\ Quiet

Absent ==
  /\ read.pc = "absent"
  /\ IF here = 0 THEN At("none") ELSE Again
  /\ Quiet

\* The handle, once opened, must be the file that was looked at.
OpenFile ==
  /\ read.pc = "open"
  /\ IF here = read.file /\ files[here].stamp = read.stamp
     THEN read' = [read EXCEPT !.pc = "one", !.open = here] ELSE Again
  /\ Quiet

ReadOne ==
  /\ read.pc = "one"
  /\ read' = [read EXCEPT !.pc = "two", !.one = files[read.open].one]
  /\ Quiet

ReadTwo ==
  /\ read.pc = "two"
  /\ read' = [read EXCEPT !.pc = "handle", !.two = files[read.open].two]
  /\ Quiet

\* Mutant: the time of modification is not looked at after the read.
SameFile(f, s) == f = read.file

\* _snapshot_handle after the read, and _snapshot_file
SameRead(f, s) == f = read.file /\ s = read.stamp

CheckHandle ==
  /\ read.pc = "handle"
  /\ IF SameRead(read.open, files[read.open].stamp) THEN At("path") ELSE Again
  /\ Quiet

\* Mutant: the path is not looked at after the read.
PathTrusted == TRUE

PathUnchanged == here # 0 /\ SameRead(here, files[here].stamp)

CheckPath ==
  /\ read.pc = "path"
  /\ IF PathUnchanged
     THEN LET names == IF here = 0 THEN <<0, 0>> ELSE <<files[here].one, files[here].two>>
          IN read' = [read EXCEPT !.pc = "again", !.named = names]
     ELSE Again
  /\ Quiet

\* _verify_ancestors
CheckParents ==
  /\ read.pc = "again"
  /\ IF folder = read.folder THEN At("bytes") ELSE Again
  /\ Quiet

-----------------------------------------------------------------------------
\* What the scripts of the package do: a file is replaced as a whole, or
\* rewritten in place, or removed; the directory is replaced by another.
Write ==
  /\ writes < MaxWrites
  /\ writes' = writes + 1
  /\ UNCHANGED read

Fresh == [one |-> writes + 1, two |-> writes + 1, stamp |-> writes + 1]

Replace ==
  /\ Write
  /\ files' = Append(files, Fresh)
  /\ here' = Len(files) + 1
  /\ UNCHANGED folder

Rewrite(half) ==
  /\ Write
  /\ here # 0
  /\ files' = [files EXCEPT ![here] = [@ EXCEPT ![half] = writes + 1, !.stamp = writes + 1]]
  /\ UNCHANGED <<folder, here>>

Unlink ==
  /\ Write
  /\ here' = 0
  /\ UNCHANGED <<folder, files>>

SwapFolder ==
  /\ Write
  /\ folder' = folder + 1
  /\ \E f \in 0..1 : IF f = 0 THEN here' = 0 /\ UNCHANGED files
                     ELSE files' = Append(files, Fresh) /\ here' = Len(files) + 1

ReadStep ==
  \/ SnapParents \/ SnapFile \/ Missing \/ Absent \/ OpenFile \/ ReadOne \/ ReadTwo
  \/ CheckHandle \/ CheckPath \/ CheckParents

ReadNext ==
  \/ ReadStep
  \/ Replace \/ Unlink \/ SwapFolder
  \/ \E half \in {"one", "two"} : Rewrite(half)

ReadSpec == ReadInit /\ [][ReadNext]_readVars

-----------------------------------------------------------------------------
\* What a read returns is what the path named, both halves of it, when the
\* path was looked at last: never half of one version and half of another
\* because the file was rewritten under the read, and never a version that
\* was replaced meanwhile.
ReadIsCurrent ==
  read.pc \in {"again", "bytes"} => <<read.one, read.two>> = read.named
=============================================================================
