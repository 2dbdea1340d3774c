----------------------------- MODULE ZlogFiles -----------------------------
(***************************************************************************)
(* How rotater.c numbers and moves the archives of a log file.             *)
(*                                                                         *)
(* A directory is a function from names to files: Base is the log file, a  *)
(* number n >= 0 the archive with index n.  What lsmv does is a plan, a    *)
(* sequence of unlink and rename calls that are made one after the other:  *)
(* the list of archives is read once, before the first of them.            *)
(***************************************************************************)
EXTENDS Integers, Sequences, SequencesExt, FiniteSets, FiniteSetsExt

Base == -1

(* zlog_rotater_add_archive_files: every archive glob finds, by index; the *)
(* base path is left out.                                                  *)
Archives(dir) == SetToSortSeq(DOMAIN dir \ {Base}, <)

Unlink(n) == [op |-> "unlink", from |-> n, to |-> n]
Rename(n, m) == [op |-> "rename", from |-> n, to |-> m]

(* zlog_rotater_roll_files: from the last position to the first, a file is *)
(* removed or moved to the number after its position, not its index.       *)
RollFiles(files, max) ==
  LET act(i) == IF max > 0 /\ i >= max - 1 THEN Unlink(files[i + 1]) ELSE Rename(files[i + 1], i + 1)
  IN  [k \in 1 .. Len(files) |-> act(Len(files) - k)] \o <<Rename(Base, 0)>>

(* zlog_rotater_seq_files: the surplus of the oldest goes, the log file    *)
(* gets a number no archive has.                                           *)
SeqFiles(files, max) ==
  LET surplus == IF max > 0 THEN {i \in 0 .. Len(files) - 1 : i < Len(files) - max} ELSE {}
      next    == IF files = << >> THEN 0 ELSE Max({Len(files) - 1, Last(files)}) + 1
  IN  [k \in 1 .. Cardinality(surplus) |-> Unlink(files[k])] \o <<Rename(Base, next)>>

Plan(dir, mv, max) ==
  IF mv = "r" THEN RollFiles(Archives(dir), max) ELSE SeqFiles(Archives(dir), max)

(* One call of the plan on the directory. *)
Possible(dir, step) == step.from \in DOMAIN dir
Apply(dir, step) ==
  LET rest == DOMAIN dir \ {step.from}
  IN  IF step.op = "unlink" THEN [n \in rest |-> dir[n]]
      ELSE [n \in rest \cup {step.to} |-> IF n = step.to THEN dir[step.from] ELSE dir[n]]

(* The file a rename puts away, if there is one. *)
Overwrites(dir, step) ==
  step.op = "rename" /\ step.to \in DOMAIN dir /\ step.to # step.from
=============================================================================
