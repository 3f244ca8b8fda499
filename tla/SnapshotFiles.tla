---------------------------- MODULE SnapshotFiles ----------------------------
(***************************************************************************)
(* The directory of a snapshot: ParquetSnapshot.create of snapshots.py, as *)
(* run by several processes with the same content, which may be killed     *)
(* between any two steps and started again.  Its parts are written first   *)
(* and its manifest last, each by an exclusive creation.                   *)
(*                                                                         *)
(* Operators whose names begin with Slip are wrong variants of the         *)
(* definition below them and no part of the specification.                 *)
(***************************************************************************)
EXTENDS Naturals, Sequences

CONSTANTS
    Parts,      \* names of the data files, in the order in which they are written
    Creators,   \* the processes
    MaxStarts   \* bound: how often a process runs

Files == Append(Parts, "manifest")

ASSUME FilesAssumption ==
    /\ Parts \in Seq(STRING)
    /\ \A i, j \in DOMAIN Files : i # j => Files[i] # Files[j]
    /\ MaxStarts \in Nat

VARIABLES
    files,   \* absent, torn (created, its content not complete) or whole
    creator  \* each process: its step, the file it is at, how often it ran

filesVars == <<files, creator>>

FilesTypeOK ==
    /\ files \in [{Files[i] : i \in DOMAIN Files} -> {"absent", "torn", "whole"}]
    /\ creator \in [Creators -> [step: {"idle", "create", "write", "open", "done", "failed"},
                                 at: DOMAIN Files, starts: 0..MaxStarts]]

FilesInit ==
    /\ files = [f \in {Files[i] : i \in DOMAIN Files} |-> "absent"]
    /\ creator = [p \in Creators |-> [step |-> "idle", at |-> 1, starts |-> 0]]

Begin(p) ==
    /\ creator[p].step \in {"idle", "failed"} /\ creator[p].starts < MaxStarts
    /\ creator' = [creator EXCEPT ![p] = [step |-> "create", at |-> 1, starts |-> @.starts + 1]]
    /\ UNCHANGED files

\* After a file comes the next, and after the last the directory is opened.
Proceed(p) ==
    creator' = IF creator[p].at < Len(Files)
               THEN [creator EXCEPT ![p].step = "create", ![p].at = @ + 1]
               ELSE [creator EXCEPT ![p].step = "open"]

SlipSame(file) == TRUE

\* A file that is there must have the same bytes.
Same(file) == files[file] = "whole"

ExclusiveCreate(p) ==
    LET file == Files[creator[p].at]
    IN /\ creator[p].step = "create"
       /\ \/ /\ files[file] = "absent"
             /\ files' = [files EXCEPT ![file] = "torn"]
             /\ creator' = [creator EXCEPT ![p].step = "write"]
          \/ /\ files[file] # "absent" /\ Same(file)
             /\ Proceed(p)
             /\ UNCHANGED files
          \/ /\ files[file] # "absent" /\ ~Same(file)
             /\ creator' = [creator EXCEPT ![p].step = "failed"]
             /\ UNCHANGED files

Write(p) ==
    /\ creator[p].step = "write"
    /\ files' = [files EXCEPT ![Files[creator[p].at]] = "whole"]
    /\ Proceed(p)

Complete == \A file \in DOMAIN files : files[file] = "whole"

\* Opening reads the manifest, every file's digest and the evidence.
Open(p, valid) ==
    /\ creator[p].step = "open"
    /\ creator' = [creator EXCEPT ![p].step = IF Complete /\ valid THEN "done" ELSE "failed"]
    /\ UNCHANGED files

Kill(p) ==
    /\ creator[p].step \in {"create", "write", "open"}
    /\ creator' = [creator EXCEPT ![p].step = "failed"]
    /\ UNCHANGED files
=============================================================================
