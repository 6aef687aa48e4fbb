------------------------------- MODULE Mirror -------------------------------
(***************************************************************************)
(* mirror, upToDate, copyFile and prune (internal/apps/backup.go): how the *)
(* local engine copies a folder that is being written, twice, into one     *)
(* staging folder.                                                         *)
(*                                                                         *)
(* A pass walks the source three times: to measure (which files differ in  *)
(* size or modification time), to copy those files, each through           *)
(* <name>.partial and a rename, and to drop what the source no longer has. *)
(* Between any two file operations of the first pass the app may write,    *)
(* create and remove files; it is down during the second.                  *)
(*                                                                         *)
(* File names are 1..N in the order WalkDir visits them.  A file's state   *)
(* is the tick of its last write, 0 when it does not exist; the tick is at *)
(* once its contents and its modification time (a write that preserves     *)
(* both is what upToDate cannot see, and is left out).  One flat folder    *)
(* stands for the tree; sockets and the like are never listed.             *)
(***************************************************************************)
EXTENDS Naturals

CONSTANTS
  N,         \* number of file names
  Partial,   \* Partial[i]: the name i.partial if it is among 1..N, else 0
  MaxTick    \* bound: writes by the app

Names == 1 .. N

\* .partial names come after the name they are made from.
ASSUME MirrorAssumption ==
  /\ N \in Nat /\ MaxTick \in Nat
  /\ Partial \in [Names -> {0} \cup Names]
  /\ \A i \in Names : Partial[i] # 0 => Partial[i] > i
  /\ \A i, k \in Names : Partial[i] = Partial[k] /\ Partial[i] # 0 => i = k

VARIABLES
  src,     \* src[i]: tick of the last write of file i, 0 when absent
  dst,     \* dst[i]: the staged copy, [data, mtime], or Absent
  tick,    \* ticks given out so far
  pass,    \* 1: the app is up; 2: it is down
  walk,      \* the walk: measure, copy, read, prune; then done or failed
  at,      \* the name the walk visits next
  listing, \* the names ReadDir returned when the walk began
  stale,   \* files the measuring walk found not up to date
  mtime    \* the modification time Info gave for the file being copied

mirrorVars == <<src, dst, tick, pass, walk, at, listing, stale, mtime>>

Mixed == 0   \* data read while the file was rewritten: neither version
Absent == [data |-> Mixed, mtime |-> 0]
Walks == {"measure", "copy", "read", "prune"}

\* The types of the copy's state (mirror, copyFile, prune).
MirrorTypeOK ==
  /\ src \in [Names -> Nat]
  /\ dst \in [Names -> [data : Nat, mtime : Nat]]
  /\ tick \in Nat
  /\ pass \in {1, 2}
  /\ walk \in Walks \cup {"done", "failed"}
  /\ at \in 1 .. N + 1 /\ (walk = "read" => at \in Names)
  /\ listing \subseteq Names
  /\ stale \subseteq Names
  /\ mtime \in Nat

Present == {i \in Names : src[i] # 0}
Staged == {i \in Names : dst[i] # Absent}

\* A walk starts by reading the directory.
StartWalk(w) == walk' = w /\ at' = 1 /\ listing' = Present

\* Pass 1 starts from an empty staging folder (LocalProvider.Snapshot).
MirrorInit ==
  /\ src \in [Names -> {0, 1}]
  /\ dst = [i \in Names |-> Absent]
  /\ tick = 1
  /\ pass = 1
  /\ walk = "measure"
  /\ at = 1
  /\ listing = Present
  /\ stale = {}
  /\ mtime = 0

\* The app writes file i, or creates it; removes it.
WriteFile(i) ==
  /\ pass = 1
  /\ tick < MaxTick
  /\ tick' = tick + 1
  /\ src' = [src EXCEPT ![i] = tick + 1]
  /\ UNCHANGED <<dst, pass, walk, at, listing, stale, mtime>>

RemoveFile(i) ==
  /\ pass = 1
  /\ src[i] # 0
  /\ src' = [src EXCEPT ![i] = 0]
  /\ UNCHANGED <<dst, tick, pass, walk, at, listing, stale, mtime>>

-----------------------------------------------------------------------------

\* Mutant of UpToDate: whatever is staged under the name counts.
UpToDateByName(i) == dst[i] # Absent

\* upToDate: same size and modification time.
UpToDate(i) == dst[i] # Absent /\ dst[i].mtime = src[i]

\* The measuring walk visits a name; one that has gone since ReadDir is an
\* error of Info, which ends the pass.
Measure ==
  /\ walk = "measure" /\ at <= N
  /\ at \in listing => src[at] # 0
  /\ stale' = IF at \in listing /\ ~UpToDate(at) THEN stale \cup {at} ELSE stale
  /\ at' = at + 1
  /\ UNCHANGED <<src, dst, tick, pass, walk, listing, mtime>>

Measured ==
  /\ walk = "measure" /\ at = N + 1
  /\ StartWalk("copy")
  /\ UNCHANGED <<src, dst, tick, pass, stale, mtime>>

Gone ==
  /\ walk \in {"measure", "copy"} /\ at <= N
  /\ at \in listing /\ src[at] = 0
  /\ walk = "copy" => at \in stale
  /\ walk' = "failed"
  /\ UNCHANGED <<src, dst, tick, pass, at, listing, stale, mtime>>

\* The copying walk: a name that is not stale is passed over, for a stale one
\* Info is taken before the file is opened.
Skip ==
  /\ walk = "copy" /\ at <= N
  /\ at \notin listing \cap stale
  /\ at' = at + 1
  /\ UNCHANGED <<src, dst, tick, pass, walk, listing, stale, mtime>>

Info ==
  /\ walk = "copy" /\ at <= N
  /\ at \in listing \cap stale /\ src[at] # 0
  /\ mtime' = src[at]
  /\ walk' = "read"
  /\ UNCHANGED <<src, dst, tick, pass, at, listing, stale>>

\* Mutant of Copy: the staged file gets the time the source has after the
\* read instead of the one it had before.
CopyThenStat ==
  /\ walk = "read" /\ src[at] # 0
  /\ \E data \in {src[at]} \cup (IF src[at] = mtime THEN {} ELSE {Mixed}) :
       dst' = [i \in Names |->
                 IF i = at THEN [data |-> data, mtime |-> src[at]]
                 ELSE IF i = Partial[at] THEN Absent
                 ELSE dst[i]]
  /\ at' = at + 1
  /\ walk' = "copy"
  /\ UNCHANGED <<src, tick, pass, listing, stale, mtime>>

\* copyFile: write <name>.partial (over a staged file of that very name), set
\* its time to the one Info gave, rename it.  A file rewritten since Info may
\* be read in its new version or in a mixture.
Copy ==
  /\ walk = "read" /\ src[at] # 0
  /\ \E data \in {src[at]} \cup (IF src[at] = mtime THEN {} ELSE {Mixed}) :
       dst' = [i \in Names |->
                 IF i = at THEN [data |-> data, mtime |-> mtime]
                 ELSE IF i = Partial[at] THEN Absent
                 ELSE dst[i]]
  /\ at' = at + 1
  /\ walk' = "copy"
  /\ UNCHANGED <<src, tick, pass, listing, stale, mtime>>

OpenFails ==
  /\ walk = "read" /\ src[at] = 0
  /\ walk' = "failed"
  /\ UNCHANGED <<src, dst, tick, pass, at, listing, stale, mtime>>

\* prune begins by reading the staging folder.
AllCopied ==
  /\ walk = "copy" /\ at = N + 1
  /\ walk' = "prune" /\ at' = 1 /\ listing' = Staged
  /\ UNCHANGED <<src, dst, tick, pass, stale, mtime>>

\* The source file a staged name is kept for: itself, or for a .partial name
\* the name without the suffix.
Origin(i) ==
  IF \E k \in Names : Partial[k] = i THEN CHOOSE k \in Names : Partial[k] = i
  ELSE i

Prune ==
  /\ walk = "prune" /\ at <= N
  /\ dst' = IF at \in listing /\ src[Origin(at)] = 0
            THEN [dst EXCEPT ![at] = Absent] ELSE dst
  /\ at' = at + 1
  /\ UNCHANGED <<src, tick, pass, walk, listing, stale, mtime>>

\* Mutant of SecondPass: the second pass walks the names the first one read.
SecondPassSameNames ==
  /\ walk = "prune" /\ at = N + 1 /\ pass = 1
  /\ walk' = "measure" /\ at' = 1 /\ UNCHANGED listing
  /\ pass' = 2
  /\ stale' = {}
  /\ UNCHANGED <<src, dst, tick, mtime>>

\* The first pass ends; the app is stopped and the second begins.
SecondPass ==
  /\ walk = "prune" /\ at = N + 1 /\ pass = 1
  /\ StartWalk("measure")
  /\ pass' = 2
  /\ stale' = {}
  /\ UNCHANGED <<src, dst, tick, mtime>>

Finish ==
  /\ walk = "prune" /\ at = N + 1 /\ pass = 2
  /\ walk' = "done"
  /\ UNCHANGED <<src, dst, tick, pass, at, listing, stale, mtime>>

-----------------------------------------------------------------------------

MirrorStep ==
  \/ Measure \/ Measured \/ Gone \/ Skip \/ Info \/ Copy \/ OpenFails
  \/ AllCopied \/ Prune \/ SecondPass \/ Finish

MirrorNext == MirrorStep \/ \E i \in Names : WriteFile(i) \/ RemoveFile(i)

MirrorSpec == MirrorInit /\ [][MirrorNext]_mirrorVars

-----------------------------------------------------------------------------
(* Properties *)

SameFile(i) == IF src[i] = 0 THEN dst[i] = Absent
           ELSE dst[i] = [data |-> src[i], mtime |-> src[i]]

IsPartial(i) == \E k \in Names : Partial[k] = i

\* When the second pass is done, the staging folder holds exactly what the
\* stopped app's folder holds, whatever the app did during the first pass -
\* for every name that is not another name with ".partial" added.
MirrorIsExact == walk = "done" => \A i \in Names : IsPartial(i) \/ SameFile(i)

\* A staged copy never passes for current while holding other data: what
\* upToDate accepts really is the file (Info is taken before the read).
UpToDateIsCurrent ==
  \A i \in Names : dst[i] # Absent /\ dst[i].mtime = src[i] => dst[i].data = src[i]

\* The stopped pass cannot fail on a name that vanished: nobody removes files.
StoppedPassSucceeds == pass = 2 => walk # "failed"

\* "mirror makes dst an exact copy of src", for all names alike.
ExactCopy == walk = "done" => \A i \in Names : SameFile(i)
=============================================================================
