------------------------------- MODULE Unzip --------------------------------
(***************************************************************************)
(* Extraction of a pack onto the SD card: unzip() of source/unzip.cpp.     *)
(*                                                                         *)
(* The program walks the archive with two positions that are meant to      *)
(* agree: the loop index i, and the cursor minizip keeps inside the zip    *)
(* (pos).  Every skipped or extracted entry moves both; a copy that has to *)
(* be tried again moves only i.  A third, named, is the entry whose name   *)
(* was read last: the program does not look at the results of minizip, and *)
(* goes on with an old name, or with a cursor that no longer moves.        *)
(*                                                                         *)
(* A file's bytes are abstracted to a value of Contents; Damaged stands    *)
(* for a file that was opened for writing and is empty, truncated or       *)
(* corrupted.  Its SHA-256 is not that of an entry, but the digests the    *)
(* program compares need not be those of the whole files (Mistakable).     *)
(***************************************************************************)
EXTENDS Integers, Sequences

CONSTANTS
  Names,      \* paths, relative to the SD root, the extraction can touch
  NoName,     \* the empty path, left of an entry that is the subfolder itself
  Below,      \* Below[d]: every path under the directory d
  Contents,   \* what an intact file may hold
  None,       \* no such path on the SD
  Dir,        \* the path is a directory
  Damaged,    \* an empty, truncated or corrupted file
  Zip,        \* the archive: a sequence of [name, dir, data]
  SubDepth,   \* first_subfolder_passed: leading entries that are only the subfolder
  KeepFiles,  \* the keep_files argument
  Kept,       \* the paths file_in_files_to_keep() accepts
  Verifies,   \* the values of pack_files_in_zip_sha256_verify_before_copy_param
  Protected,  \* the files in use by the running system
  TempOf,     \* TempOf[p]: the path p followed by ".temp"
  BootLogo,   \* atmo_bootlogo_dir
  InitialSD,  \* the contents the SD may have when the extraction starts
  Faults      \* the failures the environment may produce: "zip" and "directory",
              \* the archive's index cannot be read; "read", an entry; "hash", an
              \* error or a missing buffer while a digest is computed; "open", a
              \* file or directory cannot be created; "write", "silent", "malloc"

VARIABLES
  sd,           \* what each path of the SD holds
  number_entry, \* gi.number_entry
  i,            \* the loop index
  pos,          \* the entry minizip's cursor is on (1 is the first)
  lost,         \* the cursor is on no entry (minizip's current_file_ok is 0)
  named,        \* the entry whose name is in filename_inzip, 0 before the first
  copy_retry,
  pc,           \* where unzip() is
  ret,          \* what it returned
  verify,       \* pack_files_in_zip_sha256_verify_before_copy_param
  sd0,          \* history: the SD at the start
  retries,      \* history: how many times a copy was started again
  overlooked    \* history: the entries at which a failure went unnoticed

cursor == <<pos, lost, named>>
given == <<verify, sd0>>
history == <<retries, overlooked>>
vars == <<sd, number_entry, i, cursor, copy_retry, pc, ret, given, history>>

-----------------------------------------------------------------------------
N == Len(Zip)
Files == Contents \cup {Damaged}
Nodes == Files \cup {None, Dir}
MaxTries == 3
Entries == [name : Names \cup {NoName}, dir : BOOLEAN, data : Contents]

\* A path can only exist inside directories that exist.
InTree(s, n) == \A d \in Names : n \in Below[d] => s[d] = Dir
IsTree(s) == \A n \in Names : s[n] # None => InTree(s, n)

\* Mutant of Dest: the protected files are overwritten in place.
DestInPlace(k) == Zip[k].name

\* Where entry k is written: the three protected files get a ".temp" suffix.
Dest(k) == IF Zip[k].name \in Protected THEN TempOf[Zip[k].name]
                                        ELSE Zip[k].name

\* remove_directory
RemoveTree(s, d) ==
  [n \in Names |-> IF n = d \/ n \in Below[d] THEN None ELSE s[n]]

\* filename_on_sd, the name of entry e without the subfolder
Name(e) == IF e = 0 THEN NoName ELSE Zip[e].name

\* unzGoToNextFile at the end of a loop iteration.  When it fails the cursor is
\* on no entry, and every later call fails without moving it.
NextEntry ==
  /\ i' = i + 1
  /\ IF lost THEN UNCHANGED <<pos, lost>>
             ELSE /\ pos' = pos + 1
                  /\ lost' = FALSE \/ ("directory" \in Faults /\ lost' = TRUE)

TypeOK ==
  /\ sd \in [Names -> Nodes]
  /\ sd0 \in [Names -> Nodes]
  /\ number_entry \in {0, N}
  /\ i \in 0..N
  /\ pos \in 1..(N + 1)
  /\ lost \in BOOLEAN
  /\ named \in 0..N
  /\ copy_retry \in 0..MaxTries
  /\ pc \in {"open", "entry", "copy", "verify", "done", "aborted"}
  /\ ret \in {-1, 0, 1}
  /\ verify \in Verifies
  /\ retries \in 0..N
  /\ overlooked \subseteq 1..N

Init ==
  /\ sd \in InitialSD
  /\ sd0 = sd
  /\ number_entry = 0
  /\ i = 0
  /\ pos = 1
  /\ lost = FALSE
  /\ named = 0
  /\ copy_retry = MaxTries
  /\ pc = "open"
  /\ ret = -1
  /\ verify \in Verifies
  /\ retries = 0
  /\ overlooked = {}

-----------------------------------------------------------------------------
(***************************************************************************)
(* What the properties assume of the archive and of the card: Below is a   *)
(* directory tree, an archive lists each path once and a directory before  *)
(* what it holds, the first SubDepth entries are the subfolder itself, no  *)
(* file of the archive stands where another of its paths or a file in use  *)
(* has its directory, and a ".temp" file lies beside the file it will      *)
(* replace.  Nothing is assumed of the paths to keep, but that they are    *)
(* told by how they begin: what is under such a path is kept as well.      *)
(***************************************************************************)
Needed == {Zip[k].name : k \in 1..N} \cup Protected
            \cup {TempOf[p] : p \in Protected}

ASSUME NodesAreDistinct ==
  /\ None # Dir /\ Damaged \notin Contents \cup {None, Dir}
  /\ None \notin Contents /\ Dir \notin Contents
  /\ NoName \notin Names

ASSUME BelowIsATree ==
  /\ Below \in [Names -> SUBSET Names]
  /\ \A n \in Names : n \notin Below[n]
  /\ \A a, b \in Names : b \in Below[a] => Below[b] \subseteq Below[a]

ASSUME ZipIsWellFormed ==
  /\ Zip \in Seq(Entries)
  /\ SubDepth \in 0..N
  /\ \A k \in 1..SubDepth : Zip[k].name = NoName
  /\ \A k, l \in 1..N : k # l /\ Zip[k].name \in Names => Zip[k].name # Zip[l].name
  /\ \A k \in 1..N : Zip[k].name \in Names =>
       /\ ~Zip[k].dir => Below[Zip[k].name] \cap Needed = {}
       /\ \A d \in Names : Zip[k].name \in Below[d] =>
            \E l \in 1..(k - 1) : Zip[l].name = d /\ Zip[l].dir

ASSUME TempsAreBeside ==
  /\ BootLogo \in Names
  /\ Protected \subseteq Names
  /\ TempOf \in [Protected -> Names \ Protected]
  /\ \A p, q \in Protected : TempOf[p] = TempOf[q] => p = q
  /\ \A p \in Protected : \A d \in Names : p \in Below[d] <=> TempOf[p] \in Below[d]
  /\ \A p \in Protected : \A k \in 1..N :
       /\ Zip[k].name # TempOf[p]
       /\ Zip[k].name = p => ~Zip[k].dir
  /\ \A p \in Protected : p \notin Below[BootLogo]

\* The card holds a tree, and no protected file is a directory.
ASSUME CardIsATree ==
  /\ KeepFiles \in BOOLEAN /\ Verifies \subseteq BOOLEAN
  /\ Kept \subseteq Names /\ \A d \in Kept : Below[d] \subseteq Kept
  /\ InitialSD \subseteq [Names -> Nodes]
  /\ \A s \in InitialSD :
       /\ IsTree(s)
       /\ \A p \in Protected : s[p] # Dir /\ s[TempOf[p]] # Dir

-----------------------------------------------------------------------------
\* unzOpen64 and unzGetGlobalInfo: their failure is not looked at, and leaves
\* the zero gi was initialised with.
OpenZip ==
  /\ pc = "open"
  /\ \/ number_entry' = N
     \/ "zip" \in Faults /\ number_entry' = 0
  /\ pc' = "entry"
  /\ UNCHANGED <<sd, i, cursor, copy_retry, ret, given, history>>

\* The loop condition fails.
LoopEnd ==
  /\ pc = "entry"
  /\ i = number_entry
  /\ pc' = "done"
  /\ ret' = 0
  /\ UNCHANGED <<sd, number_entry, i, cursor, copy_retry, given, history>>

\* The loop body starts with the name of the entry under the cursor; when
\* unzGetCurrentFileInfo fails, with the one it read before.
AtEntry(e) ==
  /\ pc = "entry" /\ i < number_entry
  /\ e \in (IF "directory" \in Faults THEN {pos, named} ELSE {pos})
  /\ named' = e

\* What goes wrong unnoticed with an old name: its own entry may be written
\* again, with the data of the one under the cursor, which is passed over.
Confused(e) == IF e = pos THEN {} ELSE {e, pos} \ {0}
Overlook(entries) == overlooked' = overlooked \cup entries

\* Mutant of MustKeep: only directories (type 0) count as existing.
MustKeepDirsOnly(n) == KeepFiles /\ n \in Kept /\ sd[n] = Dir

MustKeep(n) == KeepFiles /\ n \in Kept /\ sd[n] # None

\* The three reasons for which an entry is not looked at.
SkipEntry(e) ==
  /\ AtEntry(e)
  /\ \/ SubDepth > i
     \/ Name(e) = NoName
     \/ MustKeep(Name(e))
  /\ NextEntry
  /\ Overlook(Confused(e))
  /\ UNCHANGED <<sd, number_entry, copy_retry, pc, ret, given, retries>>

\* The entry of that name is to be installed.
Wanted(e) ==
  /\ AtEntry(e)
  /\ SubDepth <= i
  /\ Name(e) # NoName
  /\ ~MustKeep(Name(e))

\* mkdir, whose failure is not looked at
Mkdir(d) ==
  IF InTree(sd, d) THEN {Dir} \cup (IF "open" \in Faults THEN {None} ELSE {})
                   ELSE {None}

\* A directory entry: the boot logo directory is emptied, a missing directory
\* is created in place of whatever file has its name.
MakeDirectory(e) ==
  /\ Wanted(e)
  /\ Zip[e].dir
  /\ LET d == Name(e) IN
     /\ IF sd[d] = Dir /\ d # BootLogo
        THEN UNCHANGED sd
        ELSE \E made \in Mkdir(d) :
               sd' = [IF sd[d] = Dir THEN RemoveTree(sd, d) ELSE sd
                        EXCEPT ![d] = made]
     /\ Overlook(Confused(e) \cup (IF sd'[d] = Dir THEN {} ELSE {pos}))
  /\ NextEntry
  /\ UNCHANGED <<number_entry, copy_retry, pc, ret, given, retries>>

\* A file entry first removes a directory of the same name.
Cleared(n) == IF sd[n] = Dir THEN RemoveTree(sd, n) ELSE sd

\* Mutant of Identical: the file exists, whatever it holds.
IdenticalIfPresent(n) == verify /\ sd[n] # None

\* The file on the SD already has the SHA-256 of the entry under the cursor.
Identical(n) == verify /\ ~lost /\ sd[n] = Zip[pos].data

\* The digest of an entry or a file that cannot be read to its end is that of
\* the part that could, and without memory it is empty on both sides: any file
\* can pass for identical, or not.  Of an entry that cannot be opened it is
\* that of an empty file.
Mistakable(n) ==
  /\ verify /\ sd[n] \in Files
  /\ "hash" \in Faults \/ (lost /\ sd[n] = Damaged)

SkipIdentical(e) ==
  /\ Wanted(e)
  /\ ~Zip[e].dir
  /\ \/ Identical(Name(e)) /\ Overlook(Confused(e))
     \/ Mistakable(Name(e)) /\ Overlook(Confused(e) \cup {pos})
  /\ NextEntry
  /\ UNCHANGED <<sd, number_entry, copy_retry, pc, ret, given, retries>>

\* A file entry that is not skipped.
WantedFile(e) ==
  /\ Wanted(e)
  /\ ~Zip[e].dir
  /\ ~Identical(Name(e)) \/ "hash" \in Faults
  /\ Overlook(Confused(e))

\* fopen(..., "wb") truncates the destination.
OpenDest(e) ==
  /\ WantedFile(e)
  /\ LET s == Cleared(Name(e)) IN
     /\ InTree(s, Dest(e)) /\ s[Dest(e)] # Dir
     /\ sd' = [s EXCEPT ![Dest(e)] = Damaged]
  /\ pc' = "copy"
  /\ UNCHANGED <<number_entry, i, pos, lost, copy_retry, ret, given, retries>>

\* fopen failed: its NULL goes to fwrite and fclose unchecked.
OpenDestFails(e) ==
  /\ WantedFile(e)
  /\ LET s == Cleared(Name(e)) IN
     /\ "open" \in Faults \/ ~InTree(s, Dest(e)) \/ s[Dest(e)] = Dir
     /\ sd' = s
  /\ pc' = "aborted"
  /\ UNCHANGED <<number_entry, i, pos, lost, copy_retry, ret, given, retries>>

-----------------------------------------------------------------------------
\* Mutants of RetryOrGiveUp.  The entry is tried without end; or the counter is
\* decremented past zero.
RetryForever ==
  /\ pc' = "entry"
  /\ UNCHANGED <<number_entry, i, cursor, copy_retry, ret, given, history>>

RetryPastZero ==
  /\ copy_retry' = copy_retry - 1
  /\ i' = i + 1
  /\ retries' = retries + 1
  /\ pc' = "entry"
  /\ UNCHANGED <<number_entry, cursor, ret, given, overlooked>>

\* copy_retry counts down; while some are left the loop goes on, and its
\* increment is executed although the cursor stays on the entry.
RetryOrGiveUp ==
  /\ copy_retry' = copy_retry - 1
  /\ IF copy_retry' > 0
     THEN /\ i' = i + 1
          /\ retries' = retries + 1
          /\ pc' = "entry"
          /\ UNCHANGED ret
     ELSE /\ pc' = "done"
          /\ ret' = 1
          /\ UNCHANGED <<i, retries>>
  /\ UNCHANGED <<number_entry, cursor, given, overlooked>>

\* The entry is complete: the retry budget is restored for the next one.
EntryDone ==
  /\ NextEntry
  /\ copy_retry' = MaxTries
  /\ pc' = "entry"

\* The read/write loop reaches the end of the entry.  "silent": the card
\* accepted the bytes and did not store them.
CopyData ==
  /\ pc = "copy"
  /\ ~lost
  /\ \/ sd' = [sd EXCEPT ![Dest(named)] = Zip[pos].data]
     \/ "silent" \in Faults /\ UNCHANGED sd
  /\ IF verify THEN pc' = "verify" /\ UNCHANGED <<i, pos, lost, copy_retry>>
               ELSE EntryDone
  /\ UNCHANGED <<number_entry, named, ret, given, history>>

\* unzReadCurrentFile returned an error: always, when no entry could be opened.
ReadError ==
  /\ pc = "copy"
  /\ "read" \in Faults \/ lost
  /\ RetryOrGiveUp
  /\ UNCHANGED sd

\* A short fwrite frees the buffer and closes both files, then the loop reads
\* the closed entry, gets an error, and frees and closes them again: undefined
\* behaviour, which either goes unnoticed or kills the process.
ShortWrite ==
  /\ pc = "copy"
  /\ ~lost
  /\ "write" \in Faults
  /\ \/ RetryOrGiveUp
     \/ /\ pc' = "aborted"
        /\ UNCHANGED <<number_entry, i, cursor, copy_retry, ret, given, history>>
  /\ UNCHANGED sd

MallocFails ==
  /\ pc = "copy"
  /\ "malloc" \in Faults
  /\ pc' = "done"
  /\ ret' = 1
  /\ UNCHANGED <<sd, number_entry, i, cursor, copy_retry, given, history>>

\* The SHA-256 of the written file is the one of the entry, or passes for it.
VerifySame ==
  /\ pc = "verify"
  /\ \/ sd[Dest(named)] = Zip[pos].data /\ UNCHANGED overlooked
     \/ "hash" \in Faults /\ Overlook({pos})
  /\ EntryDone
  /\ UNCHANGED <<sd, number_entry, named, ret, given, retries>>

VerifyDiffers ==
  /\ pc = "verify"
  /\ sd[Dest(named)] # Zip[pos].data \/ "hash" \in Faults
  /\ RetryOrGiveUp
  /\ UNCHANGED sd

Walk ==
  \/ OpenZip \/ LoopEnd
  \/ \E e \in 0..N : SkipEntry(e) \/ MakeDirectory(e) \/ SkipIdentical(e)
Copy ==
  \/ \E e \in 0..N : OpenDest(e) \/ OpenDestFails(e)
  \/ CopyData \/ ReadError \/ ShortWrite \/ MallocFails \/ VerifySame \/ VerifyDiffers
Next == Walk \/ Copy

Spec == Init /\ [][Next]_vars
\* unzip() runs on the only thread of the program: it always takes a next step.
FairSpec == Spec /\ WF_vars(Walk \/ Copy)

-----------------------------------------------------------------------------
\* The cursor lags behind the loop index by exactly the copies that were
\* started again, so each of them takes one entry off the end of the archive
\* (the loop increment of unzip.cpp:537 against the continue of 745 and 805);
\* by more only when minizip has lost the entry.
CursorLag ==
  /\ i >= (pos - 1) + retries
  /\ ~lost => i = (pos - 1) + retries

\* The SD holds what entry k asks for.
Settled(k) ==
  LET n == Zip[k].name IN
  \/ n = NoName
  \/ KeepFiles /\ n \in Kept /\ sd[n] # None
  \/ Zip[k].dir /\ sd[n] = Dir
  \/ /\ ~Zip[k].dir
     /\ \/ sd[Dest(k)] = Zip[k].data
        \/ verify /\ sd[n] = Zip[k].data
        \/ ~verify /\ "silent" \in Faults /\ sd[Dest(k)] = Damaged

\* When unzip() returns 0 for an archive it could open, whatever was written
\* short, read wrong or stored wrong on the way, the only entries the SD may
\* not hold are the last ones, at most one for each retried copy, and those
\* where a failure was overlooked: digests taken of less than the whole file
\* (main_util.c:562, 609, 616), a name or a directory that could not be read
\* or made (unzip.cpp:539, 650, 816).  A cursor that was lost leaves all that
\* comes after it.  With the SHA-256 verification on, none of the others is
\* damaged but a path to keep: if it was not there, the retry finds what the
\* failed copy left and keeps that (unzip.cpp:606).
SuccessCovers ==
  ret = 0 /\ number_entry = N =>
    \A k \in 1..(IF lost THEN pos - 1 ELSE N - retries) :
      Settled(k) \/ k \in overlooked

\* What the return value 0 is taken for by main.cpp:2816: all is installed.
SuccessMeansComplete == ret = 0 => \A k \in 1..N : Settled(k)

\* What the extraction removes or writes without looking whether the path n is
\* to be kept: what is in the boot logo directory or in a directory that has the
\* name of a file of the archive, when that name is not itself to be kept
\* (unzip.cpp:632, 659), and a ".temp" file (691).
Exposed(n) ==
  \/ n \in {TempOf[p] : p \in Protected}
  \/ \E k \in {l \in 1..N : Zip[l].name \in Names \ Kept} :
       LET m == Zip[k].name IN
       n \in Below[m] /\ IF Zip[k].dir THEN m = BootLogo ELSE sd0[m] = Dir

\* A file the user asked to keep is otherwise left as it was, whatever fails,
\* is retried or is removed to make room on the way, and under whatever name an
\* entry is taken (unzip.cpp:606 decides for one name, 632, 643, 659 and 699
\* remove and truncate).
KeptUnlessExposed ==
  KeepFiles => \A n \in Kept : sd0[n] \in Files /\ ~Exposed(n) => sd[n] = sd0[n]

\* What README.md:21 says of the files to keep: a line of the list protects
\* every existing file whose path begins with it.
KeptSurvives ==
  KeepFiles => \A n \in Kept : sd0[n] \in Files => sd[n] = sd0[n]

\* The files the running system uses are not written, truncated or removed by
\* any step, a failed or a retried one included: unzip.cpp:691 sends their new
\* contents beside them.
RunningFilesUntouched == [][\A p \in Protected : sd'[p] = sd[p]]_vars

\* Whatever fails and however often, the extraction comes to an end.
Terminates == <>(pc \in {"done", "aborted"})
=============================================================================
