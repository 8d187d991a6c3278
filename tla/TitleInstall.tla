------------------------------ MODULE TitleInstall -----------------------------
(***************************************************************************)
(* install_hbmenu and install_app_fwd: the title found on the console is   *)
(* removed, then the one of romfs is installed: its meta content is        *)
(* registered and read, the records of the title are written, and the      *)
(* other contents are streamed to placeholders and registered.             *)
(*                                                                         *)
(* source/main.cpp and source/contents_install.  Any call to a service of  *)
(* the system can fail, and the power can be cut between two of them.  The *)
(* identifier of a content is its digest: packages may share contents, and *)
(* a content that is registered is not registered again.                   *)
(***************************************************************************)
EXTENDS Naturals, Sequences, FiniteSets

CONSTANTS
  Packages, \* the packages of one title that romfs, or another installer, holds
  Meta,     \* [Packages -> the content that lists the others]
  Parts,    \* [Packages -> the sequence of the others]
  None,     \* no such file
  MaxFaults \* bound: the calls that fail in a behaviour

VARIABLES
  store,  \* [Storages -> [Contents -> State]], the contents registered
  place,  \* [Contents -> State], the placeholders, in the user storage
  meta,   \* [Storages -> SUBSET Packages], the records of the databases
  record, \* the application record
  ticket, \* the packages whose ticket is imported
  pc,     \* what the program does, and "idle" when it does not run
  p,      \* the package to install
  old,    \* what is removed: [st, pk], or << >>
  named,  \* the contents of the package that the header read from it names
  k,      \* the content that is at hand
  told,   \* what the user was last told
  faults, \* the calls that have failed, short reads included
  before  \* history: those of earlier installations

vars == <<store, place, meta, record, ticket, pc, p, old, named, k, told, faults, before>>
console == <<store, place, meta, record, ticket>>

-----------------------------------------------------------------------------
Storages == {"user", "sd"}
State == {None, "part", "whole"}
MetaFirst(q) == <<Meta[q]>> \o Parts[q]
ContentsOf(q) == {MetaFirst(q)[i] : i \in 1..Len(MetaFirst(q))}
Contents == UNION {ContentsOf(q) : q \in Packages}

Steps == {"delete", "unrecord", "drop", "clear", "create", "body", "register",
          "unplace", "read", "records", "push", "ticket"}

ASSUME PackagesHaveContents ==
  /\ Packages # {}
  /\ DOMAIN Meta = Packages
  /\ DOMAIN Parts = Packages
  /\ \A q \in Packages : Parts[q] \in Seq(Contents)
  /\ \A q \in Packages : \A i, j \in 1..Len(MetaFirst(q)) :
       MetaFirst(q)[i] = MetaFirst(q)[j] => i = j
  /\ \A q, r \in Packages : q # r => Meta[q] \notin ContentsOf(r)
  /\ None \notin {"part", "whole"}
  /\ MaxFaults \in Nat

TypeOK ==
  /\ store \in [Storages -> [Contents -> State]]
  /\ place \in [Contents -> State]
  /\ meta \in [Storages -> SUBSET Packages]
  /\ record \in BOOLEAN
  /\ ticket \in SUBSET Packages
  /\ pc \in {"idle"} \cup Steps
  /\ p \in Packages
  /\ old \in [st : Storages, pk : Packages] \cup {<< >>}
  /\ named \in SUBSET ContentsOf(p)
  /\ k \in 1..(Len(MetaFirst(p)) + 1) \/ pc \in {"delete", "unrecord", "drop", "idle"}
  /\ told \in {"nothing", "installed", "error", "cancelled", "cut", "abort"}
  /\ faults \in 0..MaxFaults
  /\ before \in 0..MaxFaults

\* What a complete installation of each package puts on a storage.
Holds(pks) == [c \in Contents |-> IF \E q \in pks : c \in ContentsOf(q) THEN "whole" ELSE None]

\* The title is in the user storage, on the card, on both, or on neither.
Init ==
  /\ meta \in [Storages -> {{}} \cup {{q} : q \in Packages}]
  /\ store = [st \in Storages |-> Holds(meta[st])]
  /\ place = [c \in Contents |-> None]
  /\ record = (\E st \in Storages : meta[st] # {})
  /\ ticket = UNION {meta[st] : st \in Storages}
  /\ pc = "idle"
  /\ p \in Packages
  /\ old = << >>
  /\ named = ContentsOf(p)
  /\ k = 1
  /\ told = "nothing"
  /\ faults = 0
  /\ before = 0

-----------------------------------------------------------------------------
\* A step goes on, with or without a fault.
To(l) == pc' = l
Well == faults' = faults
Fault == faults < MaxFaults /\ faults' = faults + 1
FaultIf(b) == faults' = (IF b THEN faults + 1 ELSE faults) /\ faults' <= MaxFaults
Keep == UNCHANGED <<p, old, named, told, before>>

\* The program ends with a message; an exception of Prepare or Begin is one.
Ends(message) ==
  /\ pc' = "idle"
  /\ told' = message
  /\ UNCHANGED <<p, old, named, k, before>>

\* listInstalledTitles, then Locate: the user storage before the card.
Begin(q) ==
  /\ pc = "idle"
  /\ p' = q /\ named' = ContentsOf(q) /\ k' = 1 /\ told' = "nothing" /\ before' = faults
  /\ \/ \E st \in Storages :
          /\ meta[st] # {} /\ (st = "sd" => meta["user"] = {})
          /\ \E pk \in meta[st] : old' = [st |-> st, pk |-> pk]
          /\ pc' = "delete"
          /\ Well
     \/ /\ \A st \in Storages : meta[st] = {}
        /\ old' = << >> /\ pc' = "clear"
        /\ Well
     \/ /\ \E st \in Storages : meta[st] # {}
        /\ old' = << >> /\ pc' = "clear"
        /\ Fault
  /\ UNCHANGED console

\* Mutant of DeleteContent: the first content is all that is deleted.
DeleteFirst ==
  /\ pc = "delete" /\ k <= Len(MetaFirst(old.pk))
  /\ store' = [store EXCEPT ![old.st][Meta[old.pk]] = None]
  /\ Well
  /\ k' = k + 1
  /\ UNCHANGED <<place, meta, record, ticket, pc>> /\ Keep

\* RemoveTitle: the contents one by one, and what that returns is not looked at.
DeleteContent ==
  /\ pc = "delete" /\ k <= Len(MetaFirst(old.pk))
  /\ \/ /\ store' = [store EXCEPT ![old.st][MetaFirst(old.pk)[k]] = None]
        /\ Well
     \/ store' = store /\ Fault
  /\ k' = k + 1
  /\ UNCHANGED <<place, meta, record, ticket, pc>> /\ Keep

\* Nothing is deleted if the storage or its database cannot be opened.
DeleteEnds ==
  /\ pc = "delete"
  /\ \/ k > Len(MetaFirst(old.pk)) /\ Well
     \/ k = 1 /\ Fault
  /\ To("unrecord")
  /\ UNCHANGED <<console, k>> /\ Keep

\* The record of the title, and the commit that is not looked at either.
Unrecord ==
  /\ pc = "unrecord"
  /\ \/ meta' = [meta EXCEPT ![old.st] = @ \ {old.pk}] /\ Well
     \/ meta' = meta /\ Fault
  /\ To("drop")
  /\ UNCHANGED <<store, place, record, ticket, k>> /\ Keep

UnrecordFails ==
  /\ pc \in {"delete", "unrecord"} /\ (pc = "delete" => k = 1)
  /\ Fault /\ Ends("cancelled")
  /\ UNCHANGED console

DropRecord ==
  /\ pc = "drop"
  /\ \/ record' = FALSE /\ Well
     \/ record' = record /\ Fault
  /\ k' = 1
  /\ To("clear")
  /\ UNCHANGED <<store, place, meta, ticket>> /\ Keep

-----------------------------------------------------------------------------
\* RetrieveHeader, of a package just opened: what its reads return is not looked
\* at, and an entry that was not read has no name.  Without the name of the meta
\* content, Prepare has nothing to do and Begin, but for a ticket, neither.
HeaderShort ==
  /\ pc = "clear" /\ k = 1 /\ named = ContentsOf(p)
  /\ \E some \in SUBSET ContentsOf(p) : some # named /\ named' = some
  /\ To(IF Meta[p] \in named' THEN "clear" ELSE "ticket")
  /\ Fault
  /\ UNCHANGED <<console, k, p, old, told, before>>

\* InstallNCA of the content at hand.
Id == MetaFirst(p)[k]

\* The package, or the storage, is not opened: an exception.
OpenFails ==
  /\ pc = "clear" /\ k <= Len(MetaFirst(p)) /\ Id \in named
  /\ Fault /\ Ends("error")
  /\ UNCHANGED console

\* The entry of a content is looked up, and used without a look; that of a
\* certificate is taken by the number of its ticket, from a vector that may be
\* shorter.
EntryMissing ==
  /\ \/ pc = "clear" /\ k <= Len(MetaFirst(p)) /\ Id \notin named
     \/ pc = "ticket" /\ named # ContentsOf(p)
  /\ Well /\ Ends("abort")
  /\ UNCHANGED console

\* Mutant of ClearPlace: what a cut has left is kept.
ClearNothing ==
  /\ pc = "clear" /\ k <= Len(MetaFirst(p)) /\ Id \in named
  /\ To("create") /\ Well
  /\ UNCHANGED <<console, k>> /\ Keep

ClearPlace ==
  /\ pc = "clear" /\ k <= Len(MetaFirst(p)) /\ Id \in named
  /\ \/ place' = [place EXCEPT ![Id] = None] /\ Well
     \/ place' = place /\ Fault
  /\ To("create")
  /\ UNCHANGED <<store, meta, record, ticket, k>> /\ Keep

\* flushHeader: the placeholder with its first bytes.
Create ==
  /\ pc = "create" /\ place[Id] = None
  /\ place' = [place EXCEPT ![Id] = "part"]
  /\ To("body") /\ Well
  /\ UNCHANGED <<store, meta, record, ticket, k>> /\ Keep

\* flushHeader throws; close calls it again, and the destructor a third time.
\* If the second call succeeds the writing stops there; if only the third does,
\* the exception of the second reaches installNspFromFile; if none does, an
\* exception leaves a destructor and the program is aborted.
CreateThrows ==
  /\ pc = "create"
  /\ \/ /\ place[Id] = None
        /\ place' = [place EXCEPT ![Id] = "part"]
        /\ Fault
        /\ \/ To("register") /\ UNCHANGED k /\ Keep
           \/ Ends("error")
           \/ Ends("abort")
     \/ /\ place' = place
        /\ FaultIf(place[Id] = None)
        /\ Ends("abort")
  /\ UNCHANGED <<store, meta, record, ticket>>

\* StreamToPlaceholder: what stops the writing is not told, and what fread
\* returns is not looked at.
Body ==
  /\ pc = "body"
  /\ \/ place' = [place EXCEPT ![Id] = "whole"] /\ Well
     \/ place' = place /\ Fault
  /\ To("register")
  /\ UNCHANGED <<store, meta, record, ticket, k>> /\ Keep

\* The placeholder becomes the content, if there is none yet.
Register ==
  /\ pc = "register"
  /\ \/ /\ store["user"][Id] = None
        /\ store' = [store EXCEPT !["user"][Id] = place[Id]]
        /\ place' = [place EXCEPT ![Id] = None]
        /\ Well
     \/ /\ UNCHANGED <<store, place>>
        /\ FaultIf(store["user"][Id] = None)
  /\ To("unplace")
  /\ UNCHANGED <<meta, record, ticket, k>> /\ Keep

\* Mutant of Unplace: the next content but one.
UnplaceSkips ==
  /\ pc = "unplace"
  /\ place' = [place EXCEPT ![Id] = None] /\ Well
  /\ IF k = 1 THEN To("read") /\ UNCHANGED k
              ELSE To("clear") /\ k' = k + 2
  /\ UNCHANGED <<store, meta, record, ticket>> /\ Keep

Unplace ==
  /\ pc = "unplace"
  /\ \/ place' = [place EXCEPT ![Id] = None] /\ Well
     \/ place' = place /\ place[Id] # None /\ Fault
  /\ IF k = 1 THEN To("read") /\ UNCHANGED k
              ELSE To("clear") /\ k' = k + 1
  /\ UNCHANGED <<store, meta, record, ticket>> /\ Keep

-----------------------------------------------------------------------------
\* Prepare: the meta content is read from where it was registered.
ReadMeta ==
  /\ pc = "read" /\ store["user"][Id] = "whole"
  /\ To("records") /\ Well
  /\ UNCHANGED <<console, k>> /\ Keep

ReadMetaFails ==
  /\ pc = "read"
  /\ FaultIf(store["user"][Id] = "whole")
  /\ Ends("error")
  /\ UNCHANGED console

\* Mutant of SetRecords: the records are written whatever was read.
SetRecordsEarly ==
  /\ pc \in {"read", "records"}
  /\ meta' = [meta EXCEPT !["user"] = @ \cup {p}]
  /\ To("push") /\ Well
  /\ UNCHANGED <<store, place, record, ticket, k>> /\ Keep

SetRecords ==
  /\ pc = "records"
  /\ meta' = [meta EXCEPT !["user"] = @ \cup {p}]
  /\ To("push") /\ Well
  /\ UNCHANGED <<store, place, record, ticket, k>> /\ Keep

PushRecord ==
  /\ pc = "push"
  /\ record' = TRUE
  /\ To("ticket") /\ Well
  /\ UNCHANGED <<store, place, meta, ticket, k>> /\ Keep

RecordsFail ==
  /\ pc \in {"records", "push"}
  /\ Fault /\ Ends("error")
  /\ UNCHANGED console

\* Begin: the ticket, whose failure is passed over, then the parts.
ImportTicket ==
  /\ pc = "ticket"
  /\ \/ ticket' = ticket \cup {p} /\ Well
     \/ ticket' = ticket /\ FaultIf(named = ContentsOf(p))
  /\ k' = IF Meta[p] \in named THEN 2 ELSE Len(MetaFirst(p)) + 1
  /\ To("clear")
  /\ UNCHANGED <<store, place, meta, record>> /\ Keep

Finishes ==
  /\ pc = "clear" /\ k > Len(MetaFirst(p))
  /\ Well /\ Ends("installed")
  /\ UNCHANGED console

PowerCut ==
  /\ pc # "idle"
  /\ Well /\ Ends("cut")
  /\ UNCHANGED console

RemoveTitle ==
  \/ DeleteContent \/ DeleteEnds \/ Unrecord \/ UnrecordFails \/ DropRecord

InstallNCA ==
  \/ OpenFails \/ EntryMissing
  \/ ClearPlace \/ Create \/ CreateThrows \/ Body \/ Register \/ Unplace

Next ==
  \/ \E q \in Packages : Begin(q)
  \/ RemoveTitle
  \/ HeaderShort
  \/ InstallNCA
  \/ ReadMeta \/ ReadMetaFails \/ SetRecords \/ PushRecord \/ RecordsFail
  \/ ImportTicket \/ Finishes
  \/ PowerCut

Spec == Init /\ [][Next]_vars

-----------------------------------------------------------------------------
\* An installation without a failed call ends well whatever earlier ones left,
\* except that a meta content registered damaged is in the way of every later one
\* (install_nsp.cpp:92-121, install.cpp:83).
OnlyFaultsFail ==
  told \in {"error", "cancelled", "abort"} /\ faults = before
    => told = "error" /\ store["user"][Meta[p]] = "part"

\* A content that one failed call has spoilt is replaced by the next
\* installation: its records, written first, lead to its removal (install.cpp:
\* 80-113, hos_Titles.cpp:260-284).  After cuts only, wherever they were, the
\* title is also the only one in the user storage, with its ticket: one on the
\* card may stay.
RetryRepairs ==
  told = "installed" /\ faults = before /\ faults <= 1 =>
    /\ \A c \in ContentsOf(p) : store["user"][c] = "whole"
    /\ faults = 0 => meta["user"] = {p} /\ p \in ticket

\* The title is not told to be installed without its meta content and its
\* records, whatever failed but the reading of the meta content's name in the
\* header (install.cpp:80-113, nsp.cpp:36-54).
HasRecords ==
  /\ store["user"][Meta[p]] = "whole"
  /\ p \in meta["user"]
  /\ record

InstalledHasRecords ==
  told = "installed" /\ Meta[p] \in named => HasRecords

\* "Forwarder of the Homebrew Menu installed." (main.cpp:1104-1107) means that it
\* is: violated, since nothing takes the place of the title removed when the
\* header of the package was not read (nsp.cpp:36-54).
InstalledIsThere == told = "installed" => HasRecords

================================================================================
