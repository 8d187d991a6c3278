------------------------------- MODULE SelfUpdate ------------------------------
(***************************************************************************)
(* How the application replaces itself.  A running NRO cannot be written   *)
(* over, so the application downloads its successor as temp.zip, writes a  *)
(* small program, aiosu-forwarder, asks the loader to start it next, and   *)
(* exits; the forwarder removes the application, renames temp.zip to it,   *)
(* removes itself and asks for the application.  An application started    *)
(* from elsewhere uses the same program to move itself to its own folder.  *)
(*                                                                         *)
(* source/main.cpp (verify_update, auto_update_app, the start of main) and *)
(* aiosu-forwarder/source/main.cpp.  The power can be cut anywhere, and    *)
(* temp.zip is also the name under which packs are downloaded.             *)
(***************************************************************************)
EXTENDS Integers, Sequences

CONSTANTS
  Versions, \* the versions of the application, sequences of numbers
  Pages,    \* the first lines of error pages, as verify_update reads them: the
            \* digits between dots, 0 where there are none
  None,     \* no such file
  Damaged,  \* opened for writing and not completed, or not what was published
  Pack,     \* a pack
  Whole     \* the forwarder of romfs:/nro

VARIABLES
  app,       \* /switch/AIO_LS_pack_Updater/AIO_LS_pack_Updater.nro
  copy,      \* the application elsewhere: at BAD_PATH, or in another folder
  temp,      \* temp.zip
  fwd,       \* aiosu-forwarder.nro
  published, \* the version the server has, for the mode chosen
  last,      \* last_app_version; << >> when it is not known, or empty
  pc,        \* which program runs, and where it is
  arg,       \* what the forwarder gets: nothing, or the place of a copy
  unchecked, \* history: a damaged download was accepted for want of a digest or by the user
  stray      \* history: the forwarder was started by hand with no application in temp.zip

vars == <<app, copy, temp, fwd, published, last, pc, arg, unchecked, stray>>
history == <<unchecked, stray>>
files == <<app, copy, temp, fwd>>

-----------------------------------------------------------------------------
Unknown == << >>
Places == {"bad", "other"}

AppAt == {"start", "opened", "offer", "menu", "download", "receiving", "check"}
CopyAt == {"copy", "copying", "load"}
FwdAt == {"fwd", "fwd_bad", "fwd_temp", "fwd_move", "fwd_end", "next"}

ASSUME VersionsAreNumbers == Versions \subseteq Seq(Nat) \ {Unknown}
ASSUME PagesAreNumbers == Pages \subseteq Seq(Nat)
ASSUME FilesAreDistinct ==
  /\ None \notin Versions /\ Damaged \notin Versions /\ Pack \notin Versions
  /\ None # Damaged /\ None # Pack /\ Damaged # Pack /\ Whole # None /\ Whole # Damaged

TypeOK ==
  /\ app \in Versions \cup {None, Damaged, Pack}
  /\ copy \in [Places -> Versions \cup {None}]
  /\ temp \in Versions \cup {None, Damaged, Pack}
  /\ fwd \in {None, Damaged, Whole}
  /\ published \in Versions
  /\ last \in Versions \cup Pages \cup {Unknown}
  /\ pc \in {"hbmenu"} \cup AppAt \cup CopyAt \cup FwdAt
  /\ arg \in Places \cup {"none"}
  /\ unchecked \in BOOLEAN
  /\ stray \in BOOLEAN

\* A console whose application is in its folder, elsewhere, or both.
Init ==
  /\ app \in Versions \cup {None}
  /\ copy \in [Places -> Versions \cup {None}]
  /\ app # None \/ \E p \in Places : copy[p] # None
  /\ temp = None
  /\ fwd = None
  /\ published \in Versions
  /\ last = Unknown
  /\ pc = "hbmenu"
  /\ arg = "none"
  /\ unchecked = FALSE
  /\ stray = FALSE

-----------------------------------------------------------------------------
\* Mutant of FromComponent: the numbers that are left over are not looked at.
FromComponentAnyLength(local, remote) ==
  LET test[k \in 1..Len(local)] ==
        IF k > Len(remote) THEN TRUE
        ELSE IF remote[k] # local[k] THEN remote[k] > local[k]
        ELSE IF k = Len(local) THEN Len(remote) > k
        ELSE test[k + 1]
  IN test[1]

\* The loop of verify_update: numbers between dots, compared one by one, a
\* number more being later.
FromComponent(local, remote) ==
  LET test[k \in 1..Len(local)] ==
        IF remote[k] # local[k] THEN remote[k] > local[k]
        ELSE IF k = Len(local) THEN Len(remote) > k
        ELSE IF k = Len(remote) THEN FALSE
        ELSE test[k + 1]
  IN test[1]

\* verify_update: a later version is known.
Newer(local, remote) ==
  /\ remote # local /\ remote # Unknown
  /\ local = Unknown \/ FromComponent(local, remote)

-----------------------------------------------------------------------------
\* Mutant of StartApp: whatever is in its place runs.
StartAppAny ==
  /\ pc = "hbmenu" /\ app # None
  /\ pc' = "start"
  /\ UNCHANGED <<files, published, last, arg, history>>

\* The application, from its own folder; the loader starts no damaged file.
StartApp ==
  /\ pc = "hbmenu" /\ app \in Versions
  /\ pc' = "start"
  /\ UNCHANGED <<files, published, last, arg, history>>

\* get_last_version_app, then the removal of temp.zip.  The version of the
\* running application is that of its file, and stands for an answer that does
\* not come.  curl is not told to fail on an HTTP error: the first line of the
\* page that comes with one is taken for the version.
Versioned ==
  /\ published' \in Versions
  /\ last' \in {app, published'} \cup Pages
  /\ temp' = None
  /\ pc' = "opened"
  /\ UNCHANGED <<app, copy, fwd, arg, history>>

Opens == pc = "start" /\ Versioned

Offers ==
  /\ pc = "opened" /\ Newer(app, last)
  /\ pc' = "offer"
  /\ UNCHANGED <<files, published, last, arg, history>>

NothingNew ==
  /\ pc = "opened" /\ ~Newer(app, last)
  /\ pc' = "menu"
  /\ UNCHANGED <<files, published, last, arg, history>>

Answer ==
  /\ pc = "offer"
  /\ pc' \in {"download", "menu"}
  /\ UNCHANGED <<files, published, last, arg, history>>

\* From the menu: the update whatever the version, another mode, a pack, or out.
AskedFor ==
  /\ pc = "menu"
  /\ pc' = "download"
  /\ UNCHANGED <<files, published, last, arg, history>>

SwitchMode == pc = "menu" /\ Versioned

PackDownload ==
  /\ pc = "menu"
  /\ temp' \in {Pack, Damaged, None}
  /\ UNCHANGED <<app, copy, fwd, published, last, pc, arg, history>>

Leave ==
  /\ pc = "menu"
  /\ pc' = "hbmenu"
  /\ UNCHANGED <<files, published, last, arg, history>>

-----------------------------------------------------------------------------
\* auto_update_app.  A card that is nearly full leaves temp.zip alone, a
\* download that fails removes it.
NoSpace ==
  /\ pc = "download"
  /\ pc' = "menu"
  /\ UNCHANGED <<files, published, last, arg, history>>

Receives ==
  /\ pc = "download"
  /\ temp' = Damaged
  /\ pc' = "receiving"
  /\ UNCHANGED <<app, copy, fwd, published, last, arg, history>>

DownloadFails ==
  /\ pc \in {"download", "receiving"}
  /\ temp' = None
  /\ pc' = "menu"
  /\ UNCHANGED <<app, copy, fwd, published, last, arg, history>>

\* downloadFile succeeds, with or without a hole in the file.
Downloaded ==
  /\ pc = "receiving"
  /\ temp' \in {published, Damaged}
  /\ pc' = "check"
  /\ UNCHANGED <<app, copy, fwd, published, last, arg, history>>

\* The digest agrees, or the user insists though it is not the one published.
CheckGood ==
  /\ pc = "check" /\ temp = published
  /\ pc' = "copy" /\ arg' = "none"
  /\ UNCHANGED <<files, published, last, history>>

\* The digest differs; the one received may be the error page.
CheckRefused ==
  /\ pc = "check"
  /\ temp' = None
  /\ pc' = "menu"
  /\ UNCHANGED <<app, copy, fwd, published, last, arg, history>>

\* Mutant of CheckForced: the answer is taken without a note of it.
CheckIgnored ==
  /\ pc = "check" /\ temp # published
  /\ pc' = "copy" /\ arg' = "none"
  /\ UNCHANGED <<files, published, last, history>>

\* The user goes on with a digest that differs; or there is none to compare,
\* because it was not published, not received or not computed.
CheckForced ==
  /\ pc = "check" /\ temp # published
  /\ unchecked' = TRUE
  /\ pc' = "copy" /\ arg' = "none"
  /\ UNCHANGED <<files, published, last, stray>>

-----------------------------------------------------------------------------
\* main, when argv[0] is not the folder of the application.
StartCopy(p) ==
  /\ pc = "hbmenu" /\ copy[p] \in Versions
  /\ pc' = "copy" /\ arg' = p
  /\ UNCHANGED <<files, published, last, history>>

\* custom_cp of the forwarder.
CopyBegins ==
  /\ pc = "copy"
  /\ fwd' = Damaged
  /\ pc' = "copying"
  /\ UNCHANGED <<app, copy, temp, published, last, arg, history>>

CopyFails ==
  /\ pc \in {"copy", "copying"}
  /\ IF arg = "none" THEN temp' = None /\ pc' = "menu"
                     ELSE temp' = temp /\ pc' = "hbmenu"
  /\ UNCHANGED <<app, copy, fwd, published, last, arg, history>>

\* A write of no byte at all ends the loop of custom_cp as the end of the file
\* does.
CopyEnds ==
  /\ pc = "copying"
  /\ fwd' \in {Whole, Damaged}
  /\ pc' = "load"
  /\ UNCHANGED <<app, copy, temp, published, last, arg, history>>

\* The loader starts what envSetNextLoad named, or gives up.
LoadForwarder ==
  /\ pc = "load"
  /\ pc' = IF fwd = Whole THEN "fwd" ELSE "hbmenu"
  /\ UNCHANGED <<files, published, last, arg, history>>

\* The user starts the forwarder a power cut has left.
StartForwarder ==
  /\ pc = "hbmenu" /\ fwd = Whole
  /\ pc' = "fwd" /\ arg' = "none"
  /\ stray' = (stray \/ temp \notin Versions)
  /\ UNCHANGED <<files, published, last, unchecked>>

-----------------------------------------------------------------------------
\* The forwarder with the place of a copy.  A file cannot be renamed over
\* another on this file system: the exception ends the program.
MoveCopy ==
  /\ pc = "fwd" /\ arg # "none" /\ app = None
  /\ app' = copy[arg]
  /\ copy' = [copy EXCEPT ![arg] = None]
  /\ pc' = "fwd_bad"
  /\ UNCHANGED <<temp, fwd, published, last, arg, history>>

MoveThrows ==
  /\ pc = "fwd" /\ arg # "none" /\ app # None
  /\ pc' = "hbmenu"
  /\ UNCHANGED <<files, published, last, arg, history>>

RemoveBad ==
  /\ pc = "fwd_bad"
  /\ copy' = [copy EXCEPT !["bad"] = None]
  /\ pc' = "fwd_end"
  /\ UNCHANGED <<app, temp, fwd, published, last, arg, history>>

\* The forwarder alone.
RemoveBadFirst ==
  /\ pc = "fwd" /\ arg = "none"
  /\ copy' = [copy EXCEPT !["bad"] = None]
  /\ pc' = "fwd_temp"
  /\ UNCHANGED <<app, temp, fwd, published, last, arg, history>>

NoTemp ==
  /\ pc = "fwd_temp" /\ temp = None
  /\ pc' = "fwd_end"
  /\ UNCHANGED <<files, published, last, arg, history>>

\* Mutant of RemoveApp: the application is removed for the sake of nothing.
RemoveAppAndTemp ==
  /\ pc = "fwd_temp" /\ temp # None
  /\ app' = None
  /\ temp' = None
  /\ pc' = "fwd_end"
  /\ UNCHANGED <<copy, fwd, published, last, arg, history>>

RemoveApp ==
  /\ pc = "fwd_temp" /\ temp # None
  /\ app' = None
  /\ pc' = "fwd_move"
  /\ UNCHANGED <<copy, temp, fwd, published, last, arg, history>>

MoveTemp ==
  /\ pc = "fwd_move"
  /\ app' = temp
  /\ temp' = None
  /\ pc' = "fwd_end"
  /\ UNCHANGED <<copy, fwd, published, last, arg, history>>

RemoveItself ==
  /\ pc = "fwd_end"
  /\ fwd' = None
  /\ pc' = "next"
  /\ UNCHANGED <<app, copy, temp, published, last, arg, history>>

NextLoad ==
  /\ pc = "next"
  /\ pc' = IF app \in Versions THEN "start" ELSE "hbmenu"
  /\ UNCHANGED <<files, published, last, arg, history>>

\* Also a crash of either program, and an exception of std::filesystem.
PowerCut ==
  /\ pc # "hbmenu"
  /\ pc' = "hbmenu"
  /\ UNCHANGED <<files, published, last, arg, history>>

Forwarder ==
  \/ LoadForwarder
  \/ MoveCopy \/ MoveThrows \/ RemoveBad
  \/ RemoveBadFirst \/ NoTemp \/ RemoveApp \/ MoveTemp
  \/ RemoveItself \/ NextLoad

Next ==
  \/ StartApp \/ Opens \/ Offers \/ NothingNew \/ Answer
  \/ AskedFor \/ SwitchMode \/ PackDownload \/ Leave
  \/ NoSpace \/ Receives \/ DownloadFails \/ Downloaded
  \/ CheckGood \/ CheckRefused \/ CheckForced
  \/ \E p \in Places : StartCopy(p)
  \/ CopyBegins \/ CopyFails \/ CopyEnds
  \/ StartForwarder \/ Forwarder
  \/ PowerCut

Spec == Init /\ [][Next]_vars

\* Between the exit of the application and its next start nobody is asked.
FairSpec == Spec /\ WF_vars(Forwarder)

-----------------------------------------------------------------------------
\* An application that can be started is always left, or a forwarder that can
\* be started and the successor for it to put in place: no cut, and no file left
\* from an earlier one, loses the last of them, unless a download was accepted
\* unchecked or the forwarder was started by hand with nothing to put in place
\* (forwarder main.cpp:34-41, main.cpp:1415-1458).
Recoverable ==
  \/ app \in Versions
  \/ \E p \in Places : copy[p] \in Versions
  \/ fwd = Whole /\ temp \in Versions
  \/ unchecked \/ stray

\* The forwarder always ends with an application to start (forwarder
\* main.cpp:43), with the same exceptions.
NextLoadIsThere == pc = "next" => app \in Versions \/ unchecked \/ stray

\* Reference for dotted numbers: at the first number that differs the greater
\* is later, and what only continues is later.
Later(remote, local) ==
  \/ /\ Len(remote) > Len(local)
     /\ \A i \in 1..Len(local) : remote[i] = local[i]
  \/ \E k \in 1..Len(local) :
       /\ k <= Len(remote) /\ remote[k] > local[k]
       /\ \A i \in 1..(k - 1) : remote[i] = local[i]

\* The update is offered exactly when what was received for a version is later
\* than the one that runs, whatever number of components either has, and what
\* was received is the version published or the first line of an error page: no
\* offer is left from an earlier answer, and none is made when the server did not
\* answer (main.cpp:478-507, 1327-1395).
OfferedIffLater ==
  /\ pc = "offer" => Later(last, app) /\ last \in {published} \cup Pages
  /\ pc = "opened" /\ Later(last, app) => Newer(app, last)

\* What is offered as a new version is one that was published.
OfferIsPublished == pc = "offer" => last = published

\* What was handed to the forwarder becomes the application, or the power was cut
\* with the forwarder and the successor still there (main.cpp:1455, forwarder
\* main.cpp:34-43).
UpdateArrives ==
  (pc = "load" /\ fwd = Whole /\ arg = "none" /\ temp = published)
    ~> \/ app = published
       \/ pc = "hbmenu" /\ fwd = Whole /\ temp = published
================================================================================
