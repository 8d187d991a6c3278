------------------------------ MODULE HekateConfig -----------------------------
(***************************************************************************)
(* The autoboot of Hekate.  bootloader/hekate_ipl.ini is read by three     *)
(* parsers: inih tells on which lines the two keys of the autoboot are     *)
(* (main_config.c), parseIniFile lists the entries the user can choose     *)
(* (ini_hekate_configs_parse.c, main.cpp), and a loop over fgets copies    *)
(* the file and replaces those lines by their numbers.  The entries of     *)
(* bootloader/ini are numbered apart from those of hekate_ipl.ini.         *)
(*                                                                         *)
(* The new file is written beside the old one and copied over it; the      *)
(* power can be cut, and the card can fail, anywhere in between.           *)
(***************************************************************************)
EXTENDS Integers, FiniteSets, FiniteSetsExt, Sequences

CONSTANTS
  None,     \* there is no folder bootloader/ini
  IniFiles, \* what hekate_ipl.ini may be: [lines, ended], ended by a newline or not
  Folders,  \* the sections of the files of bootloader/ini: [name, main, empty]
  MaxLines, \* bound on the lines of a file
  MaxSections, \* bound on the sections of bootloader/ini
  MaxFaults \* bound on the calls of the card that fail

VARIABLES
  file,            \* hekate_ipl.ini
  temp,            \* hekate_ipl_temp.ini, of the application's own folder
  folder,          \* bootloader/ini
  hekate_autoboot, \* what get_hekate_autoboot_status found, with the lines of the keys
  autoboot_line,
  list_line,
  pc,              \* where the program is
  by,              \* who called update_hekate_autoboot_param
  enable,
  chosen,          \* hekate_autoboot_chosen: the entry and the list
  picked,          \* autoboot_config_index
  clock,           \* in "pack": hekate_autoboot_choice_time is above 0 (0 as delivered)
  timed,           \* time_calculate: the default is taken after a while
  said,            \* the message displayed last
  old,             \* history: the last whole hekate_ipl.ini
  wanted,          \* history: the name of the entry that was picked
  touched,         \* history: the user has pressed something in the choice
  spoilt,          \* history: a failure was not noticed, or a damaged file rewritten
  odd,             \* history: where the parsers disagreed on the file last rewritten
  faults           \* history: calls that failed

status == <<hekate_autoboot, autoboot_line, list_line>>
card == <<file, temp, folder>>
call == <<by, clock, enable, chosen, picked>>
history == <<old, wanted, touched, spoilt, odd, faults>>
vars == <<card, status, pc, call, timed, said, history>>

-----------------------------------------------------------------------------
\* The names that files and folders give, and a section as it is listed.
Names == {""} \cup UNION {{f.lines[l].name : l \in 1..Len(f.lines)} : f \in IniFiles}
           \cup UNION {{d[s].name : s \in 1..Len(d)} : d \in Folders \ {None}}
Entry == [name : Names, main : BOOLEAN, empty : BOOLEAN]

\* The lines of a file.  "broken" is a "[" without its "]"; "text" has no "=", its
\* value is the number it begins with; "other" is a comment, an empty line, or a
\* caption at the margin.  A line is indented by a tab or by more than one space.
Kinds == {"section", "broken", "autoboot", "list", "key", "text", "other"}
Keys == {"autoboot", "list", "key"}
NoLine == -1
NoFile == << >>
Canceled == <<-1, -1>>
Nothing == <<-2, -2>>

\* The two keys that are looked for.
BootKeys == {"autoboot", "list"}
Starts(f, l) == f.lines[l].is = "section" /\ ~f.lines[l].indent

(***************************************************************************)
(* inih.  After a key an indented line, whatever is on it, continues the   *)
(* value of that key: the handler is called again with its name, the text  *)
(* of the line and the number of the line.  Only a section at the margin   *)
(* ends it, for an indented one is a continuation itself.                  *)
(***************************************************************************)
Continues(f, l) ==
  /\ f.lines[l].indent /\ f.lines[l].is # "other"
  /\ \E s \in 1..(l - 1) :
       f.lines[s].is \in Keys /\ \A t \in (s + 1)..(l - 1) : ~Starts(f, t)

\* The key at the line s is the one that the line l continues.
Follows(f, s, l) ==
  /\ Continues(f, l) /\ f.lines[s].is \in Keys /\ ~Continues(f, s)
  /\ \A t \in (s + 1)..(l - 1) : f.lines[t].is \in Keys => Continues(f, t)

InConfig(f, l) ==
  \E s \in 1..(l - 1) :
    /\ f.lines[s].is = "section" /\ ~Continues(f, s) /\ f.lines[s].name = "config"
    /\ \A t \in (s + 1)..(l - 1) : f.lines[t].is = "section" => Continues(f, t)

\* The lines for which the handler is called with a key of [config], those that
\* continue it included, and the value and number it keeps: those of the last line,
\* 0 and none without.
LinesOf(f, key) ==
  {l \in 1..Len(f.lines) :
     /\ \/ f.lines[l].is = key /\ ~Continues(f, l)
        \/ \E s \in 1..(l - 1) : f.lines[s].is = key /\ Follows(f, s, l)
     /\ InConfig(f, l)}
LineOf(f, key) == IF LinesOf(f, key) = {} THEN NoLine ELSE Max(LinesOf(f, key))
ValueAt(f, l) ==
  IF Continues(f, l) /\ f.lines[l].is # "text" THEN 0 ELSE f.lines[l].value
ValueOf(f, key) == IF LinesOf(f, key) = {} THEN 0 ELSE ValueAt(f, LineOf(f, key))

\* inih returns the number of the first line it could not read.
Parses(f) ==
  f # NoFile /\ \A l \in 1..Len(f.lines) : f.lines[l].is = "broken" => Continues(f, l)

\* Mutant of StatusOf: the lines are counted from 0.
StatusFromZero(f) ==
  <<IF ValueOf(f, "autoboot") # 0 THEN ValueOf(f, "list") ELSE 0,
    LineOf(f, "autoboot") - 1, LineOf(f, "list") - 1>>

\* The value kept for the autoboot is the one of autoboot_list.
StatusOf(f) ==
  <<IF ValueOf(f, "autoboot") # 0 THEN ValueOf(f, "list") ELSE 0,
    LineOf(f, "autoboot"), LineOf(f, "list")>>

Known(s) == hekate_autoboot' = s[1] /\ autoboot_line' = s[2] /\ list_line' = s[3]

\* get_hekate_autoboot_status, of a file: what was known stays if it cannot be read.
GetStatus(f) == IF Parses(f) THEN Known(StatusOf(f)) ELSE UNCHANGED status

-----------------------------------------------------------------------------
\* The numbers of a set in their order, and what is left of a sequence at them.
Ascending[S \in SUBSET Nat] ==
  [i \in 1..Cardinality(S) |-> CHOOSE x \in S : Cardinality({y \in S : y < x}) = i - 1]
Kept(s, S) == [k \in 1..Cardinality(S) |-> s[Ascending[S][k]]]

\* parseIniFile: every section, with whether it has no key.
SectionLines(f) == Ascending[{l \in 1..Len(f.lines) : f.lines[l].is = "section"}]
Sections(f) ==
  IF f = NoFile THEN << >>
  ELSE LET s == SectionLines(f)
           end(i) == IF i = Len(s) THEN Len(f.lines) ELSE s[i + 1] - 1
       IN [i \in 1..Len(s) |->
            [name |-> f.lines[s[i]].name, main |-> TRUE,
             empty |-> \A l \in (s[i] + 1)..end(i) :
                         f.lines[l].is \notin Keys \cup {"text"}]]

\* A loop that removes the element at its index and goes on with the next index
\* does not look at the element that has come in its place.
WithoutConfig[s \in Seq(Entry)] ==
  LET gone[i \in 0..Len(s)] == i > 0 /\ s[i].name = "config" /\ ~gone[i - 1]
  IN Kept(s, {i \in 1..Len(s) : ~gone[i]})

MainEntries(f) == WithoutConfig[Sections(f)]

\* The second loop removes what is called config and then, at the same index, what
\* has no keys: seen[i] is the test the element after i can still meet.
Offered[s \in Seq(Entry)] ==
  LET seen[i \in 0..Len(s)] ==
        IF i = 0 THEN "both"
        ELSE IF seen[i - 1] = "both" /\ s[i].name = "config" THEN "keys"
        ELSE IF seen[i - 1] # "none" /\ s[i].empty THEN "none"
        ELSE "both"
  IN Kept(s, {i \in 1..Len(s) : seen[i] = "both"})

Menu(f, d) == Offered[MainEntries(f) \o d]

Entries == Menu(file, folder)

\* Mutant of Numbered: the entries of the folder are numbered from 0.
NumberedFromZero(c) ==
  IF Entries[c].main THEN <<c, 0>> ELSE <<c - 1 - Len(MainEntries(file)), 1>>

\* What the choice of the entry c returns.
Numbered(c) ==
  IF Entries[c].main THEN <<c, 0>> ELSE <<c - Len(MainEntries(file)), 1>>

\* Hekate.  A section begins at the margin and its keys end with the first line that
\* is empty, a comment or a caption; an indented key has another name.
HekateLines(f, key) ==
  {l \in 1..Len(f.lines) :
     /\ f.lines[l].is = key /\ ~f.lines[l].indent
     /\ \E s \in 1..(l - 1) :
          /\ Starts(f, s) /\ f.lines[s].name = "config"
          /\ \A t \in (s + 1)..(l - 1) :
               ~Starts(f, t) /\ (f.lines[t].is = "other" => f.lines[t].indent)}
HekateValue(f, key) ==
  IF HekateLines(f, key) = {} THEN 0 ELSE f.lines[Max(HekateLines(f, key))].value
HekateSections(f) ==
  Kept(Sections(f), {i \in 1..Len(Sections(f)) : ~f.lines[SectionLines(f)[i]].indent})

\* What Hekate starts: the entry of that number in that list, or its own menu.
Boots(f, d) ==
  LET all == IF HekateValue(f, "list") = 0 THEN HekateSections(f)
             ELSE IF d = None THEN << >> ELSE d
      list == Kept(all, {i \in 1..Len(all) : all[i].name # "config"})
      n == HekateValue(f, "autoboot")
  IN IF n \in 1..Len(list) THEN list[n].name ELSE "menu"

-----------------------------------------------------------------------------
\* inih and Hekate find the two keys on the same lines, none of them unended.
LinesAgree(f) ==
  Parses(f) /\ f.ended /\ \A key \in BootKeys : LinesOf(f, key) = HekateLines(f, key)

\* Every section is one for Hekate too, [config] is there once, and nothing else has
\* that name or no key.
EntriesAgree(f, d) ==
  /\ d # None
  /\ \A i \in 1..Len(Sections(f)) : ~f.lines[SectionLines(f)[i]].indent
  /\ \A i \in 1..Len(Sections(f)) :
       Sections(f)[i].name # "config" => ~Sections(f)[i].empty
  /\ \A i, j \in 1..Len(Sections(f)) :
       Sections(f)[i].name = "config" /\ Sections(f)[j].name = "config" => i = j
  /\ \A i \in 1..Len(d) : d[i].name # "config" /\ ~d[i].empty

\* What is left of a file whose writing stopped.
Cut(f) ==
  {[lines |-> [l \in 1..n |-> f.lines[l]], ended |-> TRUE] : n \in 0..(Len(f.lines) - 1)}
MaxEntries == MaxLines + MaxSections
Numbers == -MaxEntries..MaxEntries
Lines == [is : Kinds, name : Names, value : Numbers, indent : BOOLEAN]
IsIni(f) ==
  /\ f \in [lines : Seq(Lines), ended : BOOLEAN]
  /\ Len(f.lines) <= MaxLines

ASSUME BoundsAreNumbers ==
  MaxLines \in Nat \ {0} /\ MaxSections \in Nat /\ MaxFaults \in Nat
ASSUME FilesAreIni == \A f \in IniFiles : IsIni(f)
ASSUME FoldersAreSections ==
  \A d \in Folders \ {None} :
    /\ d \in Seq([name : Names, main : {FALSE}, empty : BOOLEAN])
    /\ Len(d) <= MaxSections

TypeOK ==
  /\ file = NoFile \/ IsIni(file)
  /\ temp = NoFile \/ IsIni(temp)
  /\ folder \in Folders
  /\ hekate_autoboot \in Numbers
  /\ autoboot_line \in {NoLine} \cup 1..MaxLines
  /\ list_line \in {NoLine} \cup 1..MaxLines
  /\ pc \in {"off", "menu", "pack", "update", "ask", "open", "write", "copy", "copying"}
  /\ by \in {"combo", "pack"}
  /\ enable \in BOOLEAN
  /\ chosen \in Numbers \X {-1, 0, 1}
  /\ picked \in Numbers \X {-1, 0, 1}
  /\ clock \in BOOLEAN /\ timed \in BOOLEAN /\ touched \in BOOLEAN /\ spoilt \in BOOLEAN
  /\ odd \subseteq {"lines", "entries"}
  /\ said \in {"nothing", "undefined", "canceled", "already", "failed", "enabled", "disabled"}
  /\ old = NoFile \/ IsIni(old)
  /\ wanted \in Names \cup {"menu"}
  /\ faults \in 0..MaxFaults

Init ==
  /\ file \in IniFiles \cup {NoFile} /\ temp = NoFile /\ folder \in Folders
  /\ hekate_autoboot = 0 /\ autoboot_line = NoLine /\ list_line = NoLine
  /\ pc = "off" /\ by = "combo" /\ enable = FALSE /\ clock = FALSE
  /\ chosen = Canceled /\ picked = Canceled
  /\ timed = FALSE /\ said = "nothing"
  /\ old = file /\ wanted = "menu" /\ touched = FALSE /\ spoilt = FALSE /\ odd = {}
  /\ faults = 0

-----------------------------------------------------------------------------
\* The globals of a process that has not started.
Fresh ==
  /\ by' = "combo" /\ enable' = FALSE /\ chosen' = Canceled /\ picked' = Canceled
  /\ clock' = FALSE /\ timed' = FALSE /\ said' = "nothing"
  /\ wanted' = "menu" /\ touched' = FALSE

\* Without the process only the card is left.
Dies ==
  /\ pc' = "off"
  /\ Known(<<0, NoLine, NoLine>>)
  /\ Fresh
  /\ UNCHANGED <<card, old, spoilt, odd, faults>>

\* The process starts and reads the file, if it can.
StartApp ==
  /\ pc = "off"
  /\ pc' = "menu"
  /\ Known(IF Parses(file) THEN StatusOf(file) ELSE <<0, NoLine, NoLine>>)
  /\ Fresh
  /\ UNCHANGED <<card, old, spoilt, odd, faults>>

\* The two combinations of the menu.  Disabling twice needs another button in
\* between (hekate_autoboot_disable_combot_disable), which the user may press.
Combo(e) ==
  /\ pc = "menu"
  /\ pc' = "update" /\ by' = "combo" /\ enable' = e
  /\ said' = "nothing"
  /\ UNCHANGED <<card, status, clock, chosen, picked, timed, history>>

\* Mutant of AfterPack: the lines known are those of the file before the pack.
AfterPackStale(e) ==
  /\ pc = "menu"
  /\ \/ file' \in IniFiles /\ old' = file' /\ spoilt' = FALSE
     \/ UNCHANGED <<file, old, spoilt>>
  /\ folder' \in Folders
  /\ pc' = IF e THEN "pack" ELSE "update"
  /\ clock' \in {FALSE, e} /\ timed' = clock'
  /\ by' = "pack" /\ enable' = e
  /\ touched' = FALSE
  /\ said' = "nothing"
  /\ UNCHANGED <<temp, status, chosen, picked, wanted, odd, faults>>

\* A pack, or fnc_clean_logo, may have replaced the files when UP_CFW comes to the
\* autoboot.  The choice has a clock if one is configured.
AfterPack(e) ==
  /\ pc = "menu"
  /\ \/ file' \in IniFiles /\ old' = file' /\ spoilt' = FALSE
     \/ UNCHANGED <<file, old, spoilt>>
  /\ GetStatus(file')
  /\ folder' \in Folders
  /\ pc' = IF e THEN "pack" ELSE "update"
  /\ clock' \in {FALSE, e} /\ timed' = clock'
  /\ by' = "pack" /\ enable' = e
  /\ touched' = FALSE
  /\ said' = "nothing"
  /\ UNCHANGED <<temp, chosen, picked, wanted, odd, faults>>

-----------------------------------------------------------------------------
\* update_hekate_autoboot_param returns; UP_CFW goes on to the reboot whatever it says.
Return(s) ==
  /\ said' = s
  /\ picked' = Canceled
  /\ pc' = IF by = "pack" THEN "off" ELSE "menu"

(***************************************************************************)
(* hekate_config_choice_menu, called by UP_CFW ("pack") or by              *)
(* update_hekate_autoboot_param ("ask").                                   *)
(***************************************************************************)
Choosing == pc \in {"pack", "ask"} /\ folder # None

\* The result of opendir is not looked at: without the folder readdir crashes.
ChoiceCrashes ==
  /\ pc \in {"pack", "ask"} /\ folder = None
  /\ Dies

MoveCursor ==
  /\ Choosing /\ Entries # << >>
  /\ timed' = FALSE /\ touched' = TRUE
  /\ UNCHANGED <<card, status, pc, call, said, old, wanted, spoilt, odd, faults>>

\* What the callers make of the two numbers returned.  UP_CFW disables the autoboot
\* when there is nothing to choose, and asks again, with a new clock, for any other
\* number below 0; the combination is canceled by one.
Answer(x) ==
  /\ IF pc = "pack"
     THEN /\ CASE x[1] = Nothing[1] -> pc' = "update" /\ enable' = FALSE /\ UNCHANGED chosen
               [] x[1] > -1 -> pc' = "update" /\ chosen' = x /\ UNCHANGED enable
               [] OTHER -> UNCHANGED <<pc, enable, chosen>>
          /\ clock' = (clock /\ pc' = "pack") /\ timed' = clock'
          /\ UNCHANGED <<picked, said>>
     ELSE /\ IF x[1] < 0 THEN Return("canceled")
                         ELSE picked' = x /\ pc' = "open" /\ UNCHANGED said
          /\ timed' = FALSE
          /\ UNCHANGED <<enable, chosen, clock>>
  /\ UNCHANGED <<card, status, by, old, spoilt, odd, faults>>

\* The entry c: an entry of the folder has a number below 1 when entries before it
\* were taken out after the count.
Picks(c) == wanted' = Entries[c].name /\ \E x \in {Numbered(c)} : Answer(x)

\* [A]; the cursor is on the first entry as long as the clock runs.
PressA ==
  /\ Choosing
  /\ \E c \in 1..Len(Entries) : (timed => c = 1) /\ Picks(c)
  /\ touched' = TRUE

TimesOut == Choosing /\ timed /\ Entries # << >> /\ Picks(1) /\ UNCHANGED touched

PressB ==
  /\ Choosing /\ Entries # << >>
  /\ touched' = TRUE
  /\ Answer(Canceled) /\ UNCHANGED wanted

\* Nothing to choose from; [B] or the clock.
NothingToChoose ==
  /\ Choosing /\ Entries = << >>
  /\ touched' \in {touched, TRUE}
  /\ timed \/ touched'
  /\ Answer(Nothing) /\ UNCHANGED wanted

Choice == ChoiceCrashes \/ MoveCursor \/ PressA \/ TimesOut \/ PressB \/ NothingToChoose

-----------------------------------------------------------------------------
(***************************************************************************)
(* update_hekate_autoboot_param.                                           *)
(***************************************************************************)
Undefined ==
  /\ pc = "update" /\ NoLine \in {autoboot_line, list_line}
  /\ Return("undefined")
  /\ UNCHANGED <<card, status, by, clock, enable, chosen, timed, history>>

\* Mutant of Begin: the first entry is taken for none.
BeginAsksFirst ==
  /\ pc = "update" /\ NoLine \notin {autoboot_line, list_line}
  /\ IF enable /\ chosen[1] <= 1
     THEN pc' = "ask" /\ UNCHANGED picked
     ELSE pc' = "open" /\ picked' = IF enable THEN chosen ELSE picked
  /\ UNCHANGED <<card, status, by, clock, enable, chosen, timed, said, history>>

\* Only an entry with a number above 0 has been chosen; otherwise the user is
\* asked, without a clock.
Begin ==
  /\ pc = "update" /\ NoLine \notin {autoboot_line, list_line}
  /\ IF enable /\ chosen[1] <= 0
     THEN pc' = "ask" /\ UNCHANGED picked
     ELSE pc' = "open" /\ picked' = IF enable THEN chosen ELSE picked
  /\ UNCHANGED <<card, status, by, clock, enable, chosen, timed, said, history>>

AlreadySet ==
  /\ pc = "open" /\ hekate_autoboot # 0 /\ ~enable
  /\ Return("already")
  /\ UNCHANGED <<card, status, by, clock, enable, chosen, timed, history>>

Opens == pc = "open" /\ (hekate_autoboot = 0 \/ enable)

CannotOpen ==
  /\ Opens
  /\ \/ file = NoFile /\ UNCHANGED faults
     \/ file # NoFile /\ faults < MaxFaults /\ faults' = faults + 1
  /\ Return("failed")
  /\ UNCHANGED <<card, status, by, clock, enable, chosen, timed, old, wanted, touched,
                 spoilt, odd>>

\* The temporary file is emptied.
OpenTemp ==
  /\ Opens /\ file # NoFile
  /\ temp' = [lines |-> << >>, ended |-> TRUE]
  /\ spoilt' = (spoilt \/ Len(file.lines) # Len(old.lines))
  /\ odd' = (IF LinesAgree(file) THEN {} ELSE {"lines"})
             \cup (IF EntriesAgree(file, folder) THEN {} ELSE {"entries"})
  /\ pc' = "write"
  /\ UNCHANGED <<file, folder, status, call, timed, said, old, wanted, touched, faults>>

\* The lines are counted as they are copied; a last line without its newline is
\* copied as it is.
Rewritten(f) ==
  [lines |->
     [l \in 1..Len(f.lines) |->
        IF l = Len(f.lines) /\ ~f.ended THEN f.lines[l]
        ELSE IF l = autoboot_line
        THEN [is |-> "autoboot", name |-> "", indent |-> FALSE,
              value |-> IF enable THEN picked[1] ELSE 0]
        ELSE IF l = list_line /\ enable
        THEN [is |-> "list", name |-> "", indent |-> FALSE, value |-> picked[2]]
        ELSE f.lines[l]],
   ended |-> f.ended]

\* The results of fputs and fclose are ignored: a full card cuts the file short.
WriteTemp ==
  /\ pc = "write"
  /\ \/ temp' = Rewritten(file) /\ UNCHANGED <<faults, spoilt>>
     \/ /\ faults < MaxFaults /\ faults' = faults + 1
        /\ temp' \in Cut(Rewritten(file)) /\ spoilt' = TRUE
  /\ pc' = "copy"
  /\ UNCHANGED <<file, folder, status, call, timed, said, old, wanted, touched, odd>>

\* custom_cp empties the file first.
CopyBegins ==
  /\ pc = "copy"
  /\ file' = [lines |-> << >>, ended |-> TRUE]
  /\ pc' = "copying"
  /\ UNCHANGED <<temp, folder, status, call, timed, said, history>>

CopyEnds ==
  /\ pc = "copying"
  /\ file' = temp /\ UNCHANGED faults
  /\ old' = IF Len(temp.lines) = Len(old.lines) THEN temp ELSE old
  /\ temp' = NoFile
  /\ GetStatus(file')
  /\ Return(IF enable THEN "enabled" ELSE "disabled")
  /\ UNCHANGED <<folder, by, clock, enable, chosen, timed, wanted, touched, spoilt, odd>>

\* A write that stores nothing at all passes for the end of the file.
CopyStoresNothing ==
  /\ pc = "copying" /\ faults < MaxFaults
  /\ faults' = faults + 1
  /\ temp' = NoFile /\ spoilt' = TRUE
  /\ GetStatus(file)
  /\ Return(IF enable THEN "enabled" ELSE "disabled")
  /\ UNCHANGED <<file, folder, by, clock, enable, chosen, timed, old, wanted, touched, odd>>

\* Mutant of CopyFails: the temporary file is removed all the same.
CopyFailsCleans ==
  /\ pc = "copying" /\ faults < MaxFaults
  /\ faults' = faults + 1
  /\ file' \in Cut(temp)
  /\ temp' = NoFile
  /\ Return("failed")
  /\ UNCHANGED <<folder, status, by, clock, enable, chosen, timed, old, wanted, touched,
                 spoilt, odd>>

\* The temporary file stays, and the status is the one of the file that was.
CopyFails ==
  /\ pc = "copying" /\ faults < MaxFaults
  /\ faults' = faults + 1
  /\ file' \in Cut(temp)
  /\ Return("failed")
  /\ UNCHANGED <<temp, folder, status, by, clock, enable, chosen, timed, old, wanted, touched,
                 spoilt, odd>>

Update ==
  \/ Undefined \/ Begin \/ AlreadySet \/ CannotOpen \/ OpenTemp
  \/ WriteTemp \/ CopyBegins \/ CopyEnds \/ CopyStoresNothing \/ CopyFails

PowerCut == pc # "off" /\ Dies

User == \E e \in BOOLEAN : Combo(e) \/ AfterPack(e)

Next == StartApp \/ User \/ Choice \/ Update \/ PowerCut

Spec == Init /\ [][Next]_vars

\* The program runs on by itself and its clock goes; the user does nothing.
FairSpec == Spec /\ WF_vars(Update \/ ChoiceCrashes \/ TimesOut \/ (timed /\ NothingToChoose))

-----------------------------------------------------------------------------
\* When the program says that the autoboot was set, Hekate starts the entry that
\* was picked, and its menu when it says that it was disabled (main.cpp:1476-1737,
\* main_config.c:456-515).  The four parsers have to agree: on the lines of the two
\* keys, which inih finds elsewhere when an indented line follows one and Hekate when
\* an empty line precedes it, and, for an entry, on the sections and their numbers.
\* Without that the code sets what Hekate does not read, see PickedIsBooted.
SaidIsDone ==
  pc \in {"off", "menu"} /\ faults = 0 /\ "lines" \notin odd =>
    /\ said = "enabled" /\ "entries" \notin odd => Boots(file, folder) = wanted
    /\ said = "disabled" => Boots(file, folder) = "menu"

\* The title of the choice, "the configuration launched by the autoboot of Hekate"
\* (romfs/lng/en-GB.ini:85), taken at its word where the lines of the keys are not
\* in doubt: what was picked is what Hekate starts.  The code does not have it:
\* removed sections shift the numbers (main.cpp:1526-1559, 1606).
PickedIsBooted ==
  pc \in {"off", "menu"} /\ faults = 0 /\ "lines" \notin odd /\ said = "enabled" =>
    Boots(file, folder) = wanted

\* Whatever file came with a pack since the lines were counted, at most one line of
\* each key is replaced, the last that inih took for it; a line at the margin is
\* replaced only if it is that key of [config] itself.  An indented line after the
\* key is its last line for inih, and is replaced (main.cpp:1694-1716 against
\* main_config.c:456-515, ini.c:171-178).
OnlyBootLinesChange ==
  pc = "copy" /\ faults = 0 /\ Parses(file) =>
    \A l \in 1..Len(file.lines) : temp.lines[l] # file.lines[l] =>
      \E key \in BootKeys :
        /\ l = LineOf(file, key) /\ InConfig(file, l)
        /\ ~file.lines[l].indent => file.lines[l].is = key

\* A power cut, or a failure the program notices, leaves a whole file in its place
\* or beside it, until the damaged one is itself rewritten (main.cpp:1684-1728).
WholeCopyRemains ==
  old # NoFile /\ ~spoilt =>
    \E f \in {file, temp} \ {NoFile} : Len(f.lines) = Len(old.lines)

\* With a clock configured, the installation of a pack nobody watches does not wait
\* for the choice of an entry: the clock takes the first, and the installation goes
\* on to its end (main.cpp:1561-1610, 2881).  Without a clock, as delivered, it waits
\* for the user, which is documented.  Where the entries disagree the first may have
\* no number to be taken by, see ClockTakesFirst, and without bootloader/ini the
\* installation ends in a crash (ChoiceCrashes).
UnattendedEnds ==
  (pc = "pack" /\ clock /\ EntriesAgree(file, folder)) ~> (pc = "off" \/ touched)

\* "When the time is reached the first configuration is selected for the autoboot"
\* (config/AIO_LS_pack_Updater.ini:44), of any file.  The code does not have it: an
\* entry whose number is -1 counts as a refusal, and the choice begins again
\* (main.cpp:1606, 2881-2894).
ClockTakesFirst == (pc = "pack" /\ clock) ~> (pc # "pack" \/ touched)

=============================================================================
