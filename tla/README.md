# A verification of AIO_LS_pack_Updater

AIO_LS_pack_Updater is a homebrew for the Nintendo Switch. It downloads a
"pack" (Atmosphere, Hekate, configuration and homebrews in a zip), extracts it
over the SD card the console is running from, installs firmwares and titles,
replaces itself, and reboots into a small payload of its own, `ams_rcm`, that puts
the files that were in use in their place and repairs NANDs. This directory has
TLA+ modules for the parts of it that are hard to test, TLC configurations that
check them, and proofs that TLAPS checks.

All paths are relative to the repository (`src/` in PROJECT.json). Line numbers
are those of the commit the modules were translated from. PROJECT.json maps
every definition to its lines.

## 1. The system

| Part | Code | State it keeps | Operations |
|---|---|---|---|
| Application: main loop | `source/main.cpp` 1905-3205 | `cursor`, `kDown`, `kHeld`, `pack_update_found`, `pack_update_found_install`, `autoconfig_enabled`, `beta_mode` | the menu entries UP_CFW (pack), UP_FW (firmware), UP_APP, 90DNS, reset..., key combinations |
| Extraction | `source/unzip.cpp` 480-824 | the SD card, the loop index, minizip's cursor, `copy_retry` | one pass per entry of the archive |
| Cleaning | `source/unzip.cpp` 86-366 | the SD card | `clean_sd`, modules, theme, logos, aggressive |
| Download | `source/download.cpp` | the block in memory, `TEMP_FILE` | `downloadFile`, `downloadInMemory`, directories |
| Reboot | `source/main.cpp` 1003-1036, `source/reboot_to_payload.cpp` | `payload.bin`, `payload.bin.temp`, the flag `called_via_AIO_LS_pack_Updater` | `aply_reboot`, `force_reboot`, `rebootAms_rcm` |
| ams_rcm | `amssu-rcm/source/main.c`, `tools.c` | the same files, marker files, the NAND that is selected | `init_payload`, `easy_rename`, `f_copy`, `auto_reboot`, the batch of marker files, the menu |
| Self update | `source/main.cpp` 1327-1474, `aiosu-forwarder/source/main.cpp` | `temp.zip`, the nro, the forwarder | `verify_update`, `auto_update_app`, the forwarder's `main` |
| Firmware | `source/main.cpp`, `source/firmwares_install/daybreak-cli.cpp` | the globals of Daybreak, the system's update task, the marker | information, validation, setup, prepare, apply |
| Titles | `source/main.cpp`, `source/contents_install/` | content storage, meta databases, records, tickets | install of NSP, XCI, NCA |
| Hekate configuration | `source/main.cpp` 1520-1737, `source/main_config.c`, `source/ini_hekate_configs_parse.c` | `bootloader/hekate_ipl.ini`, the line numbers of its two keys | choice, autoboot |
| Configuration | `source/main_config.c`, `source/main.cpp` 1739-1903 | the two `.ini` files | parsing, writing |

How they interact:

- The application is one thread. Nothing in it that is used runs concurrently;
  what interleaves with it is the environment: the user, the network, the SD
  card, the services of the system and the power.
- The application, ams_rcm, the forwarder and whatever `payload.bin` holds never
  run together. They communicate through files only: names ending in `.temp`,
  the flag, the marker files, `temp.zip` and `payload.bin` itself. Each can be cut
  between any two writes, and the next one reads what is there.
- On an Erista console the application jumps into ams_rcm from memory. On a
  Mariko console only `payload.bin` can be booted: ams_rcm is copied over it, and
  the bootloader waits as `payload.bin.temp` for ams_rcm to rename it back. An
  Erista with a modchip is taken for an Erista by the application
  (`main.cpp:576`) and for a console to power cycle by ams_rcm (`tools.c:1374`);
  the models call it "patched".

The behaviours that are hard here: failures in the middle of a loop over an
archive, power cuts between steps of programs that trust each other's files,
results that nobody looks at, globals and line numbers that outlive what they
were computed from, and a menu loop whose input may be the one of an earlier
pass. PROJECT.json lists them under `hazards`, each at its line.

What makes each part correct:

- *Extraction*: a successful return says what is on the card; the files in use
  and the files to keep are left alone whatever fails; it ends.
- *Handover*: no file in use is ever lost; ams_rcm never becomes permanent; a
  bootloader always remains; the console comes back with the pack installed.
- *Main loop*: nothing is installed twice or unasked; nothing is removed before
  the last chance to refuse; nothing unverified is extracted; the user gets the
  menu back.
- *Firmware and batch*: only what was validated is installed; a save that the
  older firmware cannot read is deleted before that firmware starts.
- *Self update*: an application can always be started, and updates arrive.
- *Download*: a file reported as downloaded is the file of the server.
- *Titles*: what is reported as installed is, and what an interrupted
  installation leaves does not stand in the way of the next.
- *Hekate configuration*: what is said to be set is what Hekate starts, the rest of
  the file is left alone and survives a cut.

## 2. The modules

### Unzip (`source/unzip.cpp` 480-824)

`sd` maps each path to nothing, a directory or a file; the contents of a file
are a member of `Contents`, or `Damaged` for one that was opened for writing and
not completed. `i` is the loop index and `pos` minizip's cursor: the program
means them to be the same. `named` is the entry whose name was read last and `lost`
says that the cursor is on no entry: the results of `unzGetCurrentFileInfo` and
`unzGoToNextFile` are not looked at, so the loop may take the name of one entry and
the data of another (`AtEntry(e)`, for the names it may go on with), or turn to the
end without moving. `pc` is "open", "entry" (the head of the loop),
"copy", "verify", "done" or "aborted" (the process died). Each action is one
branch of the loop body: `SkipEntry`, `MakeDirectory`, `SkipIdentical`,
`OpenDest`, `CopyData`, `ReadError`, `ShortWrite`, `VerifySame`, ... and
`RetryOrGiveUp` is the code of lines 737-753 and 798-813 that they share.
`Faults` says which failures the environment may produce. A short write leads to
a double free in the code (721-736): the model lets it go unnoticed or kill the
process. `fopen` returning NULL is not checked (699): the process dies. The two
digests are those of what could be read, and both empty without memory
(`main_util.c` 552-633): `Mistakable` lets any file pass for identical then, or not,
and `overlooked` remembers the entries at which that, or an old name, or a directory
that was not made, went unnoticed.

Abstractions: `file_in_files_to_keep` is the set `Kept`; the paths are a small
set with the relation `Below`; the console output is left out. The assumptions
on the constants (`BelowIsATree`, `ZipIsWellFormed`, `TempsAreBeside`,
`CardIsATree`) are what the properties need of the archive and of the card: the
archive lists each path once and a directory before its files. Nothing is assumed of
the paths to keep, but that what is under one is kept as well. Not modelled: an entry
type that cannot be read (`fsFsGetEntryType`), and a `remove` or `remove_directory`
that fails or stops half-way.

### Swap and Handover (`main.cpp`, `unzip.cpp`, `main_util.c`, `amssu-rcm/source/main.c`, `tools.c`)

`Swap` is the abstract promise of the replacement of a file in use: new contents
are staged, and from one moment to the next the file has them. `Handover` is the
detailed specification. `cur[f]` is the file `f`, `tmp[f]` the one with `.temp`
after its name, `flag` the file that tells ams_rcm what to do, `pc` which of the
programs runs and where it is. Every write to the card is an action of its own:
opening a file for writing (which empties it) and completing it are two steps,
`easy_rename` is an unlink and a rename, and `PowerCut` is enabled between any
two. `Trouble` counts what goes wrong: a cut, an extraction that gives up
(`ExtractGivesUp`), a failure of the card wherever the code ignores the result (the
renames, `custom_cp`, `f_copy`, the creation of the flag and its removal;
`card_failed` remembers these), and the messages of ams_rcm that wait for a key
although it was started with the flag (`Message`: the keys or a NAND cannot be read,
`main.c:665-673`, 719-725, 735-746; the minerva module is missing, 793-797). `several`
says that the card has two emuNANDs or more: ams_rcm then asks for one before it
looks for the flag (`main.c:902`, `tools.c:221-263`), which is the place "choose" and
the user's action `ChooseEmunand`. An SD card that ams_rcm cannot mount is not modelled.

A pack is a sequence of file names; extracting it goes through the same three
branches as `Unzip` (identical, staged, in place). What a launched payload does
is external (`Launch`): ams_rcm starts ams_rcm; a bootloader starts the system
if package3 and stratosphere are whole; anything else leaves the console dead.
The refinement mapping takes a file that was unlinked and not yet renamed for
already replaced, because its contents can be given back from the `.temp` name:
`Held` and `Staged` in `Handover`.

Not in this module: the marker files (see `AutoActions`), two removals of old nro
files (`main.c:776-777`).

### PackUpdate (`main.cpp` 1966-2100, 2148-2160, 2241-2941, 3143-3204)

The loop and the two installations. `mode` is the autoconfiguration: none
("manual"), with all functions ("auto"), installation only ("only"). `pending` is
`pack_update_found_install`; `ReadPad` and `ActAgain` are the two outcomes of
the guard of line 2088. From "connect" on, `pc` follows UP_CFW check by check, each
with its early exit; `Leave` is the exit that leaves the application in the mode
"only" and returns to the menu in the others, `Break` the plain break. `temp` is
`TEMP_FILE`, `digest` what `pack_sha256` holds (nothing, the right one, the line of an
error page) and then how it compares with that of the file,
`fw` the firmware folder, `pack` and `custom` what was extracted. `unzip()` is taken
by its result, which the module `Unzip` justifies: 0 does not mean that every
entry is there. The histories `asked`, `waived` and `wiped` exist for the
properties only; `waived` says why a file may pass without having the published
digest: none published, none fetched, the own one not computed, the user's insistence.

### Console, FirmwareInstall, AutoActions and Downgrade

A firmware below 21.0.0 cannot read the save 8000000000000073 of a later one. The
application leaves a marker file after such an installation, and ams_rcm, started
by the reboot, deletes the save. Four modules:

- `Console` has what the two share: the firmware (`system`) and `save` of each
  NAND, the `marker` files, the `flag`, and which program runs (`prog`, `here`).
  `BootSystem` is the system starting, which converts or creates the save: external.
- `FirmwareInstall` is `fnc_install_firmware`, its three callers and `daybreak_main`
  with its steps (`daybreak-cli.cpp` 205-640). Its globals (`info`, `has_info`, `judged`,
  `knows_supported`, `use_exfat`, `need_clean`, `ask_dg`) survive a call that was
  refused or failed; `info` and `judged` are the image they were read from, so a
  stale one can be told. Every call of the service `ams:su` may fail. `daybreak_main`
  is modelled for the parameters the application gives it: no forced firmware, no
  factory reset, no question about exFAT.
- `AutoActions` is the batch (`amssu-rcm/source/main.c` 60-150, 880-915): the table
  `auto_actions`, the selection of an emuNAND, the keys and NANDs that may be
  missing, a function that fails, the marker removed after it, and the reboot or
  the menu. A function is modelled by what it does to the save.
- `Downgrade` composes them, with the power cuts, the markers of the user and
  ams_rcm started by hand. `lost` is the set of NANDs whose marker could not do its
  work; `trouble` remembers that something failed or was chosen otherwise.

### SelfUpdate (`source/main.cpp` 1327-1474 and the start of `main`, `aiosu-forwarder/source/main.cpp`)

`app`, `copy`, `temp` and `fwd` are the files; `pc` says which of the homebrew
loader, the application and the forwarder runs, and where it is; `arg` is the
argument the forwarder gets when an application started elsewhere moves itself.
`RemoveApp`, `MoveTemp` and the others are the forwarder's calls one by one, each
of which may find nothing to do. `temp.zip` is shared with the packs
(`PackDownload`). `Newer` is `verify_update`: it compares numbers between dots with the recursive
function `FromComponent`; letters, which the code skips, are left out, so the
digits of a pre-release suffix, which join a component in the code
("1.0.0-beta1"), are not modelled. What comes for a version is the published one, none
(the running one stands for it) or a member of `Pages`, the numbers in the first line of
an error page ("404: Not Found"), for curl is not told to fail on one. No application may be left at all: the histories
`unchecked` (a download was accepted for want of a digest or by the user) and
`stray` (the forwarder was started by hand) are how.

### Download (`source/download.cpp` 20-240)

`downloadFile` and `WriteMemoryCallback`. A byte is its position in the file of the
server, `data` the buffer, `out` what was written, `nul` the place of the zero put
after the buffer. The actions are the three branches of the callback (`Direct`,
`FlushFirst`, `Gather`), the return of `curl_easy_perform`, the last write and the close.
`hole` remembers that a write whose result is not looked at was short. The
model takes the length announced by the server for the length of the file.

### TitleInstall (`main.cpp`, `source/contents_install/`)

`install_hbmenu` and `install_app_fwd`: the title found on the console is removed,
content by content; then the header of the package is read, the meta content is streamed to a placeholder, registered
and read, the records are written, the ticket is imported, and the other contents follow.
`store` has the registered contents of each storage, `place` the placeholders, `meta` and
`record` the databases. A content is "whole" or "part": the failures of a body are
swallowed (`sdmc_nsp.cpp:57`, 68), and a truncated content is registered. The header is read without a look as well
(`nsp.cpp:36-54`): `named` has the contents whose names came with it, and without that of the
meta content nothing is installed and a success reported (`HeaderShort`). Any call
can fail, up to `MaxFaults` in a behaviour, and the power can be cut anywhere.
The identifier of a content is its digest, so packages may share one.

### HekateConfig (`source/main.cpp` 1520-1737, `main_config.c` 456-515, `ini_hekate_configs_parse.c`, `ini.c`)

The three parsers of `hekate_ipl.ini` are operators on the sequence of its lines. A line has a
kind, a name or a number, and whether it begins with a blank.

- inih: `LinesOf`, `LineOf` and `ValueOf` are the lines and the value a key has for it. A line
  that is not empty and begins with a blank is, after a key of the section, another value of that
  key and gives it its own number (`Continues`, `Follows`: `ini.c:171-178`,
  `INI_ALLOW_MULTILINE`); a line without `=` is an error unless it continues one (`Parses`).
- The list the user chooses from: `Sections` and `Menu`, with the loops that remove elements
  from the list they walk over (`WithoutConfig`, `Offered`), as recursive functions on the index that
  say what the test of one turn still meets after the removals of the turns before.
- `Rewritten`, the copy through `fgets` that replaces two lines by number.

Hekate's own parser is external (`HekateLines`, `Boots`): a section begins at the margin, its keys
end with the first empty line, comment or caption, an indented key has another name.
`LinesAgree(f)` says that inih and Hekate find the two keys on the same lines, `EntriesAgree(f, d)`
that the program and Hekate agree on the sections; `odd` remembers that the file rewritten was one
where they do not. `Answer` is what the two callers make of the two numbers the menu returns, of
which an entry of the folder may have a negative one. `clock` says that
`hekate_autoboot_choice_time` is above 0 for the choice that follows a pack (0 is the value delivered,
documented as disabled), `timed` that the clock still runs. The file is rewritten beside and
copied over; the card can fail and the power be cut at each call.
Not modelled: `hekate_autoboot_disable_combot_disable`, a key without `=` (which has no line),
comments and indentations on which Hekate's parser has exceptions.

## 3. The runs

Every run uses values small enough to be exhaustive.

| Run | Asks | Result |
|---|---|---|
| `unzip_verify` | what 0 covers, kept and protected files, termination; every failure, with and without verification, those of the digests and of the archive's index included | holds |
| `unzip_kept` | is a file of the list never removed? No failure is needed | **violated** |
| `unzip_retry` | does 0 mean that everything is installed? | **violated** |
| `handover` | two installations on each kind of console, with one emuNAND or several, power cuts, given-up extractions, card failures, unreadable NANDs and missing modules: what is never lost, what never becomes permanent, what runs in the end | holds |
| `handover_stale` | after a cut, does a complete second installation run? | **violated** |
| `pack` | unasked or repeated installations; order of cancelling, checking and removing; return to the menu; all modes, every failure | holds |
| `downgrade` | two emuNANDs, two installations, every failure and cut: only the validated is installed, a save the older firmware cannot read is accounted for, and deleted in the end | holds |
| `firmware_refused` | is a refused downgrade not installed? | **violated** |
| `self_update` | cuts anywhere, damaged downloads, error pages, copies elsewhere, packs in `temp.zip`: an application remains, later versions are offered, updates arrive | holds |
| `download` | 8 bytes through a buffer of 3 in blocks of up to 4: buffer, file and success | holds |
| `titles` | installations over what cuts and two failed calls have left: what is repaired, what a success means | holds |
| `hekate` | files of five shapes, with and without `bootloader/ini` and a clock: what is said is done, nothing else changes, a copy remains, the choice ends | holds |

Five more configurations reproduce counterexamples of section 4, about what a property of the
table above has to leave out; TLC is expected to end each with the violation:

| Configuration | Module | Property | Shows |
|---|---|---|---|
| `pack_unfetched.cfg` | `MCPackUpdate` | `PublishedIsVerified` | a published digest that could not be fetched is not compared |
| `self_update_page.cfg` | `MCSelfUpdate` | `OfferIsPublished` | an error page is offered as a new version |
| `titles_header.cfg` | `MCTitleInstall` | `InstalledIsThere` | without its header a package is installed by doing nothing |
| `hekate_entries.cfg` | `MCHekateConfig` | `PickedIsBooted` | entries without keys shift the numbers |
| `hekate_loop.cfg` | `MCHekateConfig` | `ClockTakesFirst` | the clock takes -1, which counts as a refusal, for ever |

`CHECK_DEADLOCK FALSE` stands where the system may stop: `unzip()` has returned, the
console is dead or the user has nothing to do, no application is left.

Bounds, and why they are enough:

- `Unzip`: an archive of six entries (the subfolder, a directory, four
  files: one to keep, one in the boot logo directory, one protected, one in whose
  place the card may have a directory) over the 96 cards `MCInitialSD` enumerates; files to keep
  are also in the boot logo directory and in that directory.
  Each pair of branches of the loop meets on some path, three failures exhaust
  the retry budget within one entry and over several. Nothing in the code
  depends on more than one entry but the retry counter, and, when a name cannot be read,
  the name before it.
- `Handover`: `Installs = 2`, since what an interrupted installation leaves only
  matters to the next; two pack contents, because the question is whether two are
  mixed; `MaxTrouble = 3`: one in the handover, one in its recovery and one in what
  comes after. `Optional` lets the card be without either payload of a pack.
- `PackUpdate` has no unbounded state and needs no bound; the run `pack` has every fault.
- `Downgrade`: `MaxCalls = 2`, since a call reads only what the last one left in the
  globals; two emuNANDs, so that the wrong one can be selected; three firmwares
  that differ in everything the installation looks at. The theorems need neither bound.
- `SelfUpdate`: four versions, of one and two numbers, among them a pair that
  a comparison as text orders wrongly and one that continues another, and one error page.
- `Download`: blocks shorter than, as long as and longer than the buffer, and
  several fillings of it; `Cache = 2` bytes can be lost when the stream is closed.
- `TitleInstall`: the packages of the two firmware families, which share a content;
  `MaxFaults = 2`: one failure an installation has to repair, and one in the
  repair. Cuts are not bounded.
- `HekateConfig`: the keys first and last and in either order, lines that continue a key, the
  autoboot's or another, a section that is indented, a line inih refuses, no last
  newline, no entries, an entry of the folder without keys; one failure. `MaxLines` and `MaxSections` bound the files the
  theorems are about, by any numbers.

Fairness. `FairSpec` of `Unzip`: the extraction runs on the only thread and never
waits. Of `Handover`: each program goes on once it has started, and the user powers
the console on; nothing is assumed of what the user does in the system, in a menu, at the
choice of an emuNAND or before a message of ams_rcm. Of `PackUpdate`: the program goes on, questions are answered one way or
the other, and a Hekate configuration is chosen in the end (the choice,
`main.cpp:2881`, asks again for ever otherwise). The user is not assumed to press
anything in the menu. `PatientSpec`, of the run `pack`, adds that a connection
tried again and again is there in the end, strongly, because each try is an
alternative of one that fails; without it `ComesBack` is violated. Of `Downgrade`: the
programs run on and the questions of the installation are answered; the menu of ams_rcm and
its choice of an emuNAND may stay for ever. Of `SelfUpdate`: the forwarder, which waits for nobody, goes on. Of
`HekateConfig`: the rewriting of the file and the clock go on; no key is ever
assumed to be pressed.

## 4. What the code does otherwise than it says

Four are runs that TLC finds violated; PROJECT.json has the quotations.

1. `unzip_retry`: a retried copy executes the `i++` of the loop while minizip stays
   on the entry, so each retry drops one entry at the end of the archive, and
   `unzip()` returns 0 (`unzip.cpp:745`).
2. `handover_stale`: a `.temp` left by an interrupted extraction is promoted after a
   later installation that skipped the identical file (`unzip.cpp:674`).
3. `firmware_refused`: when an earlier call could not be validated, `m_has_info` is
   still set, and a downgrade the user then refuses is installed (`daybreak-cli.cpp:493`).

4. `unzip_kept`: the boot logo directory is removed whole (`unzip.cpp:632`), and so is a
   directory that has the name of a file of the archive (659), with the files of the list
   in them; README.md:21 says that the list protects any file under its paths.
   `KeptUnlessExposed` says that there is no third way but a staged name (`Exposed`).

The others are the exceptions without which a property or a theorem above is
false; each was found as a counterexample of it:

5. With a left-over `payload.bin.temp` and a pack that contains `payload.bin`, the
   flag is set and ams_rcm does not start (`main.cpp:1005`): `NoPayloadInPack`.
6. In the mode that only installs, cancelling for exFAT starts again
   (`main.cpp:2470`): `ComesBack` and `RunsOnlyOnRequest` exclude that mode.
7. An accepted update without a connection is retried for ever and the pad is not
   read (`main.cpp:2402`): `PatientSpec`.
8. An empty digest compares equal to any other (`main_util.c:108`), and a published one that
   could not be fetched is empty and is not compared (`main.cpp:395-400`, 2768): two of the four
   reasons in `VettedBeforeChange`; `pack_unfetched.cfg`.
9. A failed extraction is reported as finished (`main.cpp:2816`).
10. A firmware whose setup, preparation or application fails is reported as
    installed, and one whose information cannot be read but whose validation
    succeeds is installed without question or marker: `lost` counts it. `fix_dg_emunand`
    acts on whichever emuNAND the user selects: `trouble`. A version too new for
    the console is refused only through the invalid key of a damaged exFAT part.
11. A download is reported as a success with a hole in it when a write in the
    middle, or the flush of `fclose`, is short (`download.cpp:42`): `hole` in
    `SuccessMeansWhole`. The stream is closed twice, which is not modelled. An HTTP error is a
    success (no `CURLOPT_FAILONERROR`): its page is another file of the server to `Download`, a
    bad file or a wrong digest to `PackUpdate`, and its first line is a version to the self update
    (`main.cpp:487-507`), which offers it when it is later: `OfferedIffLater`, `self_update_page.cfg`.
12. The rename that saves `payload.bin` is not checked: if it fails, ams_rcm is
    written over the only bootloader (`main.cpp:1009`), and is what the next reboot
    saves: `RcmIsTemporary` and `BootloaderBeside` hold until the card fails.
13. A title is reported as installed with a truncated content when a read is short
    or a body fails (`sdmc_nsp.cpp:57`): `RetryRepairs` speaks of installations after
    the failure, and `InstalledHasRecords` of the meta content only. A meta content
    registered damaged blocks every later installation of its package. When a
    placeholder cannot be created, `close()` throws and the destructor, which does
    not, repeats the call: the program is aborted (`CreateThrows`). A cancelled
    installation may leave a title without contents. When the header of the package could not be
    read (`sdmc_nsp.cpp:68`, `nsp.cpp:36-54`) nothing is installed, the old title is gone and a
    success is reported: the exception of `InstalledHasRecords`, `titles_header.cfg`.
14. With `autoboot=N` and `autoboot_list=1`, `main_config.c:501` stores the second as
    the first: disabling is refused as already done. The numbers of the entries of `bootloader/ini`
    come from a count taken before empty sections are removed (`main.cpp:1533`), by
    loops that skip an element after each removal; a last line without newline is not
    rewritten; a file that cannot be read leaves the line numbers of the last one. With one entry
    too few, [A] on an entry of the folder counts as [B], with two as an empty menu
    (`Answer`). After a file inih refuses, the lines of the file before it are replaced in
    it, the refused one among them perhaps. For inih an indented line after a key is that key
    (`ini.c:171-178`), and is the line that is replaced; Hekate does not read it. `SaidIsDone`
    holds where the parsers agree (`odd`), `OnlyBootLinesChange` says which line is lost.
    When the first entry has the number -1 the clock refuses it for ever (`hekate_loop.cfg`);
    another number too small starts another entry (`hekate_entries.cfg`). Without `bootloader/ini` the program
    crashes after a pack was extracted (`ChoiceCrashes`). A write of the copy that
    stores nothing counts as a success (`CopyStoresNothing`, `spoilt`).
15. With the verification on, a digest is that of what could be read (`main_util.c:562`, 616), and
    empty without memory (552, 609): a copy truncated by a read error can pass for identical on the
    retry, is skipped, and `unzip()` returns 0. The results of minizip's cursor are not looked at
    either (`unzip.cpp:539`, 816): after a failure the rest of the archive is not extracted, and the file
    written last may be emptied, or the data of one entry written under the name of another.
    `SuccessCovers` leaves out just these entries (`overlooked`, `lost`).
16. The start of ams_rcm with the flag, which is to go on without the user, waits for a key with
    several emuNANDs (`main.c:902`) and when keys, a NAND or minerva are missing: `BackInSystem`
    and `DowngradeIsCleaned` end at that choice, and count the messages among the troubles.

## 5. What is proved

The proofs hold for every value of the constants that satisfies the named
assumptions of the modules.

`UnzipProofs`. The inductive invariant is `TypeOK /\ Control /\ Card /\ Behind`:
`Control` ties the counters to each other and to `pc` (it contains `CursorLag`), `Card`
says that the card still has the shape the assumptions give it, and `Behind` that
every entry the cursor has passed is `Settled` or one where a failure was overlooked; `Naming`, a
part of `Control`, ties the names the loop may go on with to the cursor. `SuccessCovers` is not inductive
as it stands because it speaks of the end only; `Behind` is its form for the
middle, and needs the lemmas that no entry writes where another one has
(`DestDistinct`) and that making room for one entry does not remove another
(`ClearedOthers`), which is where the assumptions on the archive are used.
`RunningFilesUntouched` follows step by step from the same invariant;
`KeptUnlessExposed` from a second invariant, `KeptInv`: no directory comes to stand where the archive
has a file, and a copy in progress is not of a file to keep that is not `Exposed`.

`HandoverProofs`. The first invariant, `IInv == TypeOK /\ Control /\ FilesHeld /\
PayloadHeld`, holds with any faults: `FilesHeld` says that a file of the
system is missing only while its `.temp` is there, `PayloadHeld` the same of
`payload.bin` against ams_rcm until the card fails, with what each place of the
programs knows. From it follow `RcmIsTemporary` and, step by step, the refinement `ImplementsSwap`. The
second, `BootInv`, follows the bootloader from name to name and holds until the
card fails (`card_failed`) and under `NoPayloadInPack`: after a failure of the card
`f_copy` may promote a truncated bootloader. It gives `BootloaderBeside` and
`FlagReachesRcm`. The third, `GoodInv`, holds as long as nothing goes wrong and for
packs that have all the files in use (`PackIsWhole`): it follows each of them from
the extraction (`Extracted`, `Ready`) through the list of ams_rcm (`Handing`,
`Bootloader`) to the places where no program is half-way (`Done`), and gives
`HandoverCompletes`.

Behind two of the liveness properties there is a number that falls, and that part is
proved. `StepsLeft` of `UnzipProofs` counts three steps for each entry left and falls at
every step of an extraction, a retry included, because the retry moves the loop
index (`AtMostThreeStepsAnEntry`). `StepsLeft` of `HandoverProofs` falls at every step of
the application after the start of an installation, of the boot and of ams_rcm, across
the reboots between them, except when the flag cannot be removed, and is 0 only where
the user has to act (`ProgramsComeToRest`). What stays with TLC is that the
scheduler lets them take these steps, and that one is enabled wherever the number is not 0.

`PackUpdateProofs`. `Requests` says of each place what was asked for, `Committed` that
from the cleaning on nothing can be refused any more, `FolderIsNew` which pack the
firmware folder is from; `Explained`, on its own, that an empty digest has been accounted for before
it is compared. The four safety properties of the module follow.

`DowngradeProofs`. `AppInv` is what one run of the application knows; its
surprising part is that a validation that passed and did not lead to an installation
was refused as too new and still is, which is why no later call installs another
firmware on its strength. `BatchInv` says where a batch is, and `FlowInv` where each
pending downgrade is between the application and the function that ends it. With
them `InstallsWhatWasValidated`, `DowngradeTracked` and `CleanWhenStarted` hold for any
number of calls, emuNANDs and rows of the table.

`SelfUpdateProofs`. `Control` names, for each place of the two programs, the file that is
left to go on from; with it `Recoverable` is inductive. `NewerIsLater` is a lemma about the
loop of `verify_update` alone: for versions of any length and any numbers it answers as the
lexicographic order does. The loop is a recursive function, and the theorems of the library on
induction cannot be instantiated, so the proof takes the least number at which two solutions of
its equation differ (`LeastNatural`, from the well-foundedness of the naturals) and finds one below
it. `Compared` carries the answer to the place where the update is offered: `OfferedIffLater`.

`DownloadProofs`. `Whole` is the property for each place: file and buffer are together the
beginning of the file of the server. The blocks append to it by associativity
(`Received`); the buffer is bounded by the guards of the three branches.

`TitleInstallProofs`. `Course` says where the loops are, `Records` at which steps meta
content and records are in place, `Clean` that a step fails only if a call
has failed or a damaged meta content is in its way. `RetryRepairs` needs three more:
`Registered` says that the contents an installation has gone past are there as long as no call of
it has failed; `OneFault`, that what a single failure leaves damaged belongs to the package whose
meta content is registered, so that its records lead the next installation to the damaged content
and its removal before it is written again; `Alone`, that without failures the title has one meta
content at most, and its ticket when it is said to be installed.

`HekateConfigProofs`. `Stages` and `Somewhere` say which of the two files is whole at each
stage of the replacement, and give `WholeCopyRemains`. `SaidIsDone` is a fact about the end of a
chain, and `Passed` names its links: the line numbers are those of the file that is there
(`LinesKnown`), both keys have one (`Tested`), the two numbers carried are those of an entry with
the name the user picked (`Carried`), the copy is what the loop writes (`Written`), and what it
writes Hekate will start (`Prepared`), where the parsers agree (`Tested` ties `odd` to the file). The step from the fourth to the fifth rests on three lemmas:
where the parsers agree on the keys the loop over the lines keeps the kinds of all lines, and so the
sections (`RewrittenKinds`, `SameSections`); where they agree on the entries the loops that remove
leave all but [config] (`AgreedMenu`);
and an entry is found under its number (`NumberIsBooted`). `OnlyBootLinesChange` follows
from `LinesKnown` and `Written`.

Only model-checked: the liveness properties (`Terminates`, `BackInSystem`,
`ComesToRest`, `ComesBack`, `DowngradeIsCleaned`, `UpdateArrives`, `UnattendedEnds`), which are out
of the prover's reach. Every invariant and action property of a run, and the refinement, is
a theorem. The recursive functions of `HekateConfig` are proved about for the arguments
the properties need (files of `EntriesAgree`), where their equation has one solution that can be written down;
that they say what the loops do on others is for the reader, and for TLC, to see.

## 6. Not modelled

- Third-party code, most of the repository: libnx, bdk, FatFs, minizip, json.hpp and the
  other libraries under `src/` are over nine tenths of its lines. They are used as
  given; what the models rely on is marked external in the map. Little of the
  line count is the program's own logic, and the map covers little of the whole.
- Display, translation and the text interface: presentation.
- The stand-alone copy of Daybreak: the application no longer starts it (the call is
  a comment, `main.cpp:1201-1215`), and its globals start fresh, so one call of
  `FirmwareInstall` covers it.
- The installers of XCI and NCZ files, which are never given one, and
  `buffered_placeholder_writer.cpp`, the only concurrent part, which is never
  instantiated; `downloadDirectoryRecursive`, never called.
- The lists of paths of the cleaning functions: straight-line deletions. `clean_sd`
  is an action of `PackUpdate`, by its effect on the firmware folder.
- Key derivation, prodinfo generation, partition repair and the menus of ams_rcm;
  90DNS and time: sequences of calls without state of their own.
- `autoconfig.ini` and the application's own settings: handlers that map names to
  fields one by one; `PackUpdate` has the modes they lead to.

Hazards without a property, with the reason in PROJECT.json: a kept file whose first
copy fails stays half-written, because the retry finds it there and keeps it
(`unzip.cpp:606`, allowed by `Settled`); the crash without `bootloader/ini`
(`main.cpp:1538`), which nothing in the code prevents. `Init` of
`Handover` gives every console a `payload.bin`, for a Mariko console without one
cannot have been started.

What could follow: numbers that fall for `Downgrade` and `HekateConfig`, as in
`UnzipProofs` and `HandoverProofs`; the suffixes of pre-releases in `verify_update`; the cleaning
lists against the files to keep.
