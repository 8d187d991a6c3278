--------------------------- MODULE HandoverProofs ---------------------------
(***************************************************************************)
(* Theorems about Handover.  The first part holds whatever fails; the      *)
(* second as long as no write to the card does, with packs that have no     *)
(* payload.bin.                                                            *)
(***************************************************************************)
EXTENDS Handover, TLAPS

\* Where each program can be in its list; a card that failed is something that
\* went wrong.
Control ==
  /\ pc \in {"extract", "writing"} => pack \in Versions
  /\ pc = "writing" => k \in 1..Len(PackFiles)
  /\ pc = "extract" => k \in 1..(Len(PackFiles) + 1)
  /\ pc \in {"arm", "arming"} => kind = "mariko"
  /\ pc = "promote" => k \in 1..7
  /\ pc = "copying" => k \in 4..5 /\ tmp["payload"] # None /\ cur[File] # None
  /\ card_failed => trouble # 0

\* A file in use is only missing while it waits under its other name, and the
\* system the application runs on has its files.
FilesHeld ==
  /\ \A s \in System : cur[s] # AmsRcm /\ tmp[s] # AmsRcm
  /\ \A s \in System : cur[s] = None => tmp[s] # None
  /\ pc \in AppAt => \A s \in System : cur[s] \in Versions
  /\ pc = "hos" => cur["package3"] \in Versions /\ cur["stratosphere"] \in Versions

\* ams_rcm takes the place of something, until the card fails.
PayloadHeld ==
  /\ RcmIsTemporary
  /\ cur["payload"] = None => tmp["payload"] # None
  /\ pc \in {"arm", "arming"} => tmp["payload"] # None \/ card_failed
  /\ \A f \in Payloads : cur[f] # AmsRcm

IInv == TypeOK /\ Control /\ FilesHeld /\ PayloadHeld

-----------------------------------------------------------------------------
\* What makes the second part true.
NoPayloadInPack == \A i \in 1..Len(PackFiles) : PackFiles[i] # "payload"

Mariko == kind = "mariko"

\* Only a Mariko console has its payload.bin replaced.
OthersKeepPayload == ~Mariko => cur["payload"] \in Versions /\ tmp["payload"] = None

\* The two names of the bootloader: alone under its own, or waiting for it.
Shape == Mariko =>
  IF tmp["payload"] = None THEN cur["payload"] \in Versions \cup {Damaged}
                           ELSE cur["payload"] \in {AmsRcm, None, Damaged}

\* What payload.bin holds where a program runs that came from it or goes to it.
Running == Mariko =>
  /\ pc \in {"hos", "extract", "writing", "aply"} => cur["payload"] \in Versions \cup {AmsRcm}
  /\ pc \in {"arm", "arming"} => tmp["payload"] \in Versions
  /\ pc \in {"flag", "leave", "choose", "rcm", "menu", "copying"} => cur["payload"] = AmsRcm
  /\ pc = "promote" /\ k <= 5 => cur["payload"] = AmsRcm
  /\ flag => pc \in {"leave", "off", "choose", "rcm"} /\ cur["payload"] = AmsRcm

\* What waits under payload.bin.temp can be damaged only if there is something
\* to write over it, and is what the pack wants once that is done.
Waiting ==
  /\ tmp["payload"] = Damaged => \E f \in Payloads : cur[f] # None
  /\ pc = "promote" /\ k = 5 /\ cur["reboot"] = None /\ cur["update"] # None
       /\ tmp["payload"] # None => tmp["payload"] = cur["update"]
  /\ pc = "promote" /\ k = 6 /\ Wanted # None /\ tmp["payload"] # None
       => tmp["payload"] = Wanted

\* BootloaderBeside, on a card that did not fail.
Beside ==
  cur["payload"] \in {None, Damaged} /\ (\A f \in Payloads : cur[f] # Damaged)
    => tmp["payload"] \in Versions

BootInv == OthersKeepPayload /\ Shape /\ Running /\ Waiting /\ Beside

-----------------------------------------------------------------------------
(* The list ams_rcm goes through. *)

\* The six entries of the list of amssu-rcm/main.c:773-784.
LEMMA ScriptFacts ==
  /\ Len(Script) = 6
  /\ \A j \in 1..6 : Script[j].op = "rename" <=> j \in {1, 2, 3, 6}
  /\ \A j \in 1..6 : Script[j].op = "copy" <=> j \in {4, 5}
  /\ \A j \in 1..3 : Script[j].file \in System
  /\ Script[4].file = "update" /\ Script[5].file = "reboot"
  /\ Script[6].file = "payload"
BY DEF Script, System

\* Where a rename of init_payload can be, and of which file.
LEMMA AtRename ==
  ASSUME IInv, At("rename")
  PROVE  /\ pc = "promote" /\ k \in {1, 2, 3, 6}
         /\ k \in 1..3 => File \in System
         /\ k = 6 => File = "payload"
         /\ File \in Slots
BY ScriptFacts DEF At, File, IInv, Control, Slots

\* Where a copy of init_payload can be, and from which payload.
LEMMA AtCopy ==
  ASSUME IInv, At("copy")
  PROVE  /\ pc = "promote" /\ k \in {4, 5}
         /\ k = 4 => File = "update"
         /\ k = 5 => File = "reboot"
         /\ File \in Payloads
BY ScriptFacts DEF At, File, IInv, Control, Payloads

-----------------------------------------------------------------------------
\* IInv holds before the first installation.
LEMMA InitIInv == Init => IInv
<1> SUFFICES ASSUME Init PROVE IInv
  OBVIOUS
<1>. USE ValuesAreDistinct, ParametersAreTyped
<1>1. PICK v \in Versions, absent \in SUBSET Optional :
        cur = [f \in Slots \cup Payloads |-> IF f \in absent THEN None ELSE v]
  BY DEF Init
<1>2. \A s \in Slots : s \notin absent
  BY DEF Slots, System, Payloads
<1>3. TypeOK
  <2>1. cur \in [Slots \cup Payloads -> Nodes] /\ tmp \in [Slots -> Nodes]
    BY <1>1 DEF Init, Nodes
  <2>2. flag \in BOOLEAN /\ clean \in BOOLEAN /\ card_failed \in BOOLEAN
    BY Zenon DEF Init
  <2>. QED
    BY <2>1, <2>2, ScriptFacts DEF Init, TypeOK
<1>4. Control
  BY DEF Init, Control
<1>5. \A s \in Slots : cur[s] = v /\ tmp[s] = None
  BY <1>1, <1>2 DEF Init
<1>6. FilesHeld
  BY <1>5 DEF Init, FilesHeld, AppAt, System, Slots
<1>7. PayloadHeld
  BY <1>1, <1>5 DEF Init, PayloadHeld, RcmIsTemporary, Slots
<1>. QED
  BY <1>3, <1>4, <1>6, <1>7 DEF IInv

\* A failure is counted.
LEMMA TroubleFacts ==
  ASSUME TypeOK, NEW fault, Trouble(fault)
  PROVE  /\ trouble' \in 0..MaxTrouble /\ trouble' # 0
         /\ clean' \in BOOLEAN /\ card_failed' \in BOOLEAN
         /\ card_failed => card_failed'
<1>1. trouble' \in 0..MaxTrouble /\ trouble' # 0
  BY ParametersAreTyped DEF TypeOK, Trouble
<1>2. clean' \in BOOLEAN /\ card_failed' \in BOOLEAN /\ (card_failed => card_failed')
  BY Zenon DEF Trouble
<1>. QED
  BY <1>1, <1>2

\* What the user does between two programs.
LEMMA UserKeepsIInv == IInv /\ User => IInv'
<1> SUFFICES ASSUME IInv, User PROVE IInv'
  OBVIOUS
<1>. USE ValuesAreDistinct, ParametersAreTyped, ScriptFacts
     DEF IInv, TypeOK, Control, FilesHeld, PayloadHeld, RcmIsTemporary, File,
         AppAt, RcmAt, history
<1>1. CASE Install
  BY <1>1 DEF Install, AppRuns, System
<1>2. CASE CleaningReboot
  BY <1>2 DEF CleaningReboot, AppRuns, System
<1>3. CASE KeyPressed
  BY <1>3 DEF KeyPressed
<1>4. CASE MenuLaunch
  BY <1>4 DEF MenuLaunch, Launch, RcmStarts
<1>5. CASE PowerOff
  BY <1>5 DEF PowerOff
<1>6. CASE ChooseEmunand
  BY <1>6 DEF ChooseEmunand
<1>. QED
  BY <1>1, <1>2, <1>3, <1>4, <1>5, <1>6 DEF User

\* What an extraction writes leaves the files in use alone.
LEMMA WriteFacts ==
  ASSUME IInv, pc \in {"extract", "writing"}, k \in 1..Len(PackFiles),
         NEW c \in Versions \cup {Damaged}, Write(PackFiles[k], c)
  PROVE  /\ cur' \in [Slots \cup Payloads -> Nodes]
         /\ tmp' \in [Slots -> Nodes]
         /\ \A s \in System : cur'[s] = cur[s]
         /\ \A s \in System : tmp'[s] = tmp[s] \/ tmp'[s] = c
         /\ tmp'["payload"] = tmp["payload"]
         /\ \A f \in Payloads \cup {"payload"} : cur'[f] = cur[f] \/ cur'[f] = c
<1>1. PackFiles[k] \in Slots \cup Payloads
  BY ParametersAreTyped
<1>2. c \in Nodes
  BY DEF Nodes
<1>. QED
  BY <1>1, <1>2 DEF IInv, TypeOK, Write, Slots, System, Payloads

\* An extraction keeps IInv: it stages files of System, and writes only under
\* names that are not payload.bin's ".temp".
LEMMA ExtractKeepsIInv == IInv /\ Extract => IInv'
<1> SUFFICES ASSUME IInv, Extract PROVE IInv'
  OBVIOUS
<1>. USE ValuesAreDistinct, ParametersAreTyped, ScriptFacts
     DEF IInv, TypeOK, Control, FilesHeld, PayloadHeld, RcmIsTemporary, File,
         AppAt, RcmAt, history
<1>1. CASE ExtractSkip
  BY <1>1 DEF ExtractSkip
<1>2. CASE ExtractOpen
  BY <1>2, WriteFacts DEF ExtractOpen
<1>3. CASE ExtractWrite
  BY <1>3, WriteFacts DEF ExtractWrite
<1>4. CASE ExtractGivesUp
  BY <1>4, TroubleFacts DEF ExtractGivesUp
<1>5. CASE ExtractEnds
  BY <1>5 DEF ExtractEnds
<1>. QED
  BY <1>1, <1>2, <1>3, <1>4, <1>5 DEF Extract

\* force_reboot keeps IInv: the bootloader is saved before ams_rcm takes its
\* place.
LEMMA ForceRebootKeepsIInv == IInv /\ ForceReboot => IInv'
<1> SUFFICES ASSUME IInv, ForceReboot PROVE IInv'
  OBVIOUS
<1>. USE ValuesAreDistinct, ParametersAreTyped, ScriptFacts
     DEF IInv, TypeOK, Control, FilesHeld, PayloadHeld, RcmIsTemporary, File,
         AppAt, RcmAt, history, Slots, System, Payloads, Nodes
<1>1. CASE SavePayload
  BY <1>1 DEF SavePayload, Saved
<1>7. CASE SaveFails
  <2>1. card_failed'
    BY <1>7, Zenon DEF SaveFails, Trouble
  <2>. QED
    BY <1>7, <2>1, TroubleFacts DEF SaveFails
<1>2. CASE ArmOpen
  BY <1>2 DEF ArmOpen
<1>3. CASE ArmWrite
  BY <1>3 DEF ArmWrite
<1>4. CASE ArmFails
  BY <1>4, TroubleFacts DEF ArmFails
<1>5. CASE SetFlag
  BY <1>5 DEF SetFlag
<1>8. CASE FlagNotSet
  BY <1>8, TroubleFacts DEF FlagNotSet
<1>6. CASE Leave
  BY <1>6 DEF Leave, RcmStarts
<1>. QED
  BY <1>1, <1>2, <1>3, <1>4, <1>5, <1>6, <1>7, <1>8 DEF ForceReboot

\* easy_rename keeps IInv, whatever step of it fails.
LEMMA EasyRenameKeepsIInv == IInv /\ EasyRename => IInv'
<1> SUFFICES ASSUME IInv, EasyRename PROVE IInv'
  OBVIOUS
<1>. USE ValuesAreDistinct, ParametersAreTyped, ScriptFacts, AtRename
     DEF IInv, TypeOK, Control, FilesHeld, PayloadHeld, RcmIsTemporary,
         AppAt, RcmAt, history, Slots, System, Payloads, Nodes
<1>1. CASE RenameNothing
  BY <1>1 DEF RenameNothing
<1>2. CASE RenameUnlink
  BY <1>2 DEF RenameUnlink
<1>3. CASE RenameMove
  BY <1>3 DEF RenameMove
<1>4. CASE RenameFails
  BY <1>4, TroubleFacts DEF RenameFails
<1>. QED
  BY <1>1, <1>2, <1>3, <1>4 DEF EasyRename

\* f_copy keeps IInv, a copy that fails half-way included.
LEMMA FCopyKeepsIInv == IInv /\ FCopy => IInv'
<1> SUFFICES ASSUME IInv, FCopy PROVE IInv'
  OBVIOUS
<1>. USE ValuesAreDistinct, ParametersAreTyped, ScriptFacts, AtCopy
     DEF IInv, TypeOK, Control, FilesHeld, PayloadHeld, RcmIsTemporary, File,
         AppAt, RcmAt, history, Slots, System, Payloads, Nodes
<1>1. CASE CopySkip
  BY <1>1 DEF CopySkip
<1>2. CASE CopyOpen
  BY <1>2 DEF CopyOpen
<1>3. CASE CopyWrite
  BY <1>3 DEF CopyWrite
<1>4. CASE CopyFails
  BY <1>4, TroubleFacts DEF CopyFails
<1>. QED
  BY <1>1, <1>2, <1>3, <1>4 DEF FCopy

\* The starts, the end of ams_rcm and the power cuts keep IInv.
LEMMA OthersKeepIInv ==
  IInv /\ (Boot \/ ReadFlag \/ FlagNotRemoved \/ PromoteEnds \/ Message \/ AutoReboot \/ PowerCut)
    => IInv'
<1> SUFFICES ASSUME IInv, Boot \/ ReadFlag \/ FlagNotRemoved \/ PromoteEnds \/ Message \/ AutoReboot \/ PowerCut
             PROVE  IInv'
  OBVIOUS
<1>. USE ValuesAreDistinct, ParametersAreTyped, ScriptFacts
     DEF IInv, TypeOK, Control, FilesHeld, PayloadHeld, RcmIsTemporary, File,
         AppAt, RcmAt, history
<1>1. CASE Boot
  BY <1>1 DEF Boot, Launch, RcmStarts
<1>2. CASE ReadFlag
  <2>1. flag' \in BOOLEAN
    BY <1>2, Zenon DEF ReadFlag
  <2>. QED
    BY <1>2, <2>1 DEF ReadFlag
<1>7. CASE FlagNotRemoved
  BY <1>7, TroubleFacts DEF FlagNotRemoved
<1>3. CASE PromoteEnds
  BY <1>3 DEF PromoteEnds
<1>6. CASE Message
  BY <1>6, TroubleFacts DEF Message
<1>4. CASE AutoReboot
  BY <1>4 DEF AutoReboot, Launch, RcmStarts
<1>5. CASE PowerCut
  BY <1>5, TroubleFacts DEF PowerCut
<1>. QED
  BY <1>1, <1>2, <1>3, <1>4, <1>5, <1>6, <1>7

\* IInv is inductive.
LEMMA StepKeepsIInv == IInv /\ [Next]_vars => IInv'
<1> SUFFICES ASSUME IInv, [Next]_vars PROVE IInv'
  OBVIOUS
<1>1. CASE Next
  BY <1>1, UserKeepsIInv, ExtractKeepsIInv, ForceRebootKeepsIInv,
     EasyRenameKeepsIInv, FCopyKeepsIInv, OthersKeepIInv DEF Next, Rcm
<1>2. CASE UNCHANGED vars
  BY <1>2 DEF vars, IInv, TypeOK, Control, FilesHeld, PayloadHeld,
     RcmIsTemporary, File
<1>. QED
  BY <1>1, <1>2

\* The invariant of the first part holds.
THEOREM Invariance == Spec => []IInv
BY InitIInv, StepKeepsIInv, PTL DEF Spec

\* Every variable keeps its type.
THEOREM TypeCorrect == Spec => []TypeOK
<1>1. IInv => TypeOK
  BY DEF IInv
<1>. QED
  BY <1>1, Invariance, PTL

\* Until a write to the card fails, and wherever the power is cut, ams_rcm is never
\* saved as the bootloader to put back, and never holds payload.bin with nothing
\* saved (main.cpp:1005).
THEOREM RcmIsTemporaryHolds == Spec => []RcmIsTemporary
<1>1. IInv => RcmIsTemporary
  BY DEF IInv, PayloadHeld
<1>. QED
  BY <1>1, Invariance, PTL

-----------------------------------------------------------------------------
(* The files in use: Handover implements Swap. *)

\* A step that gives no file of System other contents is a stutter of Swap.
LEMMA StutterOfSwap ==
  ASSUME \A s \in System : cur'[s] = cur[s] /\ tmp'[s] = tmp[s]
  PROVE  UNCHANGED <<Held, Staged>>
BY DEF Held, Staged

\* Writing a ".temp" file is staging it; a step of the extraction that writes
\* under the final name is not about the files in use.
LEMMA WriteRefines ==
  ASSUME IInv, pc \in {"extract", "writing"}, k \in 1..Len(PackFiles),
         NEW c \in Versions \cup {Damaged}, Write(PackFiles[k], c)
  PROVE  [S!Next]_<<Held, Staged>>
<1> DEFINE f == PackFiles[k]
<1>0. f \in Slots \cup Payloads
  BY ParametersAreTyped
<1>1. CASE f \in System
  <2>1. tmp' = [tmp EXCEPT ![f] = c] /\ cur' = cur
    BY <1>1 DEF Write
  <2>2. cur[f] # None
    BY <1>1, ValuesAreDistinct DEF IInv, FilesHeld, AppAt
  <2>3. f \in Slots
    BY <1>1 DEF Slots
  <2>4. Held' = Held
    BY <2>1, <2>2, <2>3 DEF Held, IInv, TypeOK
  <2>5. Staged' = [Staged EXCEPT ![f] = c]
    BY <1>1, <2>1, <2>2, <2>3 DEF Staged, IInv, TypeOK, Slots
  <2>6. S!Stage(f, c)
    BY <2>4, <2>5 DEF S!Stage
  <2>. QED
    BY <1>1, <2>6 DEF S!Next
<1>2. CASE f \notin System
  <2>1. \A s \in System : cur'[s] = cur[s] /\ tmp'[s] = tmp[s]
    BY <1>0, <1>2 DEF Write, IInv, TypeOK, Slots
  <2>. QED
    BY <2>1, StutterOfSwap
<1>. QED
  BY <1>1, <1>2

\* Removing the old file is the moment of the replacement.
LEMMA UnlinkRefines == IInv /\ RenameUnlink => [S!Next]_<<Held, Staged>>
<1> SUFFICES ASSUME IInv, RenameUnlink PROVE [S!Next]_<<Held, Staged>>
  OBVIOUS
<1>0. File \in Slots /\ File' = File
  BY AtRename DEF RenameUnlink, File
<1>1. /\ cur' = [cur EXCEPT ![File] = None] /\ tmp' = tmp
      /\ tmp[File] # None /\ cur[File] # None
  BY DEF RenameUnlink
<1>2. CASE File \in System
  <2>1. \A s \in System : cur'[s] = IF s = File THEN None ELSE cur[s]
    BY <1>1 DEF IInv, TypeOK, Slots
  <2>2. Held' = [Held EXCEPT ![File] = Staged[File]]
    BY <1>1, <1>2, <2>1 DEF Held, Staged
  <2>3. Staged' = [Staged EXCEPT ![File] = None]
    BY <1>1, <1>2, <2>1 DEF Staged
  <2>4. Staged[File] # None
    BY <1>1, <1>2 DEF Staged
  <2>. QED
    BY <1>2, <2>2, <2>3, <2>4 DEF S!Next, S!Commit
<1>3. CASE File \notin System
  BY <1>1, <1>3, StutterOfSwap DEF IInv, TypeOK
<1>. QED
  BY <1>2, <1>3

\* Giving the new file its name changes nothing that could not be recovered.
LEMMA MoveRefines == IInv /\ RenameMove => UNCHANGED <<Held, Staged>>
<1> SUFFICES ASSUME IInv, RenameMove PROVE UNCHANGED <<Held, Staged>>
  OBVIOUS
<1>0. File \in Slots
  BY AtRename DEF RenameMove
<1>1. /\ cur' = [cur EXCEPT ![File] = tmp[File]]
      /\ tmp' = [tmp EXCEPT ![File] = None]
      /\ tmp[File] # None /\ cur[File] = None
  BY DEF RenameMove
<1>2. \A s \in System : /\ cur'[s] = IF s = File THEN tmp[File] ELSE cur[s]
                        /\ tmp'[s] = IF s = File THEN None ELSE tmp[s]
  BY <1>0, <1>1 DEF IInv, TypeOK, Slots
<1>. QED
  BY <1>1, <1>2 DEF Held, Staged

\* Every step of the three programs is a step of Swap, or a stutter.
LEMMA StepRefines == IInv /\ [Next]_vars => [S!Next]_<<Held, Staged>>
<1> SUFFICES ASSUME IInv, [Next]_vars PROVE [S!Next]_<<Held, Staged>>
  OBVIOUS
<1>1. CASE UNCHANGED <<cur, tmp>>
  BY <1>1, StutterOfSwap
<1>2. CASE ExtractOpen
  BY <1>2, WriteRefines DEF ExtractOpen, IInv, TypeOK
<1>3. CASE ExtractWrite
  BY <1>3, WriteRefines DEF ExtractWrite, IInv, Control
<1>4. CASE SavePayload \/ ArmOpen \/ ArmWrite
  <2>1. \A s \in System : cur'[s] = cur[s] /\ tmp'[s] = tmp[s]
    BY <1>4 DEF SavePayload, ArmOpen, ArmWrite, IInv, TypeOK, System, Slots
  <2>. QED
    BY <2>1, StutterOfSwap
<1>5. CASE RenameUnlink
  BY <1>5, UnlinkRefines
<1>6. CASE RenameMove
  BY <1>6, MoveRefines
<1>7. CASE CopyOpen \/ CopyWrite
  <2>1. \A s \in System : cur'[s] = cur[s] /\ tmp'[s] = tmp[s]
    BY <1>7 DEF CopyOpen, CopyWrite, IInv, TypeOK, System, Slots
  <2>. QED
    BY <2>1, StutterOfSwap
<1>8. Next => \/ UNCHANGED <<cur, tmp>> \/ ExtractOpen \/ ExtractWrite
              \/ SavePayload \/ ArmOpen \/ ArmWrite \/ RenameUnlink
              \/ RenameMove \/ CopyOpen \/ CopyWrite
  BY DEF Next, User, Extract, ForceReboot, Rcm, EasyRename, FCopy, Install,
     CleaningReboot, ChooseEmunand, KeyPressed, MenuLaunch, PowerOff, ExtractSkip,
     ExtractGivesUp, ExtractEnds, SaveFails, ArmFails, SetFlag, FlagNotSet, Leave,
     Boot, ReadFlag, FlagNotRemoved, RenameNothing, RenameFails, CopySkip, CopyFails, PromoteEnds, Message, AutoReboot,
     PowerCut
<1>. QED
  BY <1>1, <1>2, <1>3, <1>4, <1>5, <1>6, <1>7, <1>8 DEF vars

\* The files in use are replaced the way Swap says: by no step, power cuts and
\* failures of the card included, is one of them lost or given contents that
\* were not staged for it.
THEOREM ImplementsSwapHolds == Spec => ImplementsSwap
<1>1. Init => S!Init
  <2> SUFFICES ASSUME Init PROVE S!Init
    OBVIOUS
  <2>1. PICK v \in Versions, absent \in SUBSET Optional :
          cur = [f \in Slots \cup Payloads |-> IF f \in absent THEN None ELSE v]
    BY DEF Init
  <2>2. \A s \in System : cur[s] = v /\ tmp[s] = None /\ v # None
    BY <2>1, ParametersAreTyped, ValuesAreDistinct DEF Init, Slots, System, Payloads
  <2>3. Held = [s \in System |-> v] /\ Staged = [s \in System |-> None]
    BY <2>2 DEF Held, Staged
  <2>. QED
    BY <2>3 DEF S!Init
<1>. QED
  BY <1>1, StepRefines, Invariance, PTL DEF Spec, ImplementsSwap, S!Spec

-----------------------------------------------------------------------------
(* The bootloader: as long as no write to the card fails, with packs that    *)
(* have no payload.bin.                                                    *)

\* BootInv holds before the first installation.
LEMMA InitBootInv == Init => BootInv
<1> SUFFICES ASSUME Init PROVE BootInv
  OBVIOUS
<1>1. PICK v \in Versions, absent \in SUBSET Optional :
        cur = [f \in Slots \cup Payloads |-> IF f \in absent THEN None ELSE v]
  BY DEF Init
<1>2. cur["payload"] = v /\ tmp["payload"] = None
  BY <1>1, ParametersAreTyped DEF Init, Slots, System, Payloads
<1>3. pc = "hos" /\ ~flag
  BY DEF Init
<1>. QED
  BY <1>2, <1>3, ValuesAreDistinct
     DEF BootInv, OthersKeepPayload, Shape, Running, Waiting, Beside,
         Mariko, Payloads

\* A step that leaves both names of the bootloader, the flag and the payloads
\* of the pack as they are only has to arrive where Running and Waiting allow.
LEMMA MoveKeepsBootInv ==
  ASSUME IInv, BootInv, UNCHANGED <<cur, tmp, flag, kind>>, Running', Waiting'
  PROVE  BootInv'
BY DEF BootInv, OthersKeepPayload, Shape, Beside, Mariko

\* What the user does keeps BootInv.
LEMMA UserKeepsBootInv == IInv /\ BootInv /\ User => BootInv'
<1> SUFFICES ASSUME IInv, BootInv, User PROVE BootInv'
  OBVIOUS
<1>1. UNCHANGED <<cur, tmp, flag, kind>>
  BY DEF User, Install, CleaningReboot, ChooseEmunand, KeyPressed, MenuLaunch, PowerOff
<1>2. Waiting'
  <2>1. pc' # "promote"
    BY DEF User, Install, CleaningReboot, ChooseEmunand, KeyPressed, MenuLaunch, PowerOff, Launch, RcmStarts
  <2>. QED
    BY <1>1, <2>1 DEF BootInv, Waiting
<1>3. Running'
  <2>. USE DEF BootInv, Running, Mariko
  <2>1. CASE Install
    BY <2>1 DEF Install, AppRuns
  <2>2. CASE CleaningReboot
    BY <2>2 DEF CleaningReboot, AppRuns
  <2>3. CASE KeyPressed
    BY <2>3 DEF KeyPressed
  <2>4. CASE MenuLaunch
    BY <2>4 DEF MenuLaunch, Launch, RcmStarts
  <2>5. CASE PowerOff
    BY <2>5 DEF PowerOff
  <2>6. CASE ChooseEmunand
    BY <2>6 DEF ChooseEmunand
  <2>. QED
    BY <2>1, <2>2, <2>3, <2>4, <2>5, <2>6 DEF User
<1>. QED
  BY <1>1, <1>2, <1>3, MoveKeepsBootInv

\* The extraction can only change the payloads of the pack, and it runs where
\* payload.bin can be booted.
LEMMA WriteKeepsBootInv ==
  ASSUME NoPayloadInPack, IInv, BootInv, pc \in {"extract", "writing"},
         k \in 1..Len(PackFiles), NEW c \in Versions \cup {Damaged},
         Write(PackFiles[k], c), pc' \in {"extract", "writing"},
         UNCHANGED <<flag, kind>>
  PROVE  BootInv'
<1>1. cur'["payload"] = cur["payload"] /\ tmp'["payload"] = tmp["payload"]
  <2>1. PackFiles[k] \in System \cup Payloads
    BY ParametersAreTyped DEF NoPayloadInPack, Slots
  <2>. QED
    BY <2>1 DEF Write, IInv, TypeOK, Slots, System, Payloads
<1>2. \A f \in Payloads : cur[f] # None => cur'[f] # None
  BY WriteFacts, ValuesAreDistinct
<1>3. cur["payload"] \in Versions \cup {AmsRcm}
  BY DEF BootInv, Running, OthersKeepPayload
<1>. QED
  BY <1>1, <1>2, <1>3, ValuesAreDistinct
     DEF BootInv, OthersKeepPayload, Shape, Running, Waiting, Beside,
         Mariko

\* An extraction keeps BootInv when the pack has no payload.bin.
LEMMA ExtractKeepsBootInv == NoPayloadInPack /\ IInv /\ BootInv /\ Extract => BootInv'
<1> SUFFICES ASSUME NoPayloadInPack, IInv, BootInv, Extract PROVE BootInv'
  OBVIOUS
<1>1. CASE ExtractOpen
  BY <1>1, WriteKeepsBootInv DEF ExtractOpen, IInv, TypeOK
<1>2. CASE ExtractWrite
  BY <1>2, WriteKeepsBootInv DEF ExtractWrite, IInv, Control
<1>3. CASE ExtractSkip \/ ExtractGivesUp \/ ExtractEnds
  <2>1. /\ UNCHANGED <<cur, tmp, flag, kind>>
        /\ pc \in {"extract", "writing"} /\ pc' \in {"extract", "aply"}
    BY <1>3 DEF ExtractSkip, ExtractGivesUp, ExtractEnds
  <2>. QED
    BY <2>1, MoveKeepsBootInv DEF BootInv, Running, Waiting, Mariko
<1>. QED
  BY <1>1, <1>2, <1>3 DEF Extract

\* force_reboot keeps BootInv: the flag is set when payload.bin is ams_rcm.
LEMMA ForceRebootKeepsBootInv ==
  ~card_failed' /\ IInv /\ BootInv /\ ForceReboot => BootInv'
<1> SUFFICES ASSUME ~card_failed', IInv, BootInv, ForceReboot PROVE BootInv'
  OBVIOUS
<1>0. "payload" \in Slots /\ System \subseteq Slots /\ "payload" \notin Payloads
  BY DEF Slots, System, Payloads
<1>. USE <1>0, ValuesAreDistinct
     DEF BootInv, OthersKeepPayload, Shape, Running, Waiting, Beside,
         Mariko, IInv, TypeOK
<1>1. CASE SavePayload
  BY <1>1 DEF SavePayload, Saved
<1>2. CASE ArmOpen
  BY <1>2 DEF ArmOpen, Control
<1>3. CASE ArmWrite
  BY <1>3 DEF ArmWrite, Control
<1>4. CASE SaveFails \/ ArmFails \/ FlagNotSet
  BY <1>4 DEF SaveFails, ArmFails, FlagNotSet, Trouble
<1>5. CASE SetFlag
  BY <1>5 DEF SetFlag
<1>6. CASE Leave
  BY <1>6 DEF Leave, RcmStarts
<1>. QED
  BY <1>1, <1>2, <1>3, <1>4, <1>5, <1>6 DEF ForceReboot

\* easy_rename keeps BootInv: payload.bin is only given up for a whole one.
LEMMA EasyRenameKeepsBootInv ==
  ~card_failed' /\ IInv /\ BootInv /\ EasyRename => BootInv'
<1> SUFFICES ASSUME ~card_failed', IInv, BootInv, EasyRename PROVE BootInv'
  OBVIOUS
<1>. USE ValuesAreDistinct, AtRename
     DEF BootInv, OthersKeepPayload, Shape, Running, Waiting, Beside,
         Mariko, IInv, TypeOK, PayloadHeld, RcmIsTemporary, Wanted, Slots,
         System, Payloads, Nodes, history
<1>1. CASE RenameNothing
  BY <1>1 DEF RenameNothing
<1>2. CASE RenameUnlink
  BY <1>2 DEF RenameUnlink
<1>3. CASE RenameMove
  BY <1>3 DEF RenameMove
<1>4. CASE RenameFails
  BY <1>4 DEF RenameFails, Trouble
<1>. QED
  BY <1>1, <1>2, <1>3, <1>4 DEF EasyRename

\* f_copy keeps BootInv: while payload.bin.temp is being written, payload.bin
\* is still ams_rcm.
LEMMA FCopyKeepsBootInv == ~card_failed' /\ IInv /\ BootInv /\ FCopy => BootInv'
<1> SUFFICES ASSUME ~card_failed', IInv, BootInv, FCopy PROVE BootInv'
  OBVIOUS
<1>. USE ValuesAreDistinct, AtCopy
     DEF BootInv, OthersKeepPayload, Shape, Running, Waiting, Beside,
         Mariko, IInv, TypeOK, PayloadHeld, RcmIsTemporary, Wanted, Slots,
         System, Payloads, Nodes
<1>1. CASE CopySkip
  BY <1>1 DEF CopySkip
<1>2. CASE CopyOpen
  BY <1>2 DEF CopyOpen
<1>3. CASE CopyWrite
  <2>1. k \in {4, 5} /\ (k = 4 => File = "update") /\ (k = 5 => File = "reboot")
    BY <1>3, ScriptFacts DEF CopyWrite, Control, File
  <2>2. cur[File] # None /\ cur[File] # AmsRcm
    BY <1>3, <2>1 DEF CopyWrite, Control
  <2>3. /\ tmp'["payload"] = cur[File] /\ k' = k + 1 /\ pc' = "promote"
        /\ cur["payload"] = AmsRcm /\ Mariko /\ ~flag
        /\ UNCHANGED <<cur, flag, kind>>
    BY <1>3 DEF CopyWrite, Control
  <2>4. CASE k = 4
    BY <2>1, <2>2, <2>3, <2>4
  <2>5. CASE k = 5
    BY <2>1, <2>2, <2>3, <2>5
  <2>. QED
    BY <2>1, <2>4, <2>5
<1>4. CASE CopyFails
  BY <1>4 DEF CopyFails, Trouble
<1>. QED
  BY <1>1, <1>2, <1>3, <1>4 DEF FCopy

\* The starts, the end of ams_rcm and the power cuts keep BootInv.
LEMMA OthersKeepBootInv ==
  ~card_failed' /\ IInv /\ BootInv
    /\ (Boot \/ ReadFlag \/ FlagNotRemoved \/ PromoteEnds \/ Message \/ AutoReboot \/ PowerCut)
    => BootInv'
<1> SUFFICES ASSUME ~card_failed', IInv, BootInv,
                    Boot \/ ReadFlag \/ FlagNotRemoved \/ PromoteEnds \/ Message \/ AutoReboot \/ PowerCut
             PROVE  BootInv'
  OBVIOUS
<1>. USE ValuesAreDistinct
     DEF BootInv, OthersKeepPayload, Shape, Running, Waiting, Beside,
         Mariko
<1>1. CASE Boot
  BY <1>1 DEF Boot, Launch, RcmStarts
<1>2. CASE ReadFlag
  BY <1>2 DEF ReadFlag
<1>7. CASE FlagNotRemoved
  BY <1>7 DEF FlagNotRemoved, Trouble
<1>3. CASE PromoteEnds
  BY <1>3 DEF PromoteEnds
<1>6. CASE Message
  BY <1>6 DEF Message
<1>4. CASE AutoReboot
  BY <1>4 DEF AutoReboot, Launch, RcmStarts
<1>5. CASE PowerCut
  BY <1>5 DEF PowerCut
<1>. QED
  BY <1>1, <1>2, <1>3, <1>4, <1>5, <1>6, <1>7

\* A card that failed has failed.
LEMMA CardStaysFailed == card_failed /\ [Next]_vars => card_failed'
BY DEF vars, Next, User, Extract, ForceReboot, Rcm, EasyRename, FCopy, Install,
   CleaningReboot, ChooseEmunand, KeyPressed, MenuLaunch, PowerOff, ExtractSkip, ExtractOpen,
   ExtractWrite, ExtractGivesUp, ExtractEnds, SavePayload, SaveFails, ArmOpen, ArmWrite,
   ArmFails, SetFlag, FlagNotSet, Leave, Boot, ReadFlag, FlagNotRemoved, RenameNothing, RenameUnlink,
   RenameMove, RenameFails, CopySkip, CopyOpen, CopyWrite, CopyFails,
   PromoteEnds, Message, AutoReboot, PowerCut, Trouble, history

\* BootInv is inductive relative to IInv, until the card fails.
LEMMA StepKeepsBootInv ==
  NoPayloadInPack /\ IInv /\ (card_failed \/ BootInv) /\ [Next]_vars
    => (card_failed \/ BootInv)'
<1> SUFFICES ASSUME NoPayloadInPack, IInv, card_failed \/ BootInv, [Next]_vars,
                    ~card_failed'
             PROVE  BootInv'
  OBVIOUS
<1>0. BootInv
  BY CardStaysFailed
<1>1. CASE Next
  BY <1>0, <1>1, UserKeepsBootInv, ExtractKeepsBootInv, ForceRebootKeepsBootInv,
     EasyRenameKeepsBootInv, FCopyKeepsBootInv, OthersKeepBootInv DEF Next, Rcm
<1>2. CASE UNCHANGED vars
  BY <1>0, <1>2 DEF vars, BootInv, OthersKeepPayload, Shape, Running, Waiting,
     Beside, Mariko, Wanted
<1>. QED
  BY <1>1, <1>2

\* The invariant of the second part holds until the card fails.
LEMMA BootInvariance ==
  ASSUME NoPayloadInPack
  PROVE  Spec => [](card_failed \/ BootInv)
<1>1. Init => card_failed \/ BootInv
  BY InitBootInv
<1>. QED
  BY NoPayloadInPack, <1>1, StepKeepsBootInv, Invariance, PTL DEF Spec

\* Wherever the power is cut, a console left without a payload.bin it can boot
\* has a whole bootloader beside it, unless the card failed.
THEOREM BootloaderBesideHolds ==
  ASSUME NoPayloadInPack
  PROVE  Spec => []BootloaderBeside
<1>1. card_failed \/ BootInv => BootloaderBeside
  BY DEF BootInv, Beside, BootloaderBeside
<1>. QED
  BY NoPayloadInPack, <1>1, BootInvariance, PTL

\* A Mariko console that reboots with the flag set starts ams_rcm, unless the
\* card failed.
THEOREM FlagReachesRcmHolds ==
  ASSUME NoPayloadInPack
  PROVE  Spec => []FlagReachesRcm
<1>1. card_failed \/ BootInv => FlagReachesRcm
  BY DEF BootInv, Running, FlagReachesRcm, Mariko
<1>. QED
  BY NoPayloadInPack, <1>1, BootInvariance, PTL
-----------------------------------------------------------------------------
(* What happens when nothing goes wrong. *)

\* A pack has every file in use.
PackIsWhole == \A s \in System : \E i \in 1..Len(PackFiles) : PackFiles[i] = s

\* The file is the one of the pack, or will be when it is renamed.
Ready(s) ==
  \/ tmp[s] = None /\ (pack # None => cur[s] = pack)
  \/ tmp[s] = pack

\* The file that is being extracted.
InHand(s) == pc = "writing" /\ PackFiles[k] = s

\* The files of the pack that the extraction has passed.
Extracted == pc \in {"extract", "writing"} =>
  /\ \A s \in System : tmp[s] \in {None, pack} \/ InHand(s)
  /\ \A i \in 1..(k - 1) : PackFiles[i] \in System => Ready(PackFiles[i]) \/ InHand(PackFiles[i])

\* From the reboot to the renames, everything is staged; ams_rcm starts with the
\* flag, and what waits under payload.bin.temp follows the list.
Handing ==
  /\ pc \in {"aply", "arm", "arming", "flag", "leave", "choose", "rcm", "promote", "copying"} \/ flag =>
       \A s \in System : Ready(s)
  /\ pc \in {"leave", "choose", "rcm"} => flag
  /\ pc = "off" /\ flag => kind = "mariko"
  /\ flag => pc \in {"leave", "off", "choose", "rcm"}
  /\ pc = "promote" => \A i \in 1..3 : i < k => tmp[Script[i].file] = None
  /\ pc = "copying" => \A s \in System : tmp[s] = None

Bootloader ==
  IF kind # "mariko" THEN tmp["payload"] = None
  ELSE /\ pc \in {"extract", "writing", "aply"} => tmp["payload"] = None
       /\ pc \in {"flag", "leave", "choose", "rcm"} \/ flag => cur["payload"] = AmsRcm
       /\ pc = "promote" /\ k < 7 => tmp["payload"] # None
       /\ pc = "promote" /\ k = 5 /\ cur["update"] # None => tmp["payload"] = cur["update"]
       /\ pc = "promote" /\ k = 6 /\ Wanted # None => tmp["payload"] = Wanted

\* Where no program is half-way, the pack is there.
Done ==
  pc \in {"hos", "menu", "auto_reboot", "dead"} \/ (pc = "off" /\ ~flag) \/ (pc = "promote" /\ k = 7) =>
    /\ \A s \in Slots : tmp[s] = None
    /\ pack # None => \A s \in System : cur[s] = pack
    /\ pack # None /\ kind = "mariko" /\ Wanted # None => cur["payload"] = Wanted

\* All of it, as long as nothing has gone wrong.
GoodInv == pc # "message" /\ Extracted /\ Handing /\ Bootloader /\ Done
-----------------------------------------------------------------------------
LEMMA InitGoodInv == Init => GoodInv
<1> SUFFICES ASSUME Init PROVE GoodInv
  OBVIOUS
<1>1. \A s \in Slots : tmp[s] = None
  BY DEF Init
<1>. QED
  BY <1>1 DEF Init, GoodInv, Extracted, Handing, Bootloader, Done, Slots

LEMMA UserKeepsGoodInv == trouble = 0 /\ IInv /\ GoodInv /\ User => GoodInv'
<1> SUFFICES ASSUME trouble = 0, IInv, GoodInv, User PROVE GoodInv'
  OBVIOUS
<1>. USE ValuesAreDistinct
     DEF GoodInv, Extracted, Handing, Bootloader, Done, Ready, InHand, Wanted,
         IInv, Control, PayloadHeld, RcmIsTemporary, Slots, history
<1>1. CASE Install
  BY <1>1 DEF Install, AppRuns
<1>2. CASE CleaningReboot
  BY <1>2 DEF CleaningReboot, AppRuns
<1>3. CASE KeyPressed
  BY <1>3 DEF KeyPressed
<1>4. CASE MenuLaunch
  BY <1>4 DEF MenuLaunch, Launch, RcmStarts
<1>5. CASE PowerOff
  BY <1>5 DEF PowerOff
<1>6. CASE ChooseEmunand
  BY <1>6 DEF ChooseEmunand
<1>. QED
  BY <1>1, <1>2, <1>3, <1>4, <1>5, <1>6 DEF User

\* What writing one file does to the others.
LEMMA WriteOne ==
  ASSUME TypeOK, NEW f \in Slots \cup Payloads, NEW c, Write(f, c)
  PROVE  /\ \A s \in System : cur'[s] = cur[s]
         /\ \A s \in System : tmp'[s] = IF s = f THEN c ELSE tmp[s]
         /\ tmp'["payload"] = tmp["payload"]
BY DEF TypeOK, Write, Slots, System, Payloads

LEMMA ExtractKeepsGoodInv ==
  ASSUME PackIsWhole, trouble = 0, IInv, GoodInv, Extract, trouble' = 0
  PROVE  GoodInv'
<1>. USE ValuesAreDistinct DEF GoodInv, history
<1>0. /\ pc = "writing" => k \in 1..Len(PackFiles)
      /\ pc = "extract" => k \in 1..(Len(PackFiles) + 1)
      /\ TypeOK /\ Len(PackFiles) \in Nat
      /\ \A i \in 1..Len(PackFiles) : PackFiles[i] \in Slots \cup Payloads
      /\ pc \in {"extract", "writing"} => ~flag /\ pack \in Versions
  BY ParametersAreTyped DEF IInv, Control, Handing
<1>1. CASE ExtractSkip
  <2>1. /\ pc = "extract" /\ pc' = "extract" /\ k \in 1..Len(PackFiles) /\ k' = k + 1
        /\ cur[PackFiles[k]] = pack
        /\ cur' = cur /\ tmp' = tmp /\ pack' = pack
    BY <1>0, <1>1 DEF ExtractSkip, Identical
  <2>2. \A s \in System : tmp'[s] \in {None, pack'}
    BY <2>1 DEF Extracted, InHand
  <2>3. ASSUME NEW i \in 1..(k' - 1), PackFiles[i] \in System
        PROVE  Ready(PackFiles[i])'
    <3>1. CASE i = k
      BY <2>1, <2>2, <2>3, <3>1 DEF Ready
    <3>2. CASE i # k
      <4>1. i \in 1..(k - 1)
        BY <2>1, <3>2
      <4>. QED
        BY <2>1, <2>3, <4>1 DEF Extracted, Ready, InHand
    <3>. QED
      BY <3>1, <3>2
  <2>4. Extracted'
    BY <2>2, <2>3 DEF Extracted
  <2>. QED
    BY <1>0, <1>1, <2>4 DEF ExtractSkip, Handing, Bootloader, Done
<1>2. CASE ExtractOpen
  <2>1. /\ \A s \in System : cur'[s] = cur[s]
        /\ \A s \in System : tmp'[s] = IF s = PackFiles[k] THEN Damaged ELSE tmp[s]
        /\ tmp'["payload"] = tmp["payload"]
    BY <1>0, <1>2, WriteOne DEF ExtractOpen
  <2>2. Extracted'
    BY <1>0, <1>2, <2>1 DEF ExtractOpen, Extracted, Ready, InHand
  <2>. QED
    BY <1>0, <1>2, <2>1, <2>2 DEF ExtractOpen, Handing, Bootloader, Done
<1>3. CASE ExtractWrite
  <2>1. /\ \A s \in System : cur'[s] = cur[s]
        /\ \A s \in System : tmp'[s] = IF s = PackFiles[k] THEN pack ELSE tmp[s]
        /\ tmp'["payload"] = tmp["payload"]
    BY <1>0, <1>3, WriteOne DEF ExtractWrite
  <2>2. /\ pc = "writing" /\ pc' = "extract" /\ k \in 1..Len(PackFiles) /\ k' = k + 1
        /\ pack' = pack
    BY <1>0, <1>3 DEF ExtractWrite
  <2>3. \A s \in System : tmp'[s] \in {None, pack'}
    BY <2>1, <2>2 DEF Extracted, InHand
  <2>4. ASSUME NEW i \in 1..(k' - 1), PackFiles[i] \in System
        PROVE  Ready(PackFiles[i])'
    <3>1. CASE PackFiles[i] = PackFiles[k]
      BY <2>1, <2>2, <2>4, <3>1 DEF Ready
    <3>2. CASE PackFiles[i] # PackFiles[k]
      <4>1. i \in 1..(k - 1)
        BY <2>2, <3>2
      <4>. QED
        BY <2>1, <2>2, <2>4, <3>2, <4>1 DEF Extracted, Ready, InHand
    <3>. QED
      BY <3>1, <3>2
  <2>5. Extracted'
    BY <2>3, <2>4 DEF Extracted
  <2>. QED
    BY <1>0, <1>3, <2>1, <2>5 DEF ExtractWrite, Handing, Bootloader, Done
<1>4. CASE ExtractGivesUp
  BY <1>4 DEF ExtractGivesUp, Trouble
<1>5. CASE ExtractEnds
  <2>1. \A s \in System : Ready(s)
    BY <1>0, <1>5 DEF ExtractEnds, PackIsWhole, Extracted, InHand
  <2>. QED
    BY <1>0, <1>5, <2>1 DEF ExtractEnds, Extracted, Handing, Bootloader, Done, Ready
<1>. QED
  BY <1>1, <1>2, <1>3, <1>4, <1>5 DEF Extract

LEMMA ForceRebootKeepsGoodInv ==
  ASSUME trouble = 0, IInv, GoodInv, ForceReboot, trouble' = 0
  PROVE  GoodInv'
<1>. USE ValuesAreDistinct
     DEF GoodInv, Extracted, Handing, Bootloader, Done, Ready, InHand, Wanted,
         IInv, TypeOK, Control, PayloadHeld, RcmIsTemporary, Slots, System, Payloads, history
<1>1. CASE SavePayload
  BY <1>1 DEF SavePayload, Saved
<1>2. CASE ArmOpen
  BY <1>2 DEF ArmOpen
<1>3. CASE ArmWrite
  BY <1>3 DEF ArmWrite
<1>4. CASE SaveFails \/ ArmFails \/ FlagNotSet
  BY <1>4 DEF SaveFails, ArmFails, FlagNotSet, Trouble
<1>5. CASE SetFlag
  BY <1>5 DEF SetFlag
<1>6. CASE Leave
  BY <1>6 DEF Leave, RcmStarts
<1>. QED
  BY <1>1, <1>2, <1>3, <1>4, <1>5, <1>6 DEF ForceReboot

\* What the invariant says in the list, with the files it names.
LEMMA InScript ==
  ASSUME IInv, GoodInv, pc = "promote"
  PROVE  /\ k \in 1..7 /\ ~flag
         /\ k = 2 => File = "package3" /\ tmp["stratosphere"] = None
         /\ k = 1 => File = "stratosphere"
         /\ k = 3 => File = "nro" /\ tmp["stratosphere"] = None /\ tmp["package3"] = None
         /\ k = 4 => File = "update"
         /\ k = 5 => File = "reboot"
         /\ k = 6 => File = "payload"
         /\ k > 3 => \A s \in System : tmp[s] = None
BY DEF Script, File, IInv, Control, GoodInv, Handing, System

LEMMA RcmKeepsGoodInv ==
  ASSUME trouble = 0, IInv, GoodInv, Rcm, trouble' = 0
  PROVE  GoodInv'
<1>. USE ValuesAreDistinct, ScriptFacts, AtRename, AtCopy
     DEF GoodInv, Extracted, Handing, Bootloader, Done, Ready, InHand, Wanted,
         IInv, TypeOK, Control, PayloadHeld, RcmIsTemporary, Slots, System, Payloads, history
<1>1. CASE ReadFlag
  BY <1>1 DEF ReadFlag
<1>2. CASE RenameNothing
  <2>1. pc = "promote" /\ pc' = "promote" /\ k \in {1, 2, 3, 6} /\ k' = k + 1
        /\ UNCHANGED <<cur, tmp, flag, kind, pack>> /\ tmp[File] = None
    BY <1>2 DEF RenameNothing
  <2>2. Extracted' /\ Bootloader' /\ pc' # "message"
    BY <2>1, InScript
  <2>3. \A s \in System : Ready(s)'
    BY <2>1
  <2>4. Handing'
    BY <2>1, <2>3, InScript DEF Script
  <2>5. k = 6 => \A s \in Slots : tmp[s] = None
    BY <2>1, InScript
  <2>6. Done'
    BY <2>1, <2>5
  <2>. QED
    BY <2>2, <2>4, <2>6
<1>3. CASE RenameUnlink
  BY <1>3 DEF RenameUnlink, File
<1>4. CASE RenameMove
  <2>1. pc = "promote" /\ pc' = "promote" /\ k \in {1, 2, 3, 6} /\ k' = k + 1
        /\ UNCHANGED <<flag, kind, pack>> /\ File \in Slots
        /\ cur' = [cur EXCEPT ![File] = tmp[File]]
        /\ tmp' = [tmp EXCEPT ![File] = None]
        /\ tmp[File] # None
    BY <1>4 DEF RenameMove
  <2>2. /\ \A s \in Slots : tmp'[s] = IF s = File THEN None ELSE tmp[s]
        /\ \A s \in Slots \cup Payloads : cur'[s] = IF s = File THEN tmp[File] ELSE cur[s]
    BY <2>1
  <2>3. k # 6 => File # "payload"
    BY <2>1, InScript
  <2>4. Extracted' /\ pc' # "message"
    BY <2>1
  <2>5. Bootloader'
    BY <2>1, <2>2, <2>3, InScript
  <2>6. \A s \in System : Ready(s)'
    BY <2>1, <2>2
  <2>7. Handing'
    BY <2>1, <2>2, <2>6, InScript DEF Script
  <2>8. k = 6 => \A s \in Slots : tmp'[s] = None
    BY <2>1, <2>2, InScript
  <2>9. k = 6 /\ kind = "mariko" /\ Wanted' # None => cur'["payload"] = Wanted'
    BY <2>1, <2>2, InScript
  <2>10. Done'
    BY <2>1, <2>6, <2>8, <2>9
  <2>. QED
    BY <2>4, <2>5, <2>7, <2>10
<1>5. CASE RenameFails
  BY <1>5 DEF RenameFails, Trouble
<1>6. CASE CopySkip
  <2>1. /\ pc = "promote" /\ pc' = "promote" /\ k \in {4, 5} /\ k' = k + 1
        /\ UNCHANGED <<cur, tmp, flag, kind, pack>>
        /\ tmp["payload"] = None \/ cur[File] = None
    BY <1>6 DEF CopySkip
  <2>2. Extracted' /\ Done' /\ pc' # "message"
    BY <2>1
  <2>3. Bootloader'
    BY <2>1, InScript
  <2>4. Handing'
    BY <2>1, InScript DEF Script
  <2>. QED
    BY <2>2, <2>3, <2>4
<1>7. CASE CopyOpen
  <2>1. /\ pc = "promote" /\ pc' = "copying" /\ k \in {4, 5} /\ k' = k
        /\ UNCHANGED <<cur, flag, kind, pack>>
        /\ tmp["payload"] # None
        /\ tmp' = [tmp EXCEPT !["payload"] = Damaged]
    BY <1>7 DEF CopyOpen
  <2>2. \A s \in System : tmp'[s] = tmp[s]
    BY <2>1
  <2>3. Extracted' /\ Bootloader' /\ Done' /\ pc' # "message"
    BY <2>1
  <2>4. Handing'
    BY <2>1, <2>2, InScript
  <2>. QED
    BY <2>3, <2>4
<1>8. CASE CopyWrite
  BY <1>8 DEF CopyWrite, File
<1>9. CASE CopyFails
  BY <1>9 DEF CopyFails, Trouble
<1>10. CASE PromoteEnds
  BY <1>10 DEF PromoteEnds
<1>11. CASE Message \/ FlagNotRemoved
  BY <1>11 DEF Message, FlagNotRemoved, Trouble
<1>12. CASE AutoReboot
  BY <1>12 DEF AutoReboot, Launch, RcmStarts
<1>. QED
  BY <1>1, <1>2, <1>3, <1>4, <1>5, <1>6, <1>7, <1>8, <1>9, <1>10, <1>11, <1>12
     DEF Rcm, EasyRename, FCopy

LEMMA BootKeepsGoodInv ==
  ASSUME trouble = 0, IInv, GoodInv, Boot
  PROVE  GoodInv'
BY ValuesAreDistinct
   DEF Boot, Launch, RcmStarts, GoodInv, Extracted, Handing, Bootloader, Done, Ready, InHand, Wanted,
       IInv, Control, PayloadHeld, RcmIsTemporary, Slots, history

\* What has gone wrong has gone wrong.
LEMMA TroubleStays == TypeOK /\ trouble # 0 /\ [Next]_vars => trouble' # 0
BY DEF TypeOK, vars, Next, User, Extract, ForceReboot, Rcm, EasyRename, FCopy, Install,
   CleaningReboot, ChooseEmunand, KeyPressed, MenuLaunch, PowerOff, ExtractSkip, ExtractOpen,
   ExtractWrite, ExtractGivesUp, ExtractEnds, SavePayload, SaveFails, ArmOpen, ArmWrite,
   ArmFails, SetFlag, FlagNotSet, Leave, Boot, ReadFlag, FlagNotRemoved, RenameNothing, RenameUnlink,
   RenameMove, RenameFails, CopySkip, CopyOpen, CopyWrite, CopyFails,
   PromoteEnds, Message, AutoReboot, PowerCut, Trouble, history

LEMMA StepKeepsGoodInv ==
  PackIsWhole /\ IInv /\ (trouble = 0 => GoodInv) /\ [Next]_vars
    => (trouble = 0 => GoodInv)'
<1> SUFFICES ASSUME PackIsWhole, IInv, trouble = 0 => GoodInv, [Next]_vars, trouble' = 0
             PROVE  GoodInv'
  OBVIOUS
<1>0. trouble = 0 /\ GoodInv
  BY TroubleStays DEF IInv
<1>1. CASE PowerCut
  BY <1>0, <1>1 DEF PowerCut, Trouble
<1>2. CASE UNCHANGED vars
  BY <1>0, <1>2 DEF vars, GoodInv, Extracted, Handing, Bootloader, Done, Ready, InHand, Wanted
<1>. QED
  BY <1>0, <1>1, <1>2, UserKeepsGoodInv, ExtractKeepsGoodInv, ForceRebootKeepsGoodInv,
     RcmKeepsGoodInv, BootKeepsGoodInv DEF Next

\* With packs that have all the files in use, and as long as nothing goes wrong,
\* the system that comes up is that of the pack, and so is the bootloader
\* (main.cpp:2915 to the renames of amssu-rcm/main.c:773).
THEOREM HandoverCompletesHolds ==
  ASSUME PackIsWhole
  PROVE  Spec => []HandoverCompletes
<1>1. Init => (trouble = 0 => GoodInv)
  BY InitGoodInv
<1>2. (trouble = 0 => GoodInv) => HandoverCompletes
  BY DEF GoodInv, Done, HandoverCompletes
<1>. QED
  BY PackIsWhole, <1>1, <1>2, StepKeepsGoodInv, Invariance, PTL DEF Spec

-----------------------------------------------------------------------------
(* The programs come to rest. *)

Programs == Extract \/ ForceReboot \/ Boot \/ Rcm

\* An entry of the list that takes two steps: a copy, or a rename over a file.
Turn == IF pc = "promote" /\ k <= Len(Script) /\ (Script[k].op = "copy" \/ cur[File] # None)
        THEN 1 ELSE 0

\* A flag that could not be removed is obeyed once more.
Again == IF flag THEN 20 ELSE 0

\* The steps of the programs, at most, before the user has to act.
StepsLeft ==
  CASE pc = "extract" -> 2 * (Len(PackFiles) + 1 - k) + 26
    [] pc = "writing" -> 2 * (Len(PackFiles) + 1 - k) + 25
    [] pc = "aply"    -> 24
    [] pc = "arm"     -> 23
    [] pc = "arming"  -> 22
    [] pc = "flag"    -> 21
    [] pc = "leave"   -> 20
    [] pc = "off"     -> IF flag THEN 19 ELSE 2
    [] pc = "rcm"     -> IF flag THEN 18 ELSE 1
    [] pc = "promote" -> Again + 4 + 2 * (7 - k) + Turn
    [] pc = "copying" -> Again + 4 + 2 * (7 - k)
    [] pc = "auto_reboot" -> Again + 3
    [] OTHER -> 0

\* What StepsLeft is computed from.
LEMMA StepsFacts ==
  ASSUME IInv
  PROVE  /\ Len(PackFiles) \in Nat /\ k \in Nat
         /\ pc = "extract" => k \in 1..(Len(PackFiles) + 1)
         /\ pc = "writing" => k \in 1..Len(PackFiles)
         /\ pc = "promote" => k \in 1..7
         /\ pc = "copying" => k \in 4..5
         /\ Turn = 0 \/ Turn = 1
         /\ pc = "promote" /\ k = 7 => Turn = 0
         /\ Again = 0 \/ Again = 20
<1>1. Len(PackFiles) \in Nat
  BY ParametersAreTyped
<1>2. Len(Script) = 6
  BY ScriptFacts
<1>3. k \in Nat
  BY <1>1, <1>2 DEF IInv, TypeOK
<1>. QED
  BY <1>1, <1>2, <1>3 DEF IInv, Control, Turn, Again

\* How large StepsLeft can be, and where it is 0.
LEMMA StepsLeftType ==
  ASSUME IInv
  PROVE  /\ StepsLeft \in 0..(2 * Len(PackFiles) + 41)
         /\ StepsLeft = 0 <=> pc \in {"hos", "choose", "menu", "message", "dead"}
<1>. USE StepsFacts
<1>1. \/ pc \in {"hos", "choose", "menu", "message", "dead"}
      \/ pc \in {"extract", "writing"}
      \/ pc \in {"aply", "arm", "arming", "flag", "leave", "off", "rcm"}
      \/ pc \in {"promote", "copying", "auto_reboot"}
  BY DEF IInv, TypeOK, AppAt, RcmAt
<1>2. pc \in {"hos", "choose", "menu", "message", "dead"} => StepsLeft = 0
  BY DEF StepsLeft
<1>3. pc \in {"extract", "writing"} => StepsLeft \in 1..(2 * Len(PackFiles) + 41)
  <2>1. /\ pc = "extract" => StepsLeft = 2 * (Len(PackFiles) + 1 - k) + 26
        /\ pc = "writing" => StepsLeft = 2 * (Len(PackFiles) + 1 - k) + 25
    BY DEF StepsLeft
  <2>. QED
    BY <2>1
<1>4. pc \in {"aply", "arm", "arming", "flag", "leave", "off", "rcm"}
        => StepsLeft \in 1..(2 * Len(PackFiles) + 41)
  <2>1. pc \in {"aply", "arm", "arming", "flag", "leave", "off", "rcm"} =>
          \/ StepsLeft = 24 \/ StepsLeft = 23 \/ StepsLeft = 22 \/ StepsLeft = 21
          \/ StepsLeft = 20 \/ StepsLeft = 19 \/ StepsLeft = 18
          \/ StepsLeft = 2 \/ StepsLeft = 1
    BY DEF StepsLeft
  <2>. QED
    BY <2>1
<1>5. pc \in {"promote", "copying", "auto_reboot"}
        => StepsLeft \in 1..(2 * Len(PackFiles) + 41)
  <2>1. /\ pc = "promote" => StepsLeft = Again + 4 + 2 * (7 - k) + Turn
        /\ pc = "copying" => StepsLeft = Again + 4 + 2 * (7 - k)
        /\ pc = "auto_reboot" => StepsLeft = Again + 3
    BY DEF StepsLeft
  <2>2. CASE pc = "promote"
    BY <2>1, <2>2
  <2>3. CASE pc = "copying"
    BY <2>1, <2>3
  <2>4. CASE pc = "auto_reboot"
    BY <2>1, <2>4
  <2>. QED
    BY <2>2, <2>3, <2>4
<1>6. /\ 0 \in 0..(2 * Len(PackFiles) + 41)
      /\ \A n \in 1..(2 * Len(PackFiles) + 41) :
           n \in 0..(2 * Len(PackFiles) + 41) /\ n # 0
  OBVIOUS
<1>7. CASE pc \in {"hos", "choose", "menu", "message", "dead"}
  BY <1>2, <1>6, <1>7, Zenon
<1>8. CASE pc \notin {"hos", "choose", "menu", "message", "dead"}
  BY <1>1, <1>3, <1>4, <1>5, <1>6, <1>8, Zenon
<1>. QED
  BY <1>7, <1>8

\* The steps of the application bring the rest nearer.
LEMMA ApplicationComesNearer ==
  ASSUME IInv, Extract \/ ForceReboot
  PROVE  StepsLeft' < StepsLeft
<1>. USE StepsFacts
<1>1. CASE ExtractSkip \/ ExtractWrite
  <2>1. pc \in {"extract", "writing"} /\ pc' = "extract" /\ k' = k + 1
    BY <1>1 DEF ExtractSkip, ExtractWrite
  <2>. QED
    BY <2>1 DEF StepsLeft
<1>2. CASE ExtractOpen
  BY <1>2 DEF ExtractOpen, StepsLeft
<1>3. CASE ExtractGivesUp \/ ExtractEnds
  <2>1. pc \in {"extract", "writing"} /\ pc' = "aply"
    BY <1>3 DEF ExtractGivesUp, ExtractEnds
  <2>. QED
    BY <2>1 DEF StepsLeft
<1>4. CASE ForceReboot
  <2>1. \/ pc = "aply" /\ pc' \in {"arm", "flag"}
        \/ pc = "arm" /\ pc' \in {"arming", "flag"}
        \/ pc = "arming" /\ pc' = "flag"
        \/ pc = "flag" /\ pc' = "leave"
        \/ pc = "leave" /\ pc' \in {"off", "choose", "rcm"}
    BY <1>4 DEF ForceReboot, SavePayload, SaveFails, ArmOpen, ArmWrite, ArmFails,
                SetFlag, FlagNotSet, Leave, RcmStarts
  <2>. QED
    BY <2>1 DEF StepsLeft
<1>. QED
  BY <1>1, <1>2, <1>3, <1>4 DEF Extract

\* So does the start of a payload, by the console or by ams_rcm, and so does the
\* removal of the flag.
LEMMA StartComesNearer ==
  ASSUME IInv, Boot \/ ReadFlag \/ AutoReboot
  PROVE  StepsLeft' < StepsLeft
<1>. USE StepsFacts
<1>1. CASE Boot
  <2>1. pc = "off" /\ pc' \in {"choose", "rcm", "hos", "dead"} /\ flag' = flag
    BY <1>1 DEF Boot, Launch, RcmStarts
  <2>. QED
    BY <2>1 DEF StepsLeft
<1>2. CASE AutoReboot
  <2>1. pc = "auto_reboot" /\ pc' \in {"off", "choose", "rcm", "hos", "dead"} /\ flag' = flag
    BY <1>2 DEF AutoReboot, Launch, RcmStarts
  <2>. QED
    BY <2>1 DEF StepsLeft, Again
<1>3. CASE ReadFlag /\ flag
  <2>1. pc = "rcm" /\ pc' = "promote" /\ k' = 1 /\ flag' = FALSE
    BY <1>3 DEF ReadFlag
  <2>2. Again' = 0 /\ (Turn' = 0 \/ Turn' = 1)
    BY <2>1 DEF Again, Turn
  <2>3. StepsLeft' = Again' + 4 + 2 * (7 - k') + Turn'
    BY <2>1 DEF StepsLeft
  <2>4. StepsLeft = 18
    BY <1>3, <2>1 DEF StepsLeft
  <2>. QED
    BY <2>1, <2>2, <2>3, <2>4
<1>4. CASE ReadFlag /\ ~flag
  BY <1>4 DEF ReadFlag, StepsLeft
<1>. QED
  BY <1>1, <1>2, <1>3, <1>4

\* And so does each step of the list ams_rcm goes through, the second step of a
\* copy, or of a rename over a file, included.
LEMMA ListComesNearer ==
  ASSUME IInv, EasyRename \/ FCopy \/ PromoteEnds \/ Message
  PROVE  StepsLeft' < StepsLeft
<1>. USE StepsFacts
<1>1. Turn' = 0 \/ Turn' = 1
  BY DEF Turn
<1>2. flag' = flag
  BY DEF EasyRename, FCopy, PromoteEnds, Message, RenameNothing, RenameUnlink,
         RenameMove, RenameFails, CopySkip, CopyOpen, CopyWrite, CopyFails
<1>3. Again' = Again
  BY <1>2 DEF Again
<1>4. /\ pc = "promote" => StepsLeft = Again + 4 + 2 * (7 - k) + Turn
      /\ pc = "copying" => StepsLeft = Again + 4 + 2 * (7 - k)
  BY DEF StepsLeft
<1>5. /\ pc' = "promote" => StepsLeft' = Again' + 4 + 2 * (7 - k') + Turn'
      /\ pc' = "copying" => StepsLeft' = Again' + 4 + 2 * (7 - k')
  BY DEF StepsLeft
<1>6. CASE RenameNothing \/ RenameFails \/ RenameMove \/ CopySkip \/ CopyWrite \/ CopyFails
  <2>1. pc \in {"promote", "copying"} /\ pc' = "promote" /\ k' = k + 1
    BY <1>6 DEF RenameNothing, RenameFails, RenameMove, CopySkip, CopyWrite, CopyFails, At
  <2>2. StepsLeft' = Again + 4 + 2 * (7 - (k + 1)) + Turn'
    BY <1>3, <1>5, <2>1
  <2>3. CASE pc = "promote"
    BY <1>1, <1>4, <2>2, <2>3, SMTT(20)
  <2>4. CASE pc = "copying"
    BY <1>1, <1>4, <2>2, <2>4, SMTT(20)
  <2>. QED
    BY <2>1, <2>3, <2>4
<1>7. CASE RenameUnlink
  <2>1. pc = "promote" /\ pc' = "promote" /\ k' = k /\ k <= Len(Script)
    BY <1>7 DEF RenameUnlink, At
  <2>2. Turn = 1
    BY <1>7, <2>1 DEF RenameUnlink, Turn
  <2>3. File \in Slots /\ k \in {1, 2, 3, 6} /\ Script[k].op = "rename"
    BY <1>7, AtRename DEF RenameUnlink, At
  <2>4. cur'[File] = None
    BY <1>7, <2>3 DEF RenameUnlink, IInv, TypeOK
  <2>5. Turn' = 0
    BY <2>1, <2>3, <2>4 DEF Turn, File, Script
  <2>. QED
    BY <1>3, <1>4, <1>5, <2>1, <2>2, <2>5
<1>8. CASE CopyOpen
  <2>1. pc = "promote" /\ pc' = "copying" /\ k' = k
    BY <1>8 DEF CopyOpen, At
  <2>2. Turn = 1
    BY <1>8, <2>1 DEF CopyOpen, At, Turn
  <2>. QED
    BY <1>3, <1>4, <1>5, <2>1, <2>2
<1>9. CASE PromoteEnds \/ Message
  <2>1. pc = "promote" /\ k = 7 /\ pc' \in {"auto_reboot", "message"}
    BY <1>9, ScriptFacts DEF PromoteEnds, Message
  <2>2. StepsLeft = Again + 4
    BY <1>4, <2>1
  <2>3. StepsLeft' = 0 \/ StepsLeft' = Again' + 3
    BY <2>1 DEF StepsLeft
  <2>. QED
    BY <1>3, <2>2, <2>3
<1>. QED
  BY <1>6, <1>7, <1>8, <1>9 DEF EasyRename, FCopy

\* The programs cannot start each other for ever.  StepsLeft is bounded, is 0
\* only where the user has to act (in the system, in a menu of ams_rcm, before
\* a message) or nothing can be done, and falls at every step of a program,
\* whatever fails, with one exception: when ams_rcm cannot remove the flag
\* (amssu-rcm/main.c:769), the list is gone through once more.
THEOREM ProgramsComeToRest ==
  Spec => /\ [](StepsLeft \in 0..(2 * Len(PackFiles) + 41))
          /\ [](StepsLeft = 0 <=> pc \in {"hos", "choose", "menu", "message", "dead"})
          /\ [][Programs => StepsLeft' < StepsLeft \/ FlagNotRemoved]_vars
<1>1. IInv => /\ StepsLeft \in 0..(2 * Len(PackFiles) + 41)
              /\ StepsLeft = 0 <=> pc \in {"hos", "choose", "menu", "message", "dead"}
  BY StepsLeftType
<1>2. IInv /\ [Next]_vars => [Programs => StepsLeft' < StepsLeft \/ FlagNotRemoved]_vars
  BY ApplicationComesNearer, StartComesNearer, ListComesNearer DEF Programs, Rcm
<1>. QED
  BY <1>1, <1>2, Invariance, PTL DEF Spec
=============================================================================
