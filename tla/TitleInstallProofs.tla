--------------------------- MODULE TitleInstallProofs --------------------------
(***************************************************************************)
(* Theorems about TitleInstall, for all packages and any number of         *)
(* failures and cuts.                                                      *)
(***************************************************************************)
EXTENDS TitleInstall, TLAPS

InContent == {"create", "body", "register", "unplace"}

\* Where the loops are.
Course ==
  /\ pc \in {"delete", "unrecord", "drop"} => old # << >>
  /\ pc = "delete" => k \in 1..(Len(MetaFirst(old.pk)) + 1)
  /\ pc \in InContent => k \in 1..Len(MetaFirst(p))
  /\ pc \in {"read", "records", "push", "ticket"} => k = 1
  /\ pc # "idle" => told = "nothing"
  /\ before <= faults

\* What is written before the parts stays while they are.
Records ==
  /\ pc \in {"records", "push"} => store["user"][Meta[p]] = "whole"
  /\ pc = "push" => p \in meta["user"]
  /\ pc = "ticket" /\ Meta[p] \in named => HasRecords
  /\ pc \in {"clear"} \cup InContent /\ k >= 2 /\ Meta[p] \in named => HasRecords
  /\ told = "installed" /\ Meta[p] \in named => HasRecords

\* What a run without a failed call finds at each step.
Clean ==
  /\ pc = "create" /\ faults = before => place[Id] = None
  /\ pc \in {"body", "register"} /\ faults = before => place[Id] # None
  /\ pc \in {"unplace", "read"} /\ k = 1 /\ faults = before => store["user"][Id] # None
  /\ (pc # "idle" \/ told = "installed") /\ faults = before => named = ContentsOf(p)
  /\ OnlyFaultsFail

IInv == TypeOK /\ Course /\ Records /\ Clean

-----------------------------------------------------------------------------
\* The sequence of the contents of a package begins with its meta content.
LEMMA MetaComesFirst ==
  ASSUME NEW q \in Packages
  PROVE  /\ MetaFirst(q) \in Seq(Contents)
         /\ Len(MetaFirst(q)) \in Nat \ {0}
         /\ MetaFirst(q)[1] = Meta[q]
         /\ \A i \in 1..Len(MetaFirst(q)) : MetaFirst(q)[i] \in Contents
         /\ Meta[q] \in ContentsOf(q)
<1>1. Parts[q] \in Seq(Contents)
  BY PackagesHaveContents
<1>2. /\ Len(MetaFirst(q)) = Len(Parts[q]) + 1
      /\ MetaFirst(q)[1] = Meta[q]
  BY <1>1 DEF MetaFirst
<1>3. \A i \in 1..Len(MetaFirst(q)) : MetaFirst(q)[i] \in Contents
  BY DEF ContentsOf, Contents
<1>4. Meta[q] \in Contents
  BY <1>1, <1>2, <1>3
<1>5. Meta[q] \in ContentsOf(q)
  BY <1>1, <1>2 DEF ContentsOf
<1>. QED
  BY <1>1, <1>2, <1>3, <1>4, <1>5 DEF MetaFirst

LEMMA InitHolds == Init => IInv
<1> SUFFICES ASSUME Init PROVE IInv
  OBVIOUS
<1>1. \A st \in Storages : meta[st] \in SUBSET Packages
  BY DEF Init
<1>2. \A pks : Holds(pks) \in [Contents -> State]
  BY DEF Holds, State
<1>3. TypeOK
  <2>1. record \in BOOLEAN
    BY Zenon DEF Init
  <2>2. ticket \in SUBSET Packages
    BY <1>1 DEF Init
  <2>3. store \in [Storages -> [Contents -> State]]
    BY <1>2 DEF Init
  <2>. QED
    BY <2>1, <2>2, <2>3, PackagesHaveContents DEF Init, TypeOK, Steps, State
<1>. QED
  BY <1>3, PackagesHaveContents DEF Init, IInv, Course, Records, Clean, OnlyFaultsFail, InContent

LEMMA BeginKeeps == ASSUME NEW q \in Packages PROVE IInv /\ Begin(q) => IInv'
<1> SUFFICES ASSUME IInv, Begin(q) PROVE IInv'
  OBVIOUS
<1>1. p' = q /\ named' = ContentsOf(q) /\ k' = 1 /\ told' = "nothing" /\ before' = faults /\ UNCHANGED console
  BY DEF Begin
<1>2. \/ /\ old' \in [st : Storages, pk : Packages] /\ pc' = "delete" /\ faults' = faults
      \/ /\ old' = << >> /\ pc' = "clear" /\ faults' \in {faults, faults + 1} /\ faults' \in 0..MaxFaults
  BY PackagesHaveContents DEF Begin, Well, Fault, IInv, TypeOK
<1>3. \A r \in Packages : Len(MetaFirst(r)) \in Nat \ {0}
  BY MetaComesFirst
<1>7. named' = ContentsOf(p)'
  BY <1>1 DEF ContentsOf, MetaFirst
<1>8. k' \in 1..(Len(MetaFirst(p)) + 1)'
  BY <1>1, <1>3 DEF MetaFirst
<1>4. TypeOK'
  BY <1>1, <1>2, <1>7, <1>8 DEF console, IInv, TypeOK, Steps
<1>5. Course'
  BY <1>1, <1>2, <1>3, PackagesHaveContents DEF IInv, TypeOK, Course, InContent
<1>6. Records' /\ Clean'
  BY <1>1, <1>2, <1>7 DEF Records, Clean, OnlyFaultsFail, InContent
<1>. QED
  BY <1>4, <1>5, <1>6 DEF IInv

RemoveStep == DeleteContent \/ DeleteEnds \/ Unrecord \/ UnrecordFails \/ DropRecord

LEMMA RemoveKeeps == IInv /\ RemoveStep => IInv'
<1> SUFFICES ASSUME IInv, RemoveStep PROVE IInv'
  OBVIOUS
<1>a. \A q \in Packages : /\ Len(MetaFirst(q)) \in Nat \ {0}
                          /\ MetaFirst(q)[1] = Meta[q]
                          /\ \A i \in 1..Len(MetaFirst(q)) : MetaFirst(q)[i] \in Contents
  BY MetaComesFirst
<1>b. p \in Packages /\ faults \in Nat /\ before \in Nat /\ MaxFaults \in Nat
      /\ None # "part" /\ None # "whole"
  BY PackagesHaveContents DEF IInv, TypeOK
<1> USE DEF IInv, console, Well, Fault, FaultIf, To, Keep, Ends
<1>1. CASE DeleteContent
  <2>1. TypeOK'
    <3>1. old \in [st : Storages, pk : Packages]
      BY <1>1 DEF DeleteContent, TypeOK, Course
    <3>2. MetaFirst(old.pk)[k] \in Contents /\ k + 1 \in Nat
      BY <1>a, <1>1, <3>1 DEF DeleteContent, TypeOK, Course
    <3>4. old.st \in Storages /\ None \in State
      BY <3>1 DEF State
    <3>5. \A st \in Storages, c \in Contents :
            [store EXCEPT ![st][c] = None] \in [Storages -> [Contents -> State]]
      BY <3>4 DEF TypeOK
    <3>3. store' \in [Storages -> [Contents -> State]]
      <4>1. \/ store' = store
            \/ store' = [store EXCEPT ![old.st][MetaFirst(old.pk)[k]] = None]
        BY <1>1, Zenon DEF DeleteContent
      <4>2. [store EXCEPT ![old.st][MetaFirst(old.pk)[k]] = None]
              \in [Storages -> [Contents -> State]]
        BY <3>2, <3>4, <3>5, Zenon
      <4>. QED
        BY <4>1, <4>2, Zenon DEF TypeOK
    <3>. QED
      BY <1>b, <1>1, <3>2, <3>3 DEF DeleteContent, TypeOK, Steps
  <2>2. Course'
    BY <1>a, <1>b, <1>1 DEF DeleteContent, TypeOK, Course, InContent
  <2>3. Records'
    BY <1>a, <1>b, <1>1 DEF DeleteContent, TypeOK, Course, Records, HasRecords, InContent, Id, State
  <2>4. Clean'
    BY <1>a, <1>b, <1>1 DEF DeleteContent, TypeOK, Course, Records, Clean, OnlyFaultsFail, InContent, Id, State
  <2>. QED
    BY <2>1, <2>2, <2>3, <2>4
<1>2. CASE DeleteEnds
  <2>1. TypeOK'
    BY <1>a, <1>b, <1>2 DEF DeleteEnds, TypeOK, Course, Steps, State, InContent, Id
  <2>2. Course'
    BY <1>a, <1>b, <1>2 DEF DeleteEnds, TypeOK, Course, InContent
  <2>3. Records'
    BY <1>a, <1>b, <1>2 DEF DeleteEnds, TypeOK, Course, Records, HasRecords, InContent, Id, State
  <2>4. Clean'
    BY <1>a, <1>b, <1>2 DEF DeleteEnds, TypeOK, Course, Records, Clean, OnlyFaultsFail, InContent, Id, State
  <2>. QED
    BY <2>1, <2>2, <2>3, <2>4
<1>3. CASE Unrecord
  <2>1. TypeOK'
    BY <1>a, <1>b, <1>3 DEF Unrecord, TypeOK, Course, Steps, State, InContent, Id
  <2>2. Course'
    BY <1>a, <1>b, <1>3 DEF Unrecord, TypeOK, Course, InContent
  <2>3. Records'
    BY <1>a, <1>b, <1>3 DEF Unrecord, TypeOK, Course, Records, HasRecords, InContent, Id, State
  <2>4. Clean'
    BY <1>a, <1>b, <1>3 DEF Unrecord, TypeOK, Course, Records, Clean, OnlyFaultsFail, InContent, Id, State
  <2>. QED
    BY <2>1, <2>2, <2>3, <2>4
<1>4. CASE UnrecordFails
  <2>1. TypeOK'
    BY <1>a, <1>b, <1>4 DEF UnrecordFails, TypeOK, Course, Steps, State, InContent, Id
  <2>2. Course'
    BY <1>a, <1>b, <1>4 DEF UnrecordFails, TypeOK, Course, InContent
  <2>3. Records'
    BY <1>a, <1>b, <1>4 DEF UnrecordFails, TypeOK, Course, Records, HasRecords, InContent, Id, State
  <2>4. Clean'
    BY <1>a, <1>b, <1>4 DEF UnrecordFails, TypeOK, Course, Records, Clean, OnlyFaultsFail, InContent, Id, State
  <2>. QED
    BY <2>1, <2>2, <2>3, <2>4
<1>5. CASE DropRecord
  <2>1. TypeOK'
    <3>1. record' \in BOOLEAN
      BY <1>5, Zenon DEF DropRecord, TypeOK
    <3>2. faults' \in 0..MaxFaults
      BY <1>b, <1>5 DEF DropRecord, TypeOK
    <3>3. k' = 1 /\ pc' = "clear" /\ UNCHANGED <<store, place, meta, ticket, p, old, named, told, before>>
      BY <1>5 DEF DropRecord
    <3>4. ContentsOf(p)' = ContentsOf(p) /\ Len(MetaFirst(p))' = Len(MetaFirst(p))
      BY <3>3 DEF ContentsOf, MetaFirst
    <3>. QED
      BY <1>a, <1>b, <3>1, <3>2, <3>3, <3>4 DEF TypeOK, Steps
  <2>2. Course'
    BY <1>a, <1>b, <1>5 DEF DropRecord, TypeOK, Course, InContent
  <2>3. Records'
    BY <1>a, <1>b, <1>5 DEF DropRecord, TypeOK, Course, Records, HasRecords, InContent, Id, State
  <2>4. Clean'
    BY <1>a, <1>b, <1>5 DEF DropRecord, TypeOK, Course, Records, Clean, OnlyFaultsFail, InContent, Id, State
  <2>. QED
    BY <2>1, <2>2, <2>3, <2>4
<1>. QED
  BY <1>1, <1>2, <1>3, <1>4, <1>5 DEF RemoveStep

ContentStep ==
  OpenFails \/ EntryMissing \/ ClearPlace \/ Create \/ CreateThrows \/ Body \/ Register \/ Unplace

LEMMA ContentKeeps == IInv /\ ContentStep => IInv'
<1> SUFFICES ASSUME IInv, ContentStep PROVE IInv'
  OBVIOUS
<1>a. \A q \in Packages : /\ Len(MetaFirst(q)) \in Nat \ {0}
                          /\ MetaFirst(q)[1] = Meta[q]
                          /\ \A i \in 1..Len(MetaFirst(q)) : MetaFirst(q)[i] \in Contents
  BY MetaComesFirst
<1>b. p \in Packages /\ faults \in Nat /\ before \in Nat /\ MaxFaults \in Nat
      /\ None # "part" /\ None # "whole"
  BY PackagesHaveContents DEF IInv, TypeOK
<1> USE DEF IInv, console, Well, Fault, FaultIf, To, Keep, Ends
<1>1. CASE ClearPlace
  <2>1. TypeOK'
    BY <1>a, <1>b, <1>1 DEF ClearPlace, TypeOK, Course, Steps, State, InContent, Id
  <2>2. Course'
    BY <1>a, <1>b, <1>1 DEF ClearPlace, TypeOK, Course, InContent
  <2>3. Records'
    BY <1>a, <1>b, <1>1 DEF ClearPlace, TypeOK, Course, Records, HasRecords, InContent, Id, State
  <2>4. Clean'
    BY <1>a, <1>b, <1>1 DEF ClearPlace, TypeOK, Course, Records, Clean, OnlyFaultsFail, InContent, Id, State
  <2>. QED
    BY <2>1, <2>2, <2>3, <2>4
<1>2. CASE Create
  <2>1. TypeOK'
    BY <1>a, <1>b, <1>2 DEF Create, TypeOK, Course, Steps, State, InContent, Id
  <2>2. Course'
    BY <1>a, <1>b, <1>2 DEF Create, TypeOK, Course, InContent
  <2>3. Records'
    BY <1>a, <1>b, <1>2 DEF Create, TypeOK, Course, Records, HasRecords, InContent, Id, State
  <2>4. Clean'
    BY <1>a, <1>b, <1>2 DEF Create, TypeOK, Course, Records, Clean, OnlyFaultsFail, InContent, Id, State
  <2>. QED
    BY <2>1, <2>2, <2>3, <2>4
<1>3. CASE CreateThrows
  <2>1. TypeOK'
    BY <1>a, <1>b, <1>3 DEF CreateThrows, TypeOK, Course, Steps, State, InContent, Id
  <2>2. Course'
    BY <1>a, <1>b, <1>3 DEF CreateThrows, TypeOK, Course, InContent
  <2>3. Records'
    BY <1>a, <1>b, <1>3 DEF CreateThrows, TypeOK, Course, Records, HasRecords, InContent, Id, State
  <2>4. Clean'
    BY <1>a, <1>b, <1>3 DEF CreateThrows, TypeOK, Course, Records, Clean, OnlyFaultsFail, InContent, Id, State
  <2>. QED
    BY <2>1, <2>2, <2>3, <2>4
<1>4. CASE Body
  <2>1. TypeOK'
    BY <1>a, <1>b, <1>4 DEF Body, TypeOK, Course, Steps, State, InContent, Id
  <2>2. Course'
    BY <1>a, <1>b, <1>4 DEF Body, TypeOK, Course, InContent
  <2>3. Records'
    BY <1>a, <1>b, <1>4 DEF Body, TypeOK, Course, Records, HasRecords, InContent, Id, State
  <2>4. Clean'
    BY <1>a, <1>b, <1>4 DEF Body, TypeOK, Course, Records, Clean, OnlyFaultsFail, InContent, Id, State
  <2>. QED
    BY <2>1, <2>2, <2>3, <2>4
<1>5. CASE Register
  <2>1. TypeOK'
    BY <1>a, <1>b, <1>5 DEF Register, TypeOK, Course, Steps, State, InContent, Id
  <2>2. Course'
    BY <1>a, <1>b, <1>5 DEF Register, TypeOK, Course, InContent
  <2>3. Records'
    BY <1>a, <1>b, <1>5 DEF Register, TypeOK, Course, Records, HasRecords, InContent, Id, State
  <2>4. Clean'
    <3>1. Id \in Contents /\ (k = 1 => Id = Meta[p]) /\ Id' = Id
      BY <1>a, <1>b, <1>5 DEF Register, Course, InContent, Id
    <3>2. pc' = "unplace" /\ told' = "nothing" /\ before' = before /\ faults' >= faults
      BY <1>b, <1>5 DEF Register, Course
    <3>3. faults' = before' => store'["user"][Id] # None
      BY <1>b, <1>5, <3>1, <3>2 DEF Register, TypeOK, Course, Clean, Storages
    <3>4. (pc' # "idle" /\ faults' = before') => named' = ContentsOf(p)'
      <4>1. UNCHANGED <<named, p, before>> /\ ContentsOf(p)' = ContentsOf(p)
        BY <1>5 DEF Register, ContentsOf, MetaFirst
      <4>2. faults' = before' => faults = before
        BY <1>b, <3>2 DEF Course
      <4>3. pc # "idle"
        BY <1>5 DEF Register
      <4>. QED
        BY <4>1, <4>2, <4>3 DEF Clean
    <3>. QED
      BY <3>1, <3>2, <3>3, <3>4 DEF Clean, OnlyFaultsFail
  <2>. QED
    BY <2>1, <2>2, <2>3, <2>4
<1>6. CASE Unplace
  <2>1. TypeOK'
    BY <1>a, <1>b, <1>6 DEF Unplace, TypeOK, Course, Steps, State, InContent, Id
  <2>2. Course'
    BY <1>a, <1>b, <1>6 DEF Unplace, TypeOK, Course, InContent
  <2>3. Records'
    BY <1>a, <1>b, <1>6 DEF Unplace, TypeOK, Course, Records, HasRecords, InContent, Id, State
  <2>4. Clean'
    BY <1>a, <1>b, <1>6 DEF Unplace, TypeOK, Course, Records, Clean, OnlyFaultsFail, InContent, Id, State
  <2>. QED
    BY <2>1, <2>2, <2>3, <2>4
<1>7. CASE OpenFails
  <2>1. TypeOK'
    BY <1>a, <1>b, <1>7 DEF OpenFails, TypeOK, Course, Steps, State, InContent, Id
  <2>2. Course'
    BY <1>a, <1>b, <1>7 DEF OpenFails, TypeOK, Course, InContent
  <2>3. Records'
    BY <1>a, <1>b, <1>7 DEF OpenFails, TypeOK, Course, Records, HasRecords, InContent, Id, State
  <2>4. Clean'
    BY <1>a, <1>b, <1>7 DEF OpenFails, TypeOK, Course, Records, Clean, OnlyFaultsFail, InContent, Id, State
  <2>. QED
    BY <2>1, <2>2, <2>3, <2>4
<1>8. CASE EntryMissing
  <2>1. TypeOK'
    BY <1>a, <1>b, <1>8 DEF EntryMissing, TypeOK, Course, Steps, State, InContent, Id
  <2>2. Course'
    BY <1>a, <1>b, <1>8 DEF EntryMissing, TypeOK, Course, InContent
  <2>3. Records'
    BY <1>a, <1>b, <1>8 DEF EntryMissing, TypeOK, Course, Records, HasRecords, InContent, Id, State
  <2>4. Clean'
    <3>1. pc = "clear" => Id \in ContentsOf(p)
      BY <1>a, <1>b, <1>8 DEF EntryMissing, TypeOK, Id, ContentsOf
    <3>2. faults # before
      BY <1>8, <3>1 DEF EntryMissing, Clean
    <3>3. pc' = "idle" /\ told' = "abort" /\ UNCHANGED <<faults, before>>
      BY <1>8 DEF EntryMissing
    <3>. QED
      BY <3>2, <3>3 DEF Clean, OnlyFaultsFail
  <2>. QED
    BY <2>1, <2>2, <2>3, <2>4
<1>. QED
  BY <1>1, <1>2, <1>3, <1>4, <1>5, <1>6, <1>7, <1>8 DEF ContentStep

OthersStep ==
  \/ ReadMeta \/ ReadMetaFails \/ SetRecords \/ PushRecord \/ RecordsFail
  \/ ImportTicket \/ Finishes \/ PowerCut \/ HeaderShort

LEMMA OthersKeeps == IInv /\ OthersStep => IInv'
<1> SUFFICES ASSUME IInv, OthersStep PROVE IInv'
  OBVIOUS
<1>a. \A q \in Packages : /\ Len(MetaFirst(q)) \in Nat \ {0}
                          /\ MetaFirst(q)[1] = Meta[q]
                          /\ \A i \in 1..Len(MetaFirst(q)) : MetaFirst(q)[i] \in Contents
  BY MetaComesFirst
<1>b. p \in Packages /\ faults \in Nat /\ before \in Nat /\ MaxFaults \in Nat
      /\ None # "part" /\ None # "whole"
  BY PackagesHaveContents DEF IInv, TypeOK
<1> USE DEF IInv, console, Well, Fault, FaultIf, To, Keep, Ends
<1>1. CASE ReadMeta
  <2>1. TypeOK'
    BY <1>a, <1>b, <1>1 DEF ReadMeta, TypeOK, Course, Steps, State, InContent, Id
  <2>2. Course'
    BY <1>a, <1>b, <1>1 DEF ReadMeta, TypeOK, Course, InContent
  <2>3. Records'
    BY <1>a, <1>b, <1>1 DEF ReadMeta, TypeOK, Course, Records, HasRecords, InContent, Id, State
  <2>4. Clean'
    BY <1>a, <1>b, <1>1 DEF ReadMeta, TypeOK, Course, Records, Clean, OnlyFaultsFail, InContent, Id, State
  <2>. QED
    BY <2>1, <2>2, <2>3, <2>4
<1>2. CASE ReadMetaFails
  <2>1. TypeOK'
    BY <1>a, <1>b, <1>2 DEF ReadMetaFails, TypeOK, Course, Steps, State, InContent, Id
  <2>2. Course'
    BY <1>a, <1>b, <1>2 DEF ReadMetaFails, TypeOK, Course, InContent
  <2>3. Records'
    BY <1>a, <1>b, <1>2 DEF ReadMetaFails, TypeOK, Course, Records, HasRecords, InContent, Id, State
  <2>4. Clean'
    <3>1. Id = Meta[p] /\ Meta[p] \in Contents
      BY <1>a, <1>b, <1>2 DEF ReadMetaFails, Course, Id
    <3>2. store["user"][Meta[p]] \in State
      BY <3>1 DEF TypeOK, Storages
    <3>3. pc' = "idle" /\ told' = "error" /\ p' = p /\ store' = store /\ before' = before
      BY <1>2 DEF ReadMetaFails
    <3>4. faults' = before' => store["user"][Meta[p]] = "part"
      BY <1>b, <1>2, <3>1, <3>2 DEF ReadMetaFails, Clean, Course, State
    <3>. QED
      BY <3>3, <3>4 DEF Clean, OnlyFaultsFail
  <2>. QED
    BY <2>1, <2>2, <2>3, <2>4
<1>3. CASE SetRecords
  <2>1. TypeOK'
    BY <1>a, <1>b, <1>3 DEF SetRecords, TypeOK, Course, Steps, State, InContent, Id
  <2>2. Course'
    BY <1>a, <1>b, <1>3 DEF SetRecords, TypeOK, Course, InContent
  <2>3. Records'
    <3>1. p' = p /\ p \in meta'["user"]
      BY <1>b, <1>3 DEF SetRecords, TypeOK, Storages
    <3>. QED
      BY <1>3, <3>1 DEF SetRecords, Course, Records, InContent
  <2>4. Clean'
    BY <1>a, <1>b, <1>3 DEF SetRecords, TypeOK, Course, Records, Clean, OnlyFaultsFail, InContent, Id, State
  <2>. QED
    BY <2>1, <2>2, <2>3, <2>4
<1>4. CASE PushRecord
  <2>1. TypeOK'
    BY <1>a, <1>b, <1>4 DEF PushRecord, TypeOK, Course, Steps, State, InContent, Id
  <2>2. Course'
    BY <1>a, <1>b, <1>4 DEF PushRecord, TypeOK, Course, InContent
  <2>3. Records'
    BY <1>a, <1>b, <1>4 DEF PushRecord, TypeOK, Course, Records, HasRecords, InContent, Id, State
  <2>4. Clean'
    BY <1>a, <1>b, <1>4 DEF PushRecord, TypeOK, Course, Records, Clean, OnlyFaultsFail, InContent, Id, State
  <2>. QED
    BY <2>1, <2>2, <2>3, <2>4
<1>5. CASE RecordsFail
  <2>1. TypeOK'
    BY <1>a, <1>b, <1>5 DEF RecordsFail, TypeOK, Course, Steps, State, InContent, Id
  <2>2. Course'
    BY <1>a, <1>b, <1>5 DEF RecordsFail, TypeOK, Course, InContent
  <2>3. Records'
    BY <1>a, <1>b, <1>5 DEF RecordsFail, TypeOK, Course, Records, HasRecords, InContent, Id, State
  <2>4. Clean'
    BY <1>a, <1>b, <1>5 DEF RecordsFail, TypeOK, Course, Records, Clean, OnlyFaultsFail, InContent, Id, State
  <2>. QED
    BY <2>1, <2>2, <2>3, <2>4
<1>6. CASE ImportTicket
  <2>1. TypeOK'
    BY <1>a, <1>b, <1>6 DEF ImportTicket, TypeOK, Course, Steps, State, InContent, Id
  <2>2. Course'
    BY <1>a, <1>b, <1>6 DEF ImportTicket, TypeOK, Course, InContent
  <2>3. Records'
    BY <1>a, <1>b, <1>6 DEF ImportTicket, TypeOK, Course, Records, HasRecords, InContent, Id, State
  <2>4. Clean'
    BY <1>a, <1>b, <1>6 DEF ImportTicket, TypeOK, Course, Records, Clean, OnlyFaultsFail, InContent, Id, State
  <2>. QED
    BY <2>1, <2>2, <2>3, <2>4
<1>7. CASE Finishes
  <2>1. TypeOK'
    BY <1>a, <1>b, <1>7 DEF Finishes, TypeOK, Course, Steps, State, InContent, Id
  <2>2. Course'
    BY <1>a, <1>b, <1>7 DEF Finishes, TypeOK, Course, InContent
  <2>3. Records'
    BY <1>a, <1>b, <1>7 DEF Finishes, TypeOK, Course, Records, HasRecords, InContent, Id, State
  <2>4. Clean'
    BY <1>a, <1>b, <1>7 DEF Finishes, TypeOK, Course, Records, Clean, OnlyFaultsFail, InContent, Id, State
  <2>. QED
    BY <2>1, <2>2, <2>3, <2>4
<1>8. CASE PowerCut
  <2>1. TypeOK'
    BY <1>a, <1>b, <1>8 DEF PowerCut, TypeOK, Course, Steps, State, InContent, Id
  <2>2. Course'
    BY <1>a, <1>b, <1>8 DEF PowerCut, TypeOK, Course, InContent
  <2>3. Records'
    BY <1>a, <1>b, <1>8 DEF PowerCut, TypeOK, Course, Records, HasRecords, InContent, Id, State
  <2>4. Clean'
    BY <1>a, <1>b, <1>8 DEF PowerCut, TypeOK, Course, Records, Clean, OnlyFaultsFail, InContent, Id, State
  <2>. QED
    BY <2>1, <2>2, <2>3, <2>4
<1>9. CASE HeaderShort
  <2>1. TypeOK'
    BY <1>a, <1>b, <1>9 DEF HeaderShort, TypeOK, Course, Steps, State, InContent, Id
  <2>2. Course'
    BY <1>a, <1>b, <1>9 DEF HeaderShort, TypeOK, Course, InContent
  <2>3. Records'
    BY <1>a, <1>b, <1>9 DEF HeaderShort, TypeOK, Course, Records, HasRecords, InContent, Id, State
  <2>4. Clean'
    BY <1>a, <1>b, <1>9 DEF HeaderShort, TypeOK, Course, Records, Clean, OnlyFaultsFail, InContent, Id, State
  <2>. QED
    BY <2>1, <2>2, <2>3, <2>4
<1>. QED
  BY <1>1, <1>2, <1>3, <1>4, <1>5, <1>6, <1>7, <1>8, <1>9 DEF OthersStep

LEMMA StepKeeps == IInv /\ [Next]_vars => IInv'
<1> SUFFICES ASSUME IInv, [Next]_vars PROVE IInv'
  OBVIOUS
<1>1. CASE UNCHANGED vars
  BY <1>1 DEF vars, IInv, TypeOK, Course, Records, HasRecords, Clean, OnlyFaultsFail, Id
<1>. QED
  BY <1>1, BeginKeeps, RemoveKeeps, ContentKeeps, OthersKeeps
     DEF Next, RemoveTitle, InstallNCA, RemoveStep, ContentStep, OthersStep

THEOREM Invariance == Spec => []IInv
BY InitHolds, StepKeeps, PTL DEF Spec

\* The variables hold what the installation puts in them.
THEOREM TypeCorrect == Spec => []TypeOK
<1>1. IInv => TypeOK
  BY DEF IInv
<1>. QED
  BY <1>1, Invariance, PTL

\* A title told to be installed has its meta content and its records, whatever
\* failed but the reading of the name of its meta content in the header.
THEOREM InstalledHasRecordsHolds == Spec => []InstalledHasRecords
<1>1. IInv => InstalledHasRecords
  BY DEF IInv, Records, HasRecords, InstalledHasRecords
<1>. QED
  BY <1>1, Invariance, PTL

\* A run without a failed call ends well, whatever cuts and failures left, but
\* for a damaged meta content.
THEOREM OnlyFaultsFailHolds == Spec => []OnlyFaultsFail
<1>1. IInv => OnlyFaultsFail
  BY DEF IInv, Clean
<1>. QED
  BY <1>1, Invariance, PTL

-----------------------------------------------------------------------------
Streaming == {"clear"} \cup InContent

\* What a run without a failed call has registered.
Registered ==
  /\ pc = "register" /\ faults = before => place[Id] = "whole"
  /\ pc = "unplace" /\ faults = before => store["user"][Id] # None
  /\ pc \in Streaming /\ faults = before =>
       \A i \in 1..Len(MetaFirst(p)) : i < k => store["user"][MetaFirst(p)[i]] # None
  /\ told = "installed" /\ faults = before =>
       \A c \in ContentsOf(p) : store["user"][c] # None

\* The contents registered damaged, but for those that lead to the others.
Metas == {Meta[q] : q \in Packages}
Spoilt == {c \in Contents : store["user"][c] = "part" /\ c \notin Metas}

\* Before any call has failed, the user storage holds one title at most.
Alone ==
  faults = 0 =>
    /\ \A c \in Contents : store["user"][c] # "part"
    /\ meta["user"] = {} \/ \E q \in Packages : meta["user"] = {q}
    /\ pc \in {"delete", "unrecord"} => meta["user"] = IF old.st = "user" THEN {old.pk} ELSE {}
    /\ pc \in {"drop", "read", "records"} => meta["user"] = {}
    /\ pc \in Streaming /\ k = 1 => meta["user"] = {}
    /\ pc \in {"push", "ticket"} => meta["user"] = {p}
    /\ pc \in Streaming /\ k >= 2 => meta["user"] = {p} /\ p \in ticket
    /\ told = "installed" => meta["user"] = {p} /\ p \in ticket

\* What one failed call may spoil, and who repairs it.
OneFault ==
  faults = 1 =>
    /\ pc = "idle" /\ Spoilt # {} =>
         \E q \in Packages : meta["user"] = {q} /\ Spoilt \subseteq ContentsOf(q)
    /\ told = "installed" /\ before = 1 => Spoilt = {}
    /\ pc # "idle" /\ before = 0 /\ Spoilt # {} =>
         pc \in Streaming /\ k >= 2 /\ meta["user"] = {p} /\ Spoilt \subseteq ContentsOf(p)
    /\ pc = "register" /\ before = 0 /\ k >= 2 /\ place[Id] # "whole" => meta["user"] = {p}
    /\ pc = "delete" /\ before = 1 /\ Spoilt # {} =>
         /\ old.st = "user" /\ meta["user"] = {old.pk}
         /\ \A c \in Spoilt : \E i \in k..Len(MetaFirst(old.pk)) : c = MetaFirst(old.pk)[i]
    /\ pc \notin {"idle", "delete"} /\ before = 1 => Spoilt = {}

Repair == Registered /\ Alone /\ OneFault

\* What the steps need of the invariant, and of the packages.
LEMMA Facts ==
  ASSUME IInv
  PROVE  /\ p \in Packages /\ faults \in Nat /\ before \in Nat /\ before <= faults
         /\ None # "part" /\ None # "whole"
         /\ \A st \in Storages : store[st] \in [Contents -> State]
         /\ store \in [Storages -> [Contents -> State]]
         /\ meta \in [Storages -> SUBSET Packages]
         /\ place \in [Contents -> State]
         /\ "user" \in Storages
         /\ \A q \in Packages : /\ Len(MetaFirst(q)) \in Nat \ {0}
                                /\ MetaFirst(q)[1] = Meta[q]
                                /\ \A i \in 1..Len(MetaFirst(q)) : MetaFirst(q)[i] \in Contents
         /\ pc \in InContent => k \in 1..Len(MetaFirst(p)) /\ Id \in Contents /\ Id \in ContentsOf(p)
         /\ pc # "idle" => told = "nothing"
BY MetaComesFirst, PackagesHaveContents DEF IInv, TypeOK, Course, Storages, Id, ContentsOf

LEMMA DeleteContentRepairs == IInv /\ Repair /\ DeleteContent => Repair'
<1> SUFFICES ASSUME IInv, Repair, DeleteContent PROVE Repair'
  OBVIOUS
<1> USE Facts DEF Well, Fault, FaultIf, To, Keep, Ends, console
<1>1. Registered'
  BY DEF DeleteContent, Repair, Registered, Streaming, InContent, Id
<1>2. Alone'
  BY DEF DeleteContent, Repair, Alone, Streaming, InContent
<1>3. OneFault'
  <2>1. /\ pc' = "delete" /\ pc = "delete" /\ k' = k + 1 /\ UNCHANGED <<meta, p, old, told, before>>
        /\ k <= Len(MetaFirst(old.pk))
        /\ \/ faults' = faults /\ store' = [store EXCEPT ![old.st][MetaFirst(old.pk)[k]] = None]
           \/ faults' = faults + 1 /\ store' = store
    BY DEF DeleteContent
  <2>7. k \in Nat /\ old.pk \in Packages /\ old.st \in Storages
    BY <2>1 DEF IInv, TypeOK, Course
  <2>2. Spoilt' \subseteq Spoilt
    BY <2>1, <2>7 DEF Spoilt
  <2>3. faults' = 1 /\ before' = 0 => Spoilt' = {}
    <3>1. CASE faults = 0
      BY <2>2, <3>1 DEF Repair, Alone, Spoilt
    <3>. QED
      BY <2>1, <2>2, <3>1 DEF Repair, OneFault, Streaming, InContent
  <2>4. ASSUME faults' = 1, before' = 1, NEW c \in Spoilt'
        PROVE  /\ old'.st = "user" /\ meta'["user"] = {old'.pk}
               /\ \E i \in k'..Len(MetaFirst(old'.pk)) : c = MetaFirst(old'.pk)[i]
    <3>1. /\ faults = 1 /\ store' = [store EXCEPT ![old.st][MetaFirst(old.pk)[k]] = None]
          /\ c \in Spoilt
      BY <2>1, <2>2, <2>4
    <3>2. /\ old.st = "user" /\ meta["user"] = {old.pk}
          /\ \E i \in k..Len(MetaFirst(old.pk)) : c = MetaFirst(old.pk)[i]
      BY <2>1, <2>7, <2>4, <3>1 DEF Repair, OneFault
    <3>3. PICK i \in k..Len(MetaFirst(old.pk)) : c = MetaFirst(old.pk)[i]
      BY <3>2
    <3>4. c \in Contents /\ store'["user"][c] = "part"
      BY <2>4, <3>1 DEF Spoilt
    <3>5. i # k
      BY <3>1, <3>2, <3>3, <3>4
    <3>6. i \in k'..Len(MetaFirst(old.pk))
      BY <2>1, <2>7, <3>3, <3>5
    <3>. QED
      BY <2>1, <3>2, <3>3, <3>6
  <2>. QED
    BY <2>1, <2>3, <2>4 DEF OneFault
<1>. QED
  BY <1>1, <1>2, <1>3 DEF Repair

LEMMA DeleteEndsRepairs == IInv /\ Repair /\ DeleteEnds => Repair'
<1> SUFFICES ASSUME IInv, Repair, DeleteEnds PROVE Repair'
  OBVIOUS
<1> USE Facts DEF Well, Fault, FaultIf, To, Keep, Ends, console
<1>1. Registered'
  BY DEF DeleteEnds, Repair, Registered, Streaming, InContent, Id
<1>2. Alone'
  BY DEF DeleteEnds, Repair, Alone, Streaming, InContent
<1>3. OneFault'
  <2>1. /\ pc' = "unrecord" /\ pc = "delete" /\ UNCHANGED <<store, meta, p, old, told, before, k>>
        /\ k \in Nat /\ old.pk \in Packages
        /\ \/ faults' = faults /\ k > Len(MetaFirst(old.pk))
           \/ faults' = faults + 1
    BY DEF DeleteEnds, IInv, TypeOK, Course
  <2>2. Spoilt' = Spoilt
    BY <2>1 DEF Spoilt
  <2>3. faults' = 1 => Spoilt = {}
    <3>1. CASE faults = 0
      BY <3>1 DEF Repair, Alone, Spoilt
    <3>2. CASE faults = 1 /\ faults' = 1
      <4>1. \A i \in k..Len(MetaFirst(old.pk)) : FALSE
        BY <2>1, <3>2
      <4>2. before = 0 \/ before = 1
        BY <3>2
      <4>. QED
        BY <2>1, <3>2, <4>1, <4>2 DEF Repair, OneFault, Streaming, InContent
    <3>. QED
      BY <2>1, <3>1, <3>2
  <2>. QED
    BY <2>1, <2>2, <2>3 DEF OneFault
<1>. QED
  BY <1>1, <1>2, <1>3 DEF Repair

LEMMA UnrecordRepairs == IInv /\ Repair /\ Unrecord => Repair'
<1> SUFFICES ASSUME IInv, Repair, Unrecord PROVE Repair'
  OBVIOUS
<1> USE Facts DEF Well, Fault, FaultIf, To, Keep, Ends, console
<1>1. Registered'
  BY DEF Unrecord, Repair, Registered, Streaming, InContent, Id
<1>2. Alone'
  BY DEF Unrecord, Repair, Alone, Streaming, InContent
<1>3. OneFault'
  BY DEF Unrecord, Repair, Alone, OneFault, Streaming, InContent, Spoilt
<1>. QED
  BY <1>1, <1>2, <1>3 DEF Repair

LEMMA UnrecordFailsRepairs == IInv /\ Repair /\ UnrecordFails => Repair'
<1> SUFFICES ASSUME IInv, Repair, UnrecordFails PROVE Repair'
  OBVIOUS
<1> USE Facts DEF Well, Fault, FaultIf, To, Keep, Ends, console
<1>1. Registered'
  BY DEF UnrecordFails, Repair, Registered, Streaming, InContent, Id
<1>2. Alone'
  BY DEF UnrecordFails, Repair, Alone, Streaming, InContent
<1>3. OneFault'
  BY DEF UnrecordFails, Repair, Alone, OneFault, Streaming, InContent, Spoilt
<1>. QED
  BY <1>1, <1>2, <1>3 DEF Repair

LEMMA DropRecordRepairs == IInv /\ Repair /\ DropRecord => Repair'
<1> SUFFICES ASSUME IInv, Repair, DropRecord PROVE Repair'
  OBVIOUS
<1> USE Facts DEF Well, Fault, FaultIf, To, Keep, Ends, console
<1>1. Registered'
  BY DEF DropRecord, Repair, Registered, Streaming, InContent, Id
<1>2. Alone'
  BY DEF DropRecord, Repair, Alone, Streaming, InContent
<1>3. OneFault'
  BY DEF DropRecord, Repair, Alone, OneFault, Streaming, InContent, Spoilt
<1>. QED
  BY <1>1, <1>2, <1>3 DEF Repair

LEMMA HeaderShortRepairs == IInv /\ Repair /\ HeaderShort => Repair'
<1> SUFFICES ASSUME IInv, Repair, HeaderShort PROVE Repair'
  OBVIOUS
<1> USE Facts DEF Well, Fault, FaultIf, To, Keep, Ends, console
<1>1. Registered'
  BY DEF HeaderShort, Repair, Registered, Streaming, InContent, Id
<1>2. Alone'
  BY DEF HeaderShort, Repair, Alone, Streaming, InContent
<1>3. OneFault'
  BY DEF HeaderShort, Repair, Alone, OneFault, Streaming, InContent, Spoilt
<1>. QED
  BY <1>1, <1>2, <1>3 DEF Repair

LEMMA OpenFailsRepairs == IInv /\ Repair /\ OpenFails => Repair'
<1> SUFFICES ASSUME IInv, Repair, OpenFails PROVE Repair'
  OBVIOUS
<1> USE Facts DEF Well, Fault, FaultIf, To, Keep, Ends, console
<1>1. Registered'
  BY DEF OpenFails, Repair, Registered, Streaming, InContent, Id
<1>2. Alone'
  BY DEF OpenFails, Repair, Alone, Streaming, InContent
<1>3. OneFault'
  BY DEF OpenFails, Repair, Alone, OneFault, Streaming, InContent, Spoilt
<1>. QED
  BY <1>1, <1>2, <1>3 DEF Repair

LEMMA EntryMissingRepairs == IInv /\ Repair /\ EntryMissing => Repair'
<1> SUFFICES ASSUME IInv, Repair, EntryMissing PROVE Repair'
  OBVIOUS
<1> USE Facts DEF Well, Fault, FaultIf, To, Keep, Ends, console
<1>1. Registered'
  BY DEF EntryMissing, Repair, Registered, Streaming, InContent, Id
<1>2. Alone'
  BY DEF EntryMissing, Repair, Alone, Streaming, InContent
<1>3. OneFault'
  BY DEF EntryMissing, Repair, Alone, OneFault, Streaming, InContent, Spoilt
<1>. QED
  BY <1>1, <1>2, <1>3 DEF Repair

LEMMA ClearPlaceRepairs == IInv /\ Repair /\ ClearPlace => Repair'
<1> SUFFICES ASSUME IInv, Repair, ClearPlace PROVE Repair'
  OBVIOUS
<1> USE Facts DEF Well, Fault, FaultIf, To, Keep, Ends, console
<1>1. Registered'
  BY DEF ClearPlace, Repair, Registered, Streaming, InContent, Id
<1>2. Alone'
  BY DEF ClearPlace, Repair, Alone, Streaming, InContent
<1>3. OneFault'
  BY DEF ClearPlace, Repair, Alone, OneFault, Streaming, InContent, Spoilt
<1>. QED
  BY <1>1, <1>2, <1>3 DEF Repair

LEMMA CreateRepairs == IInv /\ Repair /\ Create => Repair'
<1> SUFFICES ASSUME IInv, Repair, Create PROVE Repair'
  OBVIOUS
<1> USE Facts DEF Well, Fault, FaultIf, To, Keep, Ends, console
<1>1. Registered'
  BY DEF Create, Repair, Registered, Streaming, InContent, Id
<1>2. Alone'
  BY DEF Create, Repair, Alone, Streaming, InContent
<1>3. OneFault'
  BY DEF Create, Repair, Alone, OneFault, Streaming, InContent, Spoilt
<1>. QED
  BY <1>1, <1>2, <1>3 DEF Repair

LEMMA CreateThrowsRepairs == IInv /\ Repair /\ CreateThrows => Repair'
<1> SUFFICES ASSUME IInv, Repair, CreateThrows PROVE Repair'
  OBVIOUS
<1> USE Facts DEF Well, Fault, FaultIf, To, Keep, Ends, console
<1>1. Registered'
  BY DEF CreateThrows, Repair, Registered, Streaming, InContent, Id
<1>2. Alone'
  BY DEF CreateThrows, Repair, Alone, Streaming, InContent
<1>3. OneFault'
  BY DEF CreateThrows, Repair, Alone, OneFault, Streaming, InContent, Spoilt
<1>. QED
  BY <1>1, <1>2, <1>3 DEF Repair

LEMMA BodyRepairs == IInv /\ Repair /\ Body => Repair'
<1> SUFFICES ASSUME IInv, Repair, Body PROVE Repair'
  OBVIOUS
<1> USE Facts DEF Well, Fault, FaultIf, To, Keep, Ends, console
<1>1. Registered'
  BY DEF Body, Repair, Registered, Streaming, InContent, Id
<1>2. Alone'
  BY DEF Body, Repair, Alone, Streaming, InContent
<1>3. OneFault'
  <2>1. /\ pc = "body" /\ pc' = "register" /\ UNCHANGED <<store, meta, p, k, told, before>>
        /\ Id' = Id /\ k \in Nat
        /\ \/ faults' = faults /\ place'[Id] = "whole"
           \/ faults' = faults + 1
    BY DEF Body, InContent, Id
  <2>2. Spoilt' = Spoilt
    BY <2>1 DEF Spoilt
  <2>3. CASE faults = 0
    BY <2>1, <2>2, <2>3 DEF Repair, Alone, OneFault, Spoilt, Streaming, InContent
  <2>4. CASE faults = 1 /\ faults' = 1
    BY <2>1, <2>2, <2>4 DEF Repair, OneFault, Streaming, InContent
  <2>. QED
    BY <2>1, <2>3, <2>4 DEF OneFault
<1>. QED
  BY <1>1, <1>2, <1>3 DEF Repair

LEMMA RegisterRepairs == IInv /\ Repair /\ Register => Repair'
<1> SUFFICES ASSUME IInv, Repair, Register PROVE Repair'
  OBVIOUS
<1> USE Facts DEF Well, Fault, FaultIf, To, Keep, Ends, console
<1>1. Registered'
  BY DEF Register, Repair, Registered, Streaming, InContent, Id
<1>2. Alone'
  <2>1. /\ pc = "register" /\ pc' = "unplace" /\ UNCHANGED <<meta, ticket, p, k, told>>
        /\ Id \in Contents /\ faults' \in Nat /\ faults <= faults'
        /\ store' = [store EXCEPT !["user"][Id] = place[Id]] \/ store' = store
    BY DEF Register, InContent
  <2>2. SUFFICES ASSUME faults' = 0 PROVE Alone'
    BY DEF Alone
  <2>3. faults = 0 /\ before = 0
    BY <2>1, <2>2
  <2>4. place[Id] = "whole"
    BY <2>1, <2>3 DEF Repair, Registered
  <2>5. \A c \in Contents : store'["user"][c] # "part"
    BY <2>1, <2>3, <2>4 DEF Repair, Alone
  <2>. QED
    BY <2>1, <2>3, <2>5 DEF Repair, Alone, Streaming, InContent
<1>3. OneFault'
  <2>1. /\ pc = "register" /\ pc' = "unplace" /\ UNCHANGED <<meta, ticket, p, k, told, before>>
        /\ Id \in Contents /\ Id \in ContentsOf(p) /\ k \in Nat /\ k >= 1
        /\ \/ store' = [store EXCEPT !["user"][Id] = place[Id]] /\ faults' = faults
           \/ store' = store /\ faults' \in {faults, faults + 1}
    BY DEF Register, InContent
  <2>2. k = 1 => Id \in Metas
    BY DEF Id, Metas
  <2>3. SUFFICES ASSUME faults' = 1 PROVE OneFault'
    BY DEF OneFault
  <2>4. CASE faults = 0
    <3>1. store' = store
      BY <2>1, <2>3, <2>4
    <3>2. Spoilt' = {}
      BY <2>4, <3>1 DEF Repair, Alone, Spoilt
    <3>. QED
      BY <2>1, <3>2 DEF OneFault
  <2>5. CASE faults = 1 /\ before = 1
    <3>1. place[Id] = "whole"
      BY <2>1, <2>5 DEF Repair, Registered
    <3>2. Spoilt = {}
      BY <2>1, <2>5 DEF Repair, OneFault
    <3>3. Spoilt' = {}
      BY <2>1, <3>1, <3>2 DEF Spoilt
    <3>. QED
      BY <2>1, <3>3 DEF OneFault
  <2>6. CASE faults = 1 /\ before = 0
    <3>1. Spoilt' \subseteq Spoilt \cup {Id}
      BY <2>1 DEF Spoilt
    <3>2. ASSUME NEW c \in Spoilt', c \notin Spoilt PROVE c = Id /\ k >= 2 /\ meta["user"] = {p}
      <4>1. c = Id
        BY <3>1, <3>2
      <4>2. k >= 2
        BY <2>1, <2>2, <3>2, <4>1 DEF Spoilt
      <4>3. place[Id] = "part"
        BY <2>1, <3>2, <4>1 DEF Spoilt
      <4>4. meta["user"] = {p}
        BY <2>1, <2>6, <4>2, <4>3 DEF Repair, OneFault
      <4>. QED
        BY <4>1, <4>2, <4>4
    <3>3. Spoilt # {} => k >= 2 /\ meta["user"] = {p} /\ Spoilt \subseteq ContentsOf(p)
      BY <2>1, <2>6 DEF Repair, OneFault
    <3>4. Spoilt' # {} => k >= 2 /\ meta["user"] = {p} /\ Spoilt' \subseteq ContentsOf(p)
      BY <2>1, <3>2, <3>3
    <3>. QED
      BY <2>1, <2>3, <2>6, <3>4 DEF OneFault, Streaming, InContent, ContentsOf, MetaFirst
  <2>. QED
    BY <2>1, <2>3, <2>4, <2>5, <2>6
<1>. QED
  BY <1>1, <1>2, <1>3 DEF Repair

LEMMA UnplaceRepairs == IInv /\ Repair /\ Unplace => Repair'
<1> SUFFICES ASSUME IInv, Repair, Unplace PROVE Repair'
  OBVIOUS
<1> USE Facts DEF Well, Fault, FaultIf, To, Keep, Ends, console
<1>1. Registered'
  BY DEF Unplace, Repair, Registered, Streaming, InContent, Id
<1>2. Alone'
  BY DEF Unplace, Repair, Alone, Streaming, InContent
<1>3. OneFault'
  BY DEF Unplace, Repair, Alone, OneFault, Streaming, InContent, Spoilt
<1>. QED
  BY <1>1, <1>2, <1>3 DEF Repair

LEMMA ReadMetaRepairs == IInv /\ Repair /\ ReadMeta => Repair'
<1> SUFFICES ASSUME IInv, Repair, ReadMeta PROVE Repair'
  OBVIOUS
<1> USE Facts DEF Well, Fault, FaultIf, To, Keep, Ends, console
<1>1. Registered'
  BY DEF ReadMeta, Repair, Registered, Streaming, InContent, Id
<1>2. Alone'
  BY DEF ReadMeta, Repair, Alone, Streaming, InContent
<1>3. OneFault'
  BY DEF ReadMeta, Repair, Alone, OneFault, Streaming, InContent, Spoilt
<1>. QED
  BY <1>1, <1>2, <1>3 DEF Repair

LEMMA ReadMetaFailsRepairs == IInv /\ Repair /\ ReadMetaFails => Repair'
<1> SUFFICES ASSUME IInv, Repair, ReadMetaFails PROVE Repair'
  OBVIOUS
<1> USE Facts DEF Well, Fault, FaultIf, To, Keep, Ends, console
<1>1. Registered'
  BY DEF ReadMetaFails, Repair, Registered, Streaming, InContent, Id
<1>2. Alone'
  BY DEF ReadMetaFails, Repair, Alone, Streaming, InContent
<1>3. OneFault'
  BY DEF ReadMetaFails, Repair, Alone, OneFault, Streaming, InContent, Spoilt
<1>. QED
  BY <1>1, <1>2, <1>3 DEF Repair

LEMMA SetRecordsRepairs == IInv /\ Repair /\ SetRecords => Repair'
<1> SUFFICES ASSUME IInv, Repair, SetRecords PROVE Repair'
  OBVIOUS
<1> USE Facts DEF Well, Fault, FaultIf, To, Keep, Ends, console
<1>1. Registered'
  BY DEF SetRecords, Repair, Registered, Streaming, InContent, Id
<1>2. Alone'
  BY DEF SetRecords, Repair, Alone, Streaming, InContent
<1>3. OneFault'
  BY DEF SetRecords, Repair, Alone, OneFault, Streaming, InContent, Spoilt
<1>. QED
  BY <1>1, <1>2, <1>3 DEF Repair

LEMMA PushRecordRepairs == IInv /\ Repair /\ PushRecord => Repair'
<1> SUFFICES ASSUME IInv, Repair, PushRecord PROVE Repair'
  OBVIOUS
<1> USE Facts DEF Well, Fault, FaultIf, To, Keep, Ends, console
<1>1. Registered'
  BY DEF PushRecord, Repair, Registered, Streaming, InContent, Id
<1>2. Alone'
  BY DEF PushRecord, Repair, Alone, Streaming, InContent
<1>3. OneFault'
  BY DEF PushRecord, Repair, Alone, OneFault, Streaming, InContent, Spoilt
<1>. QED
  BY <1>1, <1>2, <1>3 DEF Repair

LEMMA RecordsFailRepairs == IInv /\ Repair /\ RecordsFail => Repair'
<1> SUFFICES ASSUME IInv, Repair, RecordsFail PROVE Repair'
  OBVIOUS
<1> USE Facts DEF Well, Fault, FaultIf, To, Keep, Ends, console
<1>1. Registered'
  BY DEF RecordsFail, Repair, Registered, Streaming, InContent, Id
<1>2. Alone'
  BY DEF RecordsFail, Repair, Alone, Streaming, InContent
<1>3. OneFault'
  BY DEF RecordsFail, Repair, Alone, OneFault, Streaming, InContent, Spoilt
<1>. QED
  BY <1>1, <1>2, <1>3 DEF Repair

LEMMA ImportTicketRepairs == IInv /\ Repair /\ ImportTicket => Repair'
<1> SUFFICES ASSUME IInv, Repair, ImportTicket PROVE Repair'
  OBVIOUS
<1> USE Facts DEF Well, Fault, FaultIf, To, Keep, Ends, console
<1>1. Registered'
  <2>1. pc' = "clear" /\ told' = "nothing" /\ UNCHANGED <<store, p, before>> /\ faults' >= faults
    BY DEF ImportTicket, IInv, Course
  <2>2. SUFFICES ASSUME faults = before PROVE Registered'
    BY <2>1 DEF Registered
  <2>3. Meta[p] \in named
    BY <2>2, MetaComesFirst DEF ImportTicket, IInv, Clean
  <2>4. k' = 2 /\ store["user"][Meta[p]] = "whole"
    BY <2>3 DEF ImportTicket, IInv, Records, HasRecords
  <2>5. \A i \in 1..Len(MetaFirst(p)) : i < k' => i = 1
    BY <2>4
  <2>6. store["user"][MetaFirst(p)[1]] # None
    BY <2>4
  <2>. QED
    BY <2>1, <2>5, <2>6 DEF Registered
<1>2. Alone'
  <2>1. SUFFICES ASSUME faults' = 0 PROVE Alone'
    BY DEF Alone
  <2>2. faults = 0 /\ ticket' = ticket \cup {p} /\ pc' = "clear" /\ told' = "nothing"
        /\ pc = "ticket" /\ UNCHANGED <<store, meta, p>>
    <3>1. ~ (named # ContentsOf(p))
      BY <2>1 DEF ImportTicket, IInv, Clean
    <3>. QED
      BY <2>1, <3>1 DEF ImportTicket, IInv, Course
  <2>3. k' >= 2
    BY DEF ImportTicket
  <2>. QED
    BY <2>2, <2>3 DEF Repair, Alone, Streaming, InContent
<1>3. OneFault'
  BY DEF ImportTicket, Repair, Alone, OneFault, Streaming, InContent, Spoilt
<1>. QED
  BY <1>1, <1>2, <1>3 DEF Repair

LEMMA FinishesRepairs == IInv /\ Repair /\ Finishes => Repair'
<1> SUFFICES ASSUME IInv, Repair, Finishes PROVE Repair'
  OBVIOUS
<1> USE Facts DEF Well, Fault, FaultIf, To, Keep, Ends, console
<1>1. Registered'
  <2>1. /\ pc = "clear" /\ pc' = "idle" /\ UNCHANGED <<store, p, before, faults>>
        /\ k > Len(MetaFirst(p)) /\ k \in Nat
    BY DEF Finishes, IInv, TypeOK
  <2>2. \A i \in 1..Len(MetaFirst(p)) : i < k
    BY <2>1
  <2>3. faults = before => \A c \in ContentsOf(p) : store["user"][c] # None
    BY <2>1, <2>2 DEF Repair, Registered, Streaming, ContentsOf
  <2>4. ContentsOf(p)' = ContentsOf(p)
    BY <2>1 DEF ContentsOf, MetaFirst
  <2>. QED
    BY <2>1, <2>3, <2>4 DEF Registered, Streaming, InContent
<1>2. Alone'
  <2>1. /\ pc = "clear" /\ pc' = "idle" /\ UNCHANGED <<store, meta, ticket, p, faults>>
        /\ k > Len(MetaFirst(p)) /\ k \in Nat
    BY DEF Finishes, IInv, TypeOK
  <2>2. k >= 2
    BY <2>1
  <2>. QED
    BY <2>1, <2>2 DEF Repair, Alone, Streaming, InContent
<1>3. OneFault'
  BY DEF Finishes, Repair, Alone, OneFault, Streaming, InContent, Spoilt
<1>. QED
  BY <1>1, <1>2, <1>3 DEF Repair

LEMMA PowerCutRepairs == IInv /\ Repair /\ PowerCut => Repair'
<1> SUFFICES ASSUME IInv, Repair, PowerCut PROVE Repair'
  OBVIOUS
<1> USE Facts DEF Well, Fault, FaultIf, To, Keep, Ends, console
<1>1. Registered'
  BY DEF PowerCut, Repair, Registered, Streaming, InContent, Id
<1>2. Alone'
  BY DEF PowerCut, Repair, Alone, Streaming, InContent
<1>3. OneFault'
  <2>1. /\ pc # "idle" /\ pc' = "idle" /\ told' = "cut" /\ UNCHANGED <<store, meta, faults, before>>
    BY DEF PowerCut
  <2>2. Spoilt' = Spoilt
    BY <2>1 DEF Spoilt
  <2>3. SUFFICES ASSUME faults = 1, Spoilt # {}
                 PROVE  \E q \in Packages : meta["user"] = {q} /\ Spoilt \subseteq ContentsOf(q)
    BY <2>1, <2>2 DEF OneFault
  <2>4. CASE before = 0
    BY <2>1, <2>3, <2>4 DEF Repair, OneFault
  <2>5. CASE before = 1
    <3>1. pc = "delete"
      BY <2>1, <2>3, <2>5 DEF Repair, OneFault
    <3>2. /\ meta["user"] = {old.pk}
          /\ \A c \in Spoilt : \E i \in k..Len(MetaFirst(old.pk)) : c = MetaFirst(old.pk)[i]
      BY <2>3, <2>5, <3>1 DEF Repair, OneFault
    <3>3. old.pk \in Packages /\ k \in Nat /\ k >= 1
      BY <3>1 DEF IInv, TypeOK, Course
    <3>4. Spoilt \subseteq ContentsOf(old.pk)
      BY <3>2, <3>3 DEF ContentsOf
    <3>. QED
      BY <3>2, <3>3, <3>4
  <2>. QED
    BY <2>3, <2>4, <2>5
<1>. QED
  BY <1>1, <1>2, <1>3 DEF Repair

LEMMA BeginRepairs == ASSUME NEW q \in Packages PROVE IInv /\ Repair /\ Begin(q) => Repair'
<1> SUFFICES ASSUME IInv, Repair, Begin(q) PROVE Repair'
  OBVIOUS
<1> USE Facts
<1>1. /\ pc = "idle" /\ p' = q /\ k' = 1 /\ told' = "nothing" /\ before' = faults
      /\ UNCHANGED <<store, place, meta, ticket>>
      /\ \/ /\ faults' = faults /\ pc' = "delete" /\ old'.pk \in Packages /\ old'.pk \in meta[old'.st]
            /\ old'.st \in Storages /\ (old'.st = "sd" => meta["user"] = {})
         \/ /\ faults' = faults /\ pc' = "clear" /\ meta["user"] = {}
         \/ /\ faults' = faults + 1 /\ pc' = "clear"
  BY DEF Begin, Well, Fault, console
<1>2. Spoilt' = Spoilt
  BY <1>1 DEF Spoilt
<1>3. Registered'
  BY <1>1 DEF Registered, Streaming, InContent
<1>4. Alone'
  BY <1>1 DEF Repair, Alone, Streaming, InContent, Storages
<1>5. OneFault'
  <2>1. CASE faults = 0
    <3>1. Spoilt' = {}
      BY <1>1, <2>1 DEF Repair, Alone, Spoilt
    <3>. QED
      BY <1>1, <3>1 DEF OneFault
  <2>2. CASE faults = 1 /\ faults' = 1 /\ Spoilt = {}
    BY <1>1, <1>2, <2>2 DEF OneFault
  <2>3. CASE faults = 1 /\ faults' = 1 /\ Spoilt # {}
    <3>1. PICK r \in Packages : meta["user"] = {r} /\ Spoilt \subseteq ContentsOf(r)
      BY <1>1, <2>3 DEF Repair, OneFault
    <3>2. pc' = "delete" /\ old'.st = "user" /\ old'.pk = r
      BY <1>1, <2>3, <3>1 DEF Storages
    <3>3. \A c \in Spoilt : \E i \in 1..Len(MetaFirst(r)) : c = MetaFirst(r)[i]
      BY <3>1 DEF ContentsOf
    <3>. QED
      BY <1>1, <1>2, <2>3, <3>1, <3>2, <3>3 DEF OneFault
  <2>. QED
    BY <1>1, <2>1, <2>2, <2>3 DEF OneFault
<1>. QED
  BY <1>3, <1>4, <1>5 DEF Repair

LEMMA RepairInit == Init => Repair
<1> SUFFICES ASSUME Init PROVE Repair
  OBVIOUS
<1>1. pc = "idle" /\ told = "nothing" /\ faults = 0 /\ "user" \in Storages
  BY DEF Init, Storages
<1>2. \A c \in Contents : store["user"][c] # "part"
  BY <1>1, PackagesHaveContents DEF Init, Holds
<1>3. meta["user"] = {} \/ \E q \in Packages : meta["user"] = {q}
  BY <1>1 DEF Init
<1>. QED
  BY <1>1, <1>2, <1>3 DEF Repair, Registered, Alone, OneFault, Streaming, InContent

LEMMA RepairStep == IInv /\ Repair /\ [Next]_vars => Repair'
<1> SUFFICES ASSUME IInv, Repair, [Next]_vars PROVE Repair'
  OBVIOUS
<1>1. CASE UNCHANGED vars
  <2>1. Registered' /\ Alone'
    BY <1>1 DEF vars, Repair, Registered, Alone, Id
  <2>2. UNCHANGED <<pc, faults, before, meta, p, k, place, old, told>> /\ Spoilt' = Spoilt
    BY <1>1 DEF vars, Spoilt
  <2>3. OneFault'
    BY <2>2 DEF Repair, OneFault, Id
  <2>. QED
    BY <2>1, <2>3 DEF Repair
<1>2. CASE RemoveTitle
  BY <1>2, DeleteContentRepairs, DeleteEndsRepairs, UnrecordRepairs, UnrecordFailsRepairs,
     DropRecordRepairs DEF RemoveTitle
<1>3. CASE InstallNCA
  BY <1>3, ClearPlaceRepairs, CreateRepairs, CreateThrowsRepairs, BodyRepairs, RegisterRepairs,
     UnplaceRepairs, OpenFailsRepairs, EntryMissingRepairs DEF InstallNCA
<1>4. CASE \E q \in Packages : Begin(q)
  BY <1>4, BeginRepairs
<1>5. CASE ReadMeta \/ ReadMetaFails \/ SetRecords \/ PushRecord \/ RecordsFail
  BY <1>5, ReadMetaRepairs, ReadMetaFailsRepairs, SetRecordsRepairs, PushRecordRepairs,
     RecordsFailRepairs
<1>6. CASE ImportTicket \/ Finishes \/ PowerCut \/ HeaderShort
  BY <1>6, ImportTicketRepairs, FinishesRepairs, PowerCutRepairs, HeaderShortRepairs
<1>. QED
  BY <1>1, <1>2, <1>3, <1>4, <1>5, <1>6 DEF Next

\* A damaged meta content belongs to no other package.
LEMMA RepairImplies == IInv /\ Repair => RetryRepairs
<1> SUFFICES ASSUME IInv, Repair, told = "installed", faults = before, faults <= 1
             PROVE  /\ \A c \in ContentsOf(p) : store["user"][c] = "whole"
                    /\ faults = 0 => meta["user"] = {p} /\ p \in ticket
  BY DEF RetryRepairs
<1> USE Facts
<1>1. faults = 0 => meta["user"] = {p} /\ p \in ticket
  BY DEF Repair, Alone
<1>2. ASSUME NEW c \in ContentsOf(p) PROVE store["user"][c] = "whole"
  <2>1. c \in Contents /\ store["user"][c] \in State
    BY DEF ContentsOf
  <2>2. store["user"][c] # None
    BY DEF Repair, Registered
  <2>3. CASE faults = 0
    BY <2>1, <2>2, <2>3 DEF Repair, Alone, State
  <2>4. CASE faults = 1 /\ c \notin Metas
    <3>1. Spoilt = {}
      BY <2>4 DEF Repair, OneFault
    <3>. QED
      BY <2>1, <2>2, <2>4, <3>1 DEF Spoilt, State
  <2>5. CASE c \in Metas
    <3>1. PICK q \in Packages : c = Meta[q]
      BY <2>5 DEF Metas
    <3>2. q = p
      BY <3>1, PackagesHaveContents
    <3>3. Meta[p] \in named
      BY MetaComesFirst DEF IInv, Clean
    <3>. QED
      BY <3>1, <3>2, <3>3 DEF IInv, Records, HasRecords
  <2>. QED
    BY <2>3, <2>4, <2>5
<1>. QED
  BY <1>1, <1>2

\* A content that one failed call has spoilt is replaced by the next installation
\* that ends well, and after cuts alone the title is also the only one in the user
\* storage, with its ticket.
THEOREM RetryRepairsHolds == Spec => []RetryRepairs
<1>1. Spec => []Repair
  <2>1. Spec => []IInv /\ [][Next]_vars
    BY Invariance, PTL DEF Spec
  <2>. QED
    BY <2>1, Invariance, RepairInit, RepairStep, PTL DEF Spec
<1>. QED
  BY <1>1, Invariance, RepairImplies, PTL
=============================================================================
