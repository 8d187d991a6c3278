--------------------------- MODULE SelfUpdateProofs ---------------------------
(***************************************************************************)
(* Theorems about SelfUpdate, for every set of versions and of error pages.*)
(***************************************************************************)
EXTENDS SelfUpdate, SequenceTheorems, WellFoundedInduction, TLAPS

Excused == unchecked \/ stray

\* Where each program has come to, and the file that is left to go on from.
Control ==
  /\ pc \in AppAt => app \in Versions
  /\ pc \in CopyAt \cup {"fwd"} /\ arg # "none" => copy[arg] \in Versions
  /\ pc \in CopyAt /\ arg = "none" => app \in Versions /\ (temp \in Versions \/ unchecked)
  /\ pc \in FwdAt \ {"next"} => fwd = Whole
  /\ pc \in {"fwd", "fwd_temp", "fwd_move"} /\ (pc = "fwd" => arg = "none")
       => temp \in Versions \/ Excused
  /\ pc = "fwd_bad" => app \in Versions
  /\ pc \in {"fwd_end", "next"} => app \in Versions \/ Excused

\* What last and published hold where they are compared.
Compared ==
  /\ pc = "opened" => last \in {app, published} \cup Pages
  /\ pc = "offer" => last \in {published} \cup Pages /\ Newer(app, last)

IInv == TypeOK /\ Control /\ Recoverable

-----------------------------------------------------------------------------
\* Steps of the application in its folder.
AppStep ==
  \/ StartApp \/ Opens \/ Offers \/ NothingNew \/ Answer
  \/ AskedFor \/ SwitchMode \/ PackDownload \/ Leave
  \/ NoSpace \/ Receives \/ DownloadFails \/ Downloaded
  \/ CheckGood \/ CheckRefused \/ CheckForced

\* Steps that write the forwarder, and start it.
CopyStep ==
  \/ \E p \in Places : StartCopy(p)
  \/ CopyBegins \/ CopyFails \/ CopyEnds
  \/ StartForwarder \/ LoadForwarder

\* Steps of the forwarder.
ForwarderStep ==
  \/ MoveCopy \/ MoveThrows \/ RemoveBad
  \/ RemoveBadFirst \/ NoTemp \/ RemoveApp \/ MoveTemp
  \/ RemoveItself \/ NextLoad

LEMMA InitHolds == Init => IInv
BY VersionsAreNumbers, FilesAreDistinct
   DEF Init, IInv, TypeOK, Control, Recoverable, Excused, Places, Unknown, AppAt, CopyAt, FwdAt

LEMMA AppKeeps == IInv /\ AppStep => IInv'
<1> SUFFICES ASSUME IInv, AppStep PROVE IInv'
  OBVIOUS
<1> USE VersionsAreNumbers, FilesAreDistinct
    DEF IInv, TypeOK, Control, Recoverable, Excused, Places, Unknown, AppAt, CopyAt, FwdAt, files, history
<1>1. CASE StartApp
  BY <1>1 DEF StartApp
<1>2. CASE Opens
  BY <1>2 DEF Opens, Versioned
<1>3. CASE Offers
  BY <1>3 DEF Offers
<1>4. CASE NothingNew
  BY <1>4 DEF NothingNew
<1>5. CASE Answer
  BY <1>5 DEF Answer
<1>6. CASE AskedFor
  BY <1>6 DEF AskedFor
<1>7. CASE SwitchMode
  BY <1>7 DEF SwitchMode, Versioned
<1>8. CASE PackDownload
  BY <1>8 DEF PackDownload
<1>9. CASE Leave
  BY <1>9 DEF Leave
<1>10. CASE NoSpace
  BY <1>10 DEF NoSpace
<1>11. CASE Receives
  BY <1>11 DEF Receives
<1>12. CASE DownloadFails
  BY <1>12 DEF DownloadFails
<1>13. CASE Downloaded
  BY <1>13 DEF Downloaded
<1>14. CASE CheckGood
  BY <1>14 DEF CheckGood
<1>15. CASE CheckRefused
  BY <1>15 DEF CheckRefused
<1>16. CASE CheckForced
  BY <1>16 DEF CheckForced
<1>. QED
  BY <1>1, <1>2, <1>3, <1>4, <1>5, <1>6, <1>7, <1>8, <1>9, <1>10, <1>11, <1>12,
     <1>13, <1>14, <1>15, <1>16 DEF AppStep

LEMMA CopyKeeps == IInv /\ CopyStep => IInv'
<1> SUFFICES ASSUME IInv, CopyStep PROVE IInv'
  OBVIOUS
<1> USE VersionsAreNumbers, FilesAreDistinct
    DEF IInv, TypeOK, Control, Recoverable, Excused, Places, Unknown, AppAt, CopyAt, FwdAt, files, history
<1>1. ASSUME NEW p \in Places, StartCopy(p) PROVE IInv'
  BY <1>1 DEF StartCopy
<1>2. CASE CopyBegins
  BY <1>2 DEF CopyBegins
<1>3. CASE CopyFails
  BY <1>3 DEF CopyFails
<1>4. CASE CopyEnds
  BY <1>4 DEF CopyEnds
<1>5. CASE StartForwarder
  BY <1>5 DEF StartForwarder
<1>6. CASE LoadForwarder
  BY <1>6 DEF LoadForwarder
<1>. QED
  BY <1>1, <1>2, <1>3, <1>4, <1>5, <1>6 DEF CopyStep

LEMMA ForwarderKeeps == IInv /\ ForwarderStep => IInv'
<1> SUFFICES ASSUME IInv, ForwarderStep PROVE IInv'
  OBVIOUS
<1> USE VersionsAreNumbers, FilesAreDistinct
    DEF IInv, TypeOK, Control, Recoverable, Excused, Places, Unknown, AppAt, CopyAt, FwdAt, files, history
<1>1. CASE MoveCopy
  BY <1>1 DEF MoveCopy
<1>2. CASE MoveThrows
  BY <1>2 DEF MoveThrows
<1>3. CASE RemoveBad
  BY <1>3 DEF RemoveBad
<1>4. CASE RemoveBadFirst
  BY <1>4 DEF RemoveBadFirst
<1>5. CASE NoTemp
  BY <1>5 DEF NoTemp
<1>6. CASE RemoveApp
  BY <1>6 DEF RemoveApp
<1>7. CASE MoveTemp
  BY <1>7 DEF MoveTemp
<1>8. CASE RemoveItself
  BY <1>8 DEF RemoveItself
<1>9. CASE NextLoad
  BY <1>9 DEF NextLoad
<1>. QED
  BY <1>1, <1>2, <1>3, <1>4, <1>5, <1>6, <1>7, <1>8, <1>9 DEF ForwarderStep

LEMMA StepKeeps == IInv /\ [Next]_vars => IInv'
<1> SUFFICES ASSUME IInv, [Next]_vars PROVE IInv'
  OBVIOUS
<1>1. CASE PowerCut
  BY <1>1 DEF PowerCut, IInv, TypeOK, Control, Recoverable, Excused, AppAt, CopyAt, FwdAt,
     files, history
<1>2. CASE UNCHANGED vars
  BY <1>2 DEF vars, IInv, TypeOK, Control, Recoverable, Excused
<1>3. CASE Next
  BY <1>1, <1>3, AppKeeps, CopyKeeps, ForwarderKeeps
     DEF Next, Forwarder, AppStep, CopyStep, ForwarderStep
<1>. QED
  BY <1>2, <1>3

THEOREM Invariance == Spec => []IInv
BY InitHolds, StepKeeps, PTL DEF Spec

\* The variables hold what the two programs put in them.
THEOREM TypeCorrect == Spec => []TypeOK
<1>1. IInv => TypeOK
  BY DEF IInv
<1>. QED
  BY <1>1, Invariance, PTL

\* Wherever the power is cut there is an application to start, or a forwarder
\* with the successor to put in its place.
THEOREM RecoverableHolds == Spec => []Recoverable
<1>1. IInv => Recoverable
  BY DEF IInv
<1>. QED
  BY <1>1, Invariance, PTL

\* The forwarder hands over to an application that can be started.
THEOREM NextLoadIsThereHolds == Spec => []NextLoadIsThere
<1>1. IInv => NextLoadIsThere
  BY DEF IInv, Control, Excused, NextLoadIsThere
<1>. QED
  BY <1>1, Invariance, PTL

-----------------------------------------------------------------------------
\* The comparison of two versions.

LEMMA LeastNatural ==
  ASSUME NEW T \in SUBSET Nat, T # {}
  PROVE  \E m \in T : \A t \in T : m <= t
<1>1. \E m \in T : \A t \in T : ~ (<<t, m>> \in OpToRel(<, Nat))
  BY NatLessThanWellFounded, WFMin
<1>2. PICK m \in T : \A t \in T : ~ (<<t, m>> \in OpToRel(<, Nat))
  BY <1>1
<1>3. \A t \in T : ~ (t < m)
  BY <1>2 DEF OpToRel
<1>4. \A t \in T : t \in Nat
  OBVIOUS
<1>5. \A t \in T : m <= t
  BY <1>3, <1>4
<1>. QED
  BY <1>5

LEMMA GreatestInRange ==
  ASSUME NEW n \in Nat, NEW S \in SUBSET (1..n), S # {}
  PROVE  \E k \in S : \A j \in S : j <= k
<1> DEFINE T == {n - j : j \in S}
<1>1. \A j \in S : j \in 1..n /\ n - j \in Nat
  OBVIOUS
<1>2. T \in SUBSET Nat /\ T # {}
  BY <1>1
<1>3. PICK m \in T : \A t \in T : m <= t
  <2> HIDE DEF T
  <2>. QED
    BY <1>2, LeastNatural
<1>4. PICK k \in S : m = n - k
  BY <1>3
<1>5. \A j \in S : n - k <= n - j
  BY <1>3, <1>4
<1>6. \A j \in S : j <= k
  BY <1>1, <1>5
<1>. QED
  BY <1>6

\* What the loop answers when it has come to the k-th number: the first that
\* differs decides, or the length if none does and neither ends before.
FromThere(local, remote, k) ==
  \/ /\ Len(remote) > Len(local)
     /\ \A i \in k..Len(local) : remote[i] = local[i]
  \/ \E j \in k..Len(local) :
       /\ remote[j] # local[j] /\ remote[j] > local[j]
       /\ \A i \in k..(j - 1) : remote[i] = local[i] /\ i # Len(remote)

\* One turn of the loop, test being what the others answer.
Turn(local, remote, test, k) ==
  IF remote[k] # local[k] THEN remote[k] > local[k]
  ELSE IF k = Len(local) THEN Len(remote) > k
  ELSE IF k = Len(remote) THEN FALSE
  ELSE test[k + 1]

\* The recursive definition has a solution, the one above.
LEMMA TurnIsSolved ==
  ASSUME NEW local \in Seq(Nat), NEW remote \in Seq(Nat), NEW k \in 1..Len(local)
  PROVE  FromThere(local, remote, k)
           <=> Turn(local, remote, [i \in 1..Len(local) |-> FromThere(local, remote, i)], k)
<1> DEFINE L == Len(local)
           R == Len(remote)
<1>1. L \in Nat /\ R \in Nat /\ k \in Nat /\ k >= 1 /\ k <= L
  OBVIOUS
<1>2. CASE remote[k] # local[k]
  <2>1. FromThere(local, remote, k) <=> remote[k] > local[k]
    <3>1. \A j \in k..L : (\A i \in k..(j - 1) : remote[i] = local[i]) => j = k
      <4>1. \A j \in k..L : j # k => k \in k..(j - 1)
        BY <1>1
      <4>. QED
        BY <1>2, <4>1
    <3>2. k \in k..L
      BY <1>1
    <3>3. \A i \in k..(k - 1) : FALSE
      BY <1>1
    <3>. QED
      BY <1>2, <3>1, <3>2, <3>3 DEF FromThere
  <2>. QED
    BY <1>2, <2>1 DEF Turn
<1>3. CASE remote[k] = local[k] /\ k = L
  <2>1. k..L = {k}
    BY <1>1, <1>3
  <2>2. FromThere(local, remote, k) <=> R > L
    BY <1>3, <2>1 DEF FromThere
  <2>. QED
    BY <1>3, <2>2 DEF Turn
<1>4. CASE remote[k] = local[k] /\ k # L /\ k = R
  <2>1. ~ (R > L)
    BY <1>1, <1>4
  <2>2. \A j \in k..L : j # k => k \in k..(j - 1)
    BY <1>1
  <2>3. ~ FromThere(local, remote, k)
    BY <1>4, <2>1, <2>2 DEF FromThere
  <2>. QED
    BY <1>4, <2>3 DEF Turn
<1>5. CASE remote[k] = local[k] /\ k # L /\ k # R
  <2>1. k + 1 \in 1..L
    BY <1>1, <1>5
  <2>2. k..L = {k} \cup ((k + 1)..L)
    BY <1>1, <1>5
  <2>3. \A j \in (k + 1)..L : k..(j - 1) = {k} \cup ((k + 1)..(j - 1))
    BY <1>1
  <2>4. FromThere(local, remote, k) <=> FromThere(local, remote, k + 1)
    <3>1. (\A i \in k..L : remote[i] = local[i]) <=> \A i \in (k + 1)..L : remote[i] = local[i]
      BY <1>5, <2>2
    <3>2. \A j \in (k + 1)..L :
            (\A i \in k..(j - 1) : remote[i] = local[i] /\ i # Len(remote))
              <=> \A i \in (k + 1)..(j - 1) : remote[i] = local[i] /\ i # Len(remote)
      BY <1>5, <2>3
    <3>. QED
      BY <1>5, <2>2, <3>1, <3>2 DEF FromThere
  <2>. QED
    BY <1>5, <2>1, <2>4 DEF Turn
<1>. QED
  BY <1>2, <1>3, <1>4, <1>5

\* The loop gives that answer at every number it comes to: there is no last one at
\* which it would not.
LEMMA LoopAnswers ==
  ASSUME NEW local \in Seq(Nat), NEW remote \in Seq(Nat), local # << >>
  PROVE  FromComponent(local, remote) <=> FromThere(local, remote, 1)
<1> DEFINE L == Len(local)
           Solves(test) == test = [k \in 1..L |-> Turn(local, remote, test, k)]
           closed == [k \in 1..L |-> FromThere(local, remote, k)]
           loop == CHOOSE test : Solves(test)
<1>1. L \in Nat /\ 1 \in 1..L
  BY EmptySeq
<1>2. Solves(closed)
  <2>1. ASSUME NEW k \in 1..L PROVE closed[k] = Turn(local, remote, closed, k)
    <3>1. FromThere(local, remote, k) <=> Turn(local, remote, closed, k)
      BY TurnIsSolved
    <3>2. Turn(local, remote, closed, k) \in BOOLEAN
      <4>1. (remote[k] > local[k]) \in BOOLEAN
        OBVIOUS
      <4>2. k # Len(local) => closed[k + 1] \in BOOLEAN
        <5>1. SUFFICES ASSUME k # Len(local) PROVE closed[k + 1] \in BOOLEAN
          OBVIOUS
        <5>2. k + 1 \in 1..L
          BY <1>1, <5>1
        <5>3. closed[k + 1] = FromThere(local, remote, k + 1)
          BY <5>2
        <5>4. FromThere(local, remote, k + 1) \in BOOLEAN
          BY DEF FromThere
        <5>. QED
          BY <5>3, <5>4
      <4>3. (Len(remote) > k) \in BOOLEAN /\ FALSE \in BOOLEAN
        OBVIOUS
      <4>. QED
        BY <4>1, <4>2, <4>3, Zenon DEF Turn
    <3>3. closed[k] \in BOOLEAN /\ (closed[k] <=> FromThere(local, remote, k))
      BY DEF FromThere
    <3>. QED
      BY <3>1, <3>2, <3>3
  <2>. QED
    BY <2>1
<1>3. Solves(loop)
  BY <1>2
<1>4. FromComponent(local, remote) = loop[1]
  BY DEF FromComponent, Turn
<1>. HIDE DEF loop
<1>5. \A k \in 1..L : loop[k] = Turn(local, remote, loop, k)
  BY <1>3
<1>. HIDE DEF loop
<1>6. {k \in 1..L : ~ (loop[k] <=> FromThere(local, remote, k))} = {}
  <2> DEFINE wrong == {k \in 1..L : ~ (loop[k] <=> FromThere(local, remote, k))}
  <2>1. SUFFICES ASSUME wrong # {} PROVE FALSE
    OBVIOUS
  <2>2. PICK k \in wrong : \A j \in wrong : j <= k
    BY <1>1, <2>1, GreatestInRange
  <2>3. k + 1 \in 1..L => (loop[k + 1] <=> closed[k + 1])
    BY <2>2
  <2>4. Turn(local, remote, loop, k) <=> Turn(local, remote, closed, k)
    BY <1>1, <2>2, <2>3 DEF Turn
  <2>5. FromThere(local, remote, k) <=> Turn(local, remote, closed, k)
    BY <2>2, TurnIsSolved
  <2>. QED
    BY <1>5, <2>2, <2>4, <2>5
<1>. QED
  BY <1>1, <1>4, <1>6

\* The loop of verify_update decides the order of dotted numbers.
THEOREM NewerIsLater ==
  ASSUME NEW local \in Seq(Nat) \ {Unknown}, NEW remote \in Seq(Nat) \ {Unknown}
  PROVE  Newer(local, remote) <=> Later(remote, local)
<1>1. Len(local) \in Nat \ {0} /\ Len(remote) \in Nat \ {0}
  BY EmptySeq DEF Unknown
<1>2. FromThere(local, remote, 1) <=> Later(remote, local)
  <2>1. \A j \in 1..Len(local) : remote[j] # local[j] /\ remote[j] > local[j]
          /\ (\A i \in 1..(j - 1) : remote[i] = local[i] /\ i # Len(remote))
          <=> /\ j <= Len(remote) /\ remote[j] > local[j]
              /\ \A i \in 1..(j - 1) : remote[i] = local[i]
    <3>1. ASSUME NEW j \in 1..Len(local)
          PROVE  (\A i \in 1..(j - 1) : i # Len(remote)) <=> j <= Len(remote)
      <4>1. j <= Len(remote) => \A i \in 1..(j - 1) : i # Len(remote)
        BY <1>1
      <4>2. ~ (j <= Len(remote)) => Len(remote) \in 1..(j - 1)
        BY <1>1
      <4>. QED
        BY <4>1, <4>2
    <3>2. \A j \in 1..Len(local) : j <= Len(remote) /\ remote[j] > local[j] => remote[j] # local[j]
      BY <1>1
    <3>. QED
      BY <3>1, <3>2
  <2>. QED
    BY <2>1 DEF FromThere, Later
<1>3. remote = local => ~ Later(remote, local)
  BY <1>1 DEF Later
<1>4. FromComponent(local, remote) <=> FromThere(local, remote, 1)
  BY LoopAnswers DEF Unknown
<1>. QED
  BY <1>2, <1>3, <1>4 DEF Newer

LEMMA ComparedInit == Init => Compared
BY DEF Init, Compared

LEMMA ComparedStep == IInv /\ Compared /\ [Next]_vars => Compared'
<1> SUFFICES ASSUME IInv, Compared, [Next]_vars PROVE Compared'
  OBVIOUS
<1>1. app \in Versions \cup {None, Damaged, Pack}
  BY DEF IInv, TypeOK
<1> USE DEF Compared, files, history
<1>2. CASE AppStep
  BY <1>2 DEF AppStep, StartApp, Opens, Offers, NothingNew, Answer, AskedFor, SwitchMode, Versioned,
     PackDownload, Leave, NoSpace, Receives, DownloadFails, Downloaded, CheckGood, CheckRefused,
     CheckForced, Newer
<1>3. CASE CopyStep
  BY <1>3 DEF CopyStep, StartCopy, CopyBegins, CopyFails, CopyEnds, StartForwarder, LoadForwarder
<1>4. CASE ForwarderStep
  BY <1>4 DEF ForwarderStep, MoveCopy, MoveThrows, RemoveBad, RemoveBadFirst, NoTemp, RemoveApp,
     MoveTemp, RemoveItself, NextLoad
<1>5. CASE PowerCut
  BY <1>5 DEF PowerCut
<1>6. CASE UNCHANGED vars
  BY <1>6 DEF vars
<1>. QED
  BY <1>2, <1>3, <1>4, <1>5, <1>6 DEF Next, Forwarder, AppStep, CopyStep, ForwarderStep

\* What is received for a version is offered exactly when it is later than the
\* version that runs, and is the one published or the first line of a page.
THEOREM OfferedIffLaterHolds == Spec => []OfferedIffLater
<1>1. IInv /\ Compared => OfferedIffLater
  <2> SUFFICES ASSUME IInv, Compared PROVE OfferedIffLater
    OBVIOUS
  <2>1. pc \in {"opened", "offer"} => app \in Versions /\ last \in Versions \cup Pages
    BY DEF IInv, TypeOK, Control, Compared, AppAt
  <2>2. pc \in {"opened", "offer"} /\ last # Unknown => (Newer(app, last) <=> Later(last, app))
    BY <2>1, NewerIsLater, VersionsAreNumbers, PagesAreNumbers
  <2>3. pc \in {"opened", "offer"} /\ last = Unknown => ~ Newer(app, last) /\ ~ Later(last, app)
    <3>1. Len(Unknown) = 0
      BY DEF Unknown
    <3>2. app \in Versions => Len(app) \in Nat \ {0}
      BY VersionsAreNumbers, EmptySeq DEF Unknown
    <3>. QED
      BY <2>1, <3>1, <3>2 DEF Newer, Later
  <2>4. pc = "offer" => last \in {published} \cup Pages /\ Newer(app, last)
    BY DEF Compared
  <2>. QED
    BY <2>2, <2>3, <2>4 DEF OfferedIffLater
<1>2. Spec => []Compared
  <2>1. Spec => []IInv /\ [][Next]_vars
    BY Invariance, PTL DEF Spec
  <2>. QED
    BY <2>1, ComparedInit, ComparedStep, PTL DEF Spec
<1>. QED
  BY <1>1, <1>2, Invariance, PTL
=============================================================================
