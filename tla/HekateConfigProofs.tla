--------------------------- MODULE HekateConfigProofs --------------------------
(***************************************************************************)
(* Theorems about HekateConfig, for all files and folders, however long,   *)
(* and any number of failures and cuts: a whole file remains, the types,   *)
(* and that what the program says of the autoboot is what Hekate does.     *)
(***************************************************************************)
EXTENDS HekateConfig, SequenceTheorems, FiniteSetTheorems, TLAPS

IsFile(f) == \E s, b : f = [lines |-> s, ended |-> b] /\ Len(s) \in Nat

\* f has every line of the last file that was whole.
IsWhole(f) == f # NoFile /\ Len(f.lines) = Len(old.lines)

\* Between opening and copying there are two files.
Stages ==
  /\ file # NoFile => IsFile(file)
  /\ temp # NoFile => IsFile(temp)
  /\ spoilt \in BOOLEAN
  /\ pc \in {"write", "copy", "copying"} => file # NoFile
  /\ pc \in {"copy", "copying"} => temp # NoFile

\* Which of the two is whole.
Somewhere ==
  old # NoFile /\ ~spoilt =>
    /\ pc \notin {"write", "copy", "copying"} => IsWhole(file) \/ IsWhole(temp)
    /\ pc = "write" => IsWhole(file)
    /\ pc \in {"copy", "copying"} => IsWhole(temp)

IInv == Stages /\ Somewhere

-----------------------------------------------------------------------------
LEMMA GivenFilesAreFiles == \A f \in IniFiles : f # NoFile /\ IsFile(f)
<1>. SUFFICES ASSUME NEW f \in IniFiles PROVE f # NoFile /\ IsFile(f)
  OBVIOUS
<1>1. f \in [lines : Seq(Lines), ended : BOOLEAN]
  BY FilesAreIni DEF IsIni
<1>2. f = [lines |-> f.lines, ended |-> f.ended] /\ Len(f.lines) \in Nat
  BY <1>1
<1>3. f # NoFile
  BY <1>2 DEF NoFile
<1>. QED
  BY <1>2, <1>3 DEF IsFile

\* The loop over the lines writes one line for each it reads.
LEMMA RewrittenIsFile ==
  ASSUME NEW f, IsFile(f)
  PROVE  IsFile(Rewritten(f)) /\ Len(Rewritten(f).lines) = Len(f.lines)
<1>1. Len(f.lines) \in Nat
  BY DEF IsFile
<1>2. Len(Rewritten(f).lines) = Len(f.lines)
  BY <1>1 DEF Rewritten
<1>3. Rewritten(f) = [lines |-> Rewritten(f).lines, ended |-> f.ended]
  BY DEF Rewritten
<1>. QED
  BY <1>1, <1>2, <1>3, Zenon DEF IsFile

LEMMA CutIsFile ==
  ASSUME NEW f, IsFile(f), NEW g \in Cut(f)
  PROVE  IsFile(g)
<1>1. Len(f.lines) \in Nat
  BY DEF IsFile
<1>2. PICK n \in 0..(Len(f.lines) - 1) :
        g = [lines |-> [l \in 1..n |-> f.lines[l]], ended |-> TRUE]
  BY DEF Cut
<1>3. Len([l \in 1..n |-> f.lines[l]]) \in Nat
  BY <1>1, <1>2
<1>. QED
  BY <1>2, <1>3 DEF IsFile

\* A file that is there is told from one that is not.
LEMMA FileIsThere == ASSUME NEW f, IsFile(f) PROVE f # NoFile
BY DEF IsFile, NoFile

LEMMA EmptyIsFile == IsFile([lines |-> << >>, ended |-> TRUE])
<1>1. Len(<< >>) \in Nat
  OBVIOUS
<1>. QED
  BY <1>1 DEF IsFile

-----------------------------------------------------------------------------
LEMMA InitIInv == Init => IInv
BY GivenFilesAreFiles DEF Init, IInv, Stages, Somewhere, IsWhole

\* A step that leaves the files alone and does not end within the replacement.
LEMMA OtherSteps ==
  ASSUME IInv, UNCHANGED <<file, temp, old, spoilt>>,
         pc' \notin {"write", "copy", "copying"}
  PROVE  IInv'
BY DEF IInv, Stages, Somewhere, IsWhole, IsFile

LEMMA NextIInv == IInv /\ [Next]_vars => IInv'
<1>. SUFFICES ASSUME IInv, [Next]_vars PROVE IInv'
  OBVIOUS
<1>. USE DEF card, status, history, call
<1>1. CASE UNCHANGED vars
  BY <1>1 DEF vars, IInv, Stages, Somewhere, IsWhole, IsFile
<1>2. CASE StartApp
  BY <1>2, OtherSteps DEF StartApp
<1>3. ASSUME NEW e \in BOOLEAN, Combo(e) PROVE IInv'
  BY <1>3, OtherSteps DEF Combo
<1>4. ASSUME NEW e \in BOOLEAN, AfterPack(e) PROVE IInv'
  <2>1. pc' \notin {"write", "copy", "copying"} /\ pc = "menu" /\ temp' = temp
    BY <1>4 DEF AfterPack
  <2>2. CASE file' \in IniFiles /\ old' = file' /\ spoilt' = FALSE
    BY <2>1, <2>2, GivenFilesAreFiles DEF IInv, Stages, Somewhere, IsWhole, IsFile
  <2>3. CASE UNCHANGED <<file, old, spoilt>>
    BY <2>1, <2>3, OtherSteps
  <2>. QED
    BY <1>4, <2>2, <2>3 DEF AfterPack
<1>5. CASE Choice
  BY <1>5, OtherSteps
     DEF Choice, ChoiceCrashes, Dies, MoveCursor, PressA, Picks, TimesOut, PressB,
         NothingToChoose, Answer, Return, Choosing
<1>6. CASE Undefined \/ Begin \/ AlreadySet \/ CannotOpen
  BY <1>6, OtherSteps DEF Undefined, Begin, AlreadySet, CannotOpen, Opens, Return
<1>7. CASE OpenTemp
  <2>1. /\ pc' = "write" /\ file # NoFile /\ file' = file /\ old' = old
        /\ temp' = [lines |-> << >>, ended |-> TRUE]
        /\ spoilt' = (spoilt \/ Len(file.lines) # Len(old.lines))
    BY <1>7 DEF OpenTemp
  <2>2. spoilt' \in BOOLEAN
    BY <2>1, Zenon
  <2>3. Stages'
    BY <2>1, <2>2, EmptyIsFile DEF IInv, Stages, IsFile
  <2>4. ~spoilt' => IsWhole(file)'
    BY <2>1, Zenon DEF IsWhole
  <2>. QED
    BY <2>1, <2>3, <2>4 DEF IInv, Somewhere
<1>8. CASE WriteTemp
  <2>1. pc = "write" /\ pc' = "copy" /\ file' = file /\ old' = old /\ file # NoFile
    BY <1>8 DEF WriteTemp, IInv, Stages
  <2>2. IsFile(file) /\ IsFile(Rewritten(file)) /\ Len(Rewritten(file).lines) = Len(file.lines)
    BY <2>1, RewrittenIsFile DEF IInv, Stages
  <2>3. CASE temp' = Rewritten(file) /\ UNCHANGED <<faults, spoilt>>
    BY <2>1, <2>2, <2>3, FileIsThere, Zenon DEF IInv, Stages, Somewhere, IsWhole
  <2>4. CASE temp' \in Cut(Rewritten(file)) /\ spoilt' = TRUE
    <3>1. IsFile(temp') /\ temp' # NoFile
      BY <2>2, <2>4, CutIsFile, FileIsThere
    <3>2. Stages'
      BY <2>1, <2>2, <2>4, <3>1, Zenon DEF Stages
    <3>. QED
      BY <2>4, <3>2, Zenon DEF IInv, Somewhere
  <2>. QED
    BY <1>8, <2>3, <2>4 DEF WriteTemp
<1>9. CASE CopyBegins
  <2>1. /\ pc = "copy" /\ pc' = "copying" /\ temp' = temp /\ old' = old /\ spoilt' = spoilt
        /\ IsFile(file') /\ file' # NoFile
    BY <1>9, EmptyIsFile, FileIsThere DEF CopyBegins
  <2>2. Stages'
    BY <2>1, Zenon DEF IInv, Stages
  <2>3. Somewhere'
    BY <2>1, Zenon DEF IInv, Somewhere, IsWhole
  <2>. QED
    BY <2>2, <2>3 DEF IInv
<1>10. CASE CopyEnds
  <2>1. /\ pc = "copying" /\ pc' \in {"off", "menu"} /\ spoilt' = spoilt
        /\ file' = temp /\ temp' = NoFile
        /\ old' = IF Len(temp.lines) = Len(old.lines) THEN temp ELSE old
    BY <1>10 DEF CopyEnds, Return
  <2>2. temp # NoFile /\ IsFile(temp) /\ spoilt \in BOOLEAN
    BY <2>1 DEF IInv, Stages
  <2>3. Stages'
    BY <2>1, <2>2 DEF Stages
  <2>4. ASSUME old' # NoFile, ~spoilt PROVE IsWhole(file)'
    <3>1. old # NoFile => Len(temp.lines) = Len(old.lines)
      BY <2>1, <2>4 DEF IInv, Somewhere, IsWhole
    <3>. QED
      BY <2>1, <2>2, <2>4, <3>1 DEF IsWhole
  <2>. QED
    BY <2>1, <2>3, <2>4 DEF IInv, Somewhere
<1>11. CASE CopyStoresNothing
  <2>1. /\ pc' \in {"off", "menu"} /\ spoilt' = TRUE
        /\ file' = file /\ temp' = NoFile
    BY <1>11 DEF CopyStoresNothing, Return
  <2>2. Stages'
    BY <2>1 DEF IInv, Stages, IsFile
  <2>. QED
    BY <2>1, <2>2 DEF IInv, Somewhere
<1>12. CASE CopyFails
  <2>1. /\ pc = "copying" /\ pc' \in {"off", "menu"} /\ spoilt' = spoilt
        /\ file' \in Cut(temp) /\ temp' = temp /\ old' = old
    BY <1>12 DEF CopyFails, Return
  <2>2. IsFile(temp) /\ IsFile(file')
    BY <2>1, CutIsFile DEF IInv, Stages
  <2>3. Stages'
    BY <2>1, <2>2 DEF IInv, Stages
  <2>4. Somewhere'
    BY <2>1, Zenon DEF IInv, Somewhere, IsWhole
  <2>. QED
    BY <2>3, <2>4 DEF IInv
<1>13. CASE PowerCut
  BY <1>13, OtherSteps DEF PowerCut, Dies
<1>. QED
  BY <1>1, <1>2, <1>3, <1>4, <1>5, <1>6, <1>7, <1>8, <1>9, <1>10, <1>11, <1>12, <1>13
     DEF Next, User, Update

THEOREM Invariance == Spec => []IInv
<1>1. Init => IInv
  BY InitIInv
<1>2. IInv /\ [Next]_vars => IInv'
  BY NextIInv
<1>. QED
  BY <1>1, <1>2, PTL DEF Spec

\* Whatever the power or the card does, as long as the program notices it, one of
\* the two files has every line: custom_cp empties hekate_ipl.ini only when its
\* copy is complete, and the copy is removed only when it has been copied back
\* (main.cpp:1684-1728).
THEOREM WholeCopyRemainsHolds == Spec => []WholeCopyRemains
<1>1. IInv => WholeCopyRemains
  BY Zenon DEF IInv, Somewhere, IsWhole, WholeCopyRemains
<1>. QED
  BY <1>1, Invariance, PTL

-----------------------------------------------------------------------------
\* Sequences and sets of numbers.

LEMMA FunctionIsSeq ==
  ASSUME NEW S, NEW n \in Nat, NEW f \in [1..n -> S]
  PROVE  f \in Seq(S) /\ Len(f) = n
<1>1. f \in Seq(S)
  BY SeqDef, Zenon
<1>2. Len(f) \in Nat /\ 1..Len(f) = 1..n
  BY <1>1, LenProperties
<1>. QED
  BY <1>1, <1>2

LEMMA LeastNatural ==
  ASSUME NEW T \in SUBSET Nat, T # {}
  PROVE  \E m \in T : \A t \in T : m <= t
<1>1. \E m \in T : \A t \in T : ~ (<<t, m>> \in OpToRel(<, Nat))
  BY NatLessThanWellFounded, WFMin
<1>2. PICK m \in T : \A t \in T : ~ (<<t, m>> \in OpToRel(<, Nat))
  BY <1>1
<1>3. \A t \in T : ~ (t < m)
  BY <1>2 DEF OpToRel
<1>4. \A t \in T : t \in Nat
  OBVIOUS
<1>5. \A t \in T : m <= t
  BY <1>3, <1>4
<1>. QED
  BY <1>5

LEMMA MaxIsIn ==
  ASSUME NEW n \in Nat, NEW S \in SUBSET (1..n), S # {}
  PROVE  Max(S) \in S /\ \A j \in S : j <= Max(S)
<1> DEFINE T == {n - j : j \in S}
<1>1. \A j \in S : j \in 1..n /\ n - j \in Nat
  OBVIOUS
<1>2. T \in SUBSET Nat /\ T # {}
  BY <1>1
<1>3. PICK m \in T : \A t \in T : m <= t
  <2> HIDE DEF T
  <2>. QED
    BY <1>2, LeastNatural
<1>4. PICK k \in S : m = n - k
  BY <1>3
<1>5. \A j \in S : n - k <= n - j
  BY <1>3, <1>4
<1>6. \A j \in S : k >= j
  BY <1>1, <1>5
<1>7. Max(S) \in S /\ \A j \in S : Max(S) >= j
  BY <1>6, Zenon DEF Max
<1>. QED
  BY <1>1, <1>7

LEMMA RangeIsFinite ==
  ASSUME NEW n \in Nat, NEW S \in SUBSET (1..n)
  PROVE  IsFiniteSet(S) /\ Cardinality(S) \in Nat /\ Cardinality(S) <= n
<1>1. IsFiniteSet(1..n) /\ Cardinality(1..n) = n
  BY FS_Interval
<1>2. IsFiniteSet(S) /\ Cardinality(S) <= Cardinality(1..n)
  BY <1>1, FS_Subset
<1>. QED
  BY <1>1, <1>2, FS_CardinalityType

\* Every rank is taken: Ascending enumerates its set.
LEMMA RanksAreTaken ==
  ASSUME NEW n \in Nat, NEW S \in SUBSET (1..n), NEW k \in 1..Cardinality(S)
  PROVE  \E x \in S : Cardinality({y \in S : y < x}) = k - 1
<1> DEFINE c == Cardinality(S)
           below(x) == {y \in S : y < x}
           rank == [x \in S |-> Cardinality(below(x)) + 1]
<1>1. IsFiniteSet(S) /\ c \in Nat
  BY RangeIsFinite
<1>9. \A x \in S : x \in Nat
  OBVIOUS
<1>2. ASSUME NEW x \in S PROVE IsFiniteSet(below(x)) /\ Cardinality(below(x)) \in Nat
  BY <1>1, FS_Subset, FS_CardinalityType
<1>3. ASSUME NEW x \in S PROVE Cardinality(below(x)) < c
  <2>1. below(x) \in SUBSET S /\ x \notin below(x)
    OBVIOUS
  <2>2. Cardinality(below(x)) <= c /\ (c = Cardinality(below(x)) => S = below(x))
    BY <1>1, <2>1, FS_Subset
  <2>. QED
    BY <1>1, <1>2, <2>1, <2>2
<1>4. ASSUME NEW x \in S, NEW y \in S, x < y PROVE Cardinality(below(x)) < Cardinality(below(y))
  <2>1. below(x) \in SUBSET below(y) /\ x \in below(y) /\ x \notin below(x)
    <3>1. x \in Nat /\ y \in Nat /\ \A z \in S : z < x => z < y
      BY <1>4, <1>9
    <3>2. ~ (x < x)
      BY <3>1
    <3>. QED
      BY <1>4, <3>1, <3>2
  <2>2. /\ Cardinality(below(x)) <= Cardinality(below(y))
        /\ Cardinality(below(y)) = Cardinality(below(x)) => below(y) = below(x)
    <3> HIDE DEF below
    <3>. QED
      BY <1>2, <2>1, FS_Subset
  <2>. QED
    BY <1>2, <2>1, <2>2
<1>5. rank \in Injection(S, 1..c)
  <2>1. ASSUME NEW x \in S PROVE rank[x] \in 1..c
    BY <1>1, <1>2, <1>3
  <2>2. ASSUME NEW x \in S, NEW y \in S, rank[x] = rank[y] PROVE x = y
    <3>1. Cardinality(below(x)) = Cardinality(below(y))
      BY <1>2, <2>2
    <3>2. ~ (x < y) /\ ~ (y < x)
      BY <1>2, <1>4, <3>1
    <3>. QED
      BY <1>9, <3>2
  <2>. QED
    BY <2>1, <2>2 DEF Injection, IsInjective
<1>6. IsFiniteSet(1..c) /\ Cardinality(1..c) = c
  BY <1>1, FS_Interval
<1>7. rank \in Surjection(S, 1..c)
  <2> HIDE DEF rank
  <2>. QED
    BY <1>5, <1>6, FS_Injection
<1>8. PICK x \in S : rank[x] = k
  BY <1>7 DEF Surjection
<1>11. Cardinality(below(x)) + 1 = k /\ Cardinality(below(x)) \in Nat
  BY <1>2, <1>8
<1>10. Cardinality(below(x)) = k - 1
  <2> HIDE DEF below
  <2>. QED
    BY <1>11
<1>. QED
  BY <1>10

LEMMA AscendingIsIn ==
  ASSUME NEW n \in Nat, NEW S \in SUBSET (1..n)
  PROVE  /\ Cardinality(S) \in Nat /\ Cardinality(S) <= n
         /\ Ascending[S] \in [1..Cardinality(S) -> S]
<1>1. Cardinality(S) \in Nat /\ Cardinality(S) <= n
  BY RangeIsFinite
<1>2. S \in SUBSET Nat
  OBVIOUS
<1>3. Ascending[S] = [k \in 1..Cardinality(S) |->
                        CHOOSE x \in S : Cardinality({y \in S : y < x}) = k - 1]
  BY <1>2 DEF Ascending
<1>4. ASSUME NEW k \in 1..Cardinality(S)
      PROVE  (CHOOSE x \in S : Cardinality({y \in S : y < x}) = k - 1) \in S
  BY RanksAreTaken, Zenon
<1>. QED
  BY <1>1, <1>3, <1>4

LEMMA AscendingAll ==
  ASSUME NEW n \in Nat
  PROVE  Cardinality(1..n) = n /\ \A k \in 1..n : Ascending[1..n][k] = k
<1>1. Cardinality(1..n) = n
  BY FS_Interval
<1>2. ASSUME NEW k \in 1..n PROVE Ascending[1..n][k] = k
  <2>1. 1..n \in SUBSET Nat
    OBVIOUS
  <2>2. Ascending[1..n][k] = CHOOSE x \in 1..n : Cardinality({y \in 1..n : y < x}) = k - 1
    BY <1>1, <2>1 DEF Ascending
  <2>3. ASSUME NEW x \in 1..n PROVE Cardinality({y \in 1..n : y < x}) = x - 1
    <3>1. {y \in 1..n : y < x} = 1..(x - 1)
      OBVIOUS
    <3>2. Cardinality(1..(x - 1)) = x - 1
      BY FS_Interval
    <3>. QED
      BY <3>1, <3>2
  <2>4. \A x \in 1..n : Cardinality({y \in 1..n : y < x}) = k - 1 <=> x = k
    BY <2>3
  <2>. QED
    BY <2>2, <2>4
<1>. QED
  BY <1>1, <1>2

LEMMA KeptIsSeq ==
  ASSUME NEW E, NEW s \in Seq(E), NEW S \in SUBSET (1..Len(s))
  PROVE  /\ Kept(s, S) \in Seq(E)
         /\ Len(Kept(s, S)) = Cardinality(S)
         /\ Len(Kept(s, S)) \in Nat /\ Len(Kept(s, S)) <= Len(s)
         /\ \A k \in 1..Len(Kept(s, S)) : \E i \in S : Kept(s, S)[k] = s[i]
<1>1. Len(s) \in Nat
  BY LenProperties
<1>2. Cardinality(S) \in Nat /\ Cardinality(S) <= Len(s)
      /\ Ascending[S] \in [1..Cardinality(S) -> S]
  BY <1>1, AscendingIsIn
<1>3. ASSUME NEW k \in 1..Cardinality(S)
      PROVE  Ascending[S][k] \in S /\ s[Ascending[S][k]] \in E
  <2>1. Ascending[S][k] \in S
    BY <1>2
  <2>2. Ascending[S][k] \in 1..Len(s)
    BY <2>1
  <2>. QED
    BY <2>1, <2>2, ElementOfSeq
<1>4. Kept(s, S) \in [1..Cardinality(S) -> E]
  BY <1>3 DEF Kept
<1>5. Kept(s, S) \in Seq(E) /\ Len(Kept(s, S)) = Cardinality(S)
  BY <1>2, <1>4, FunctionIsSeq
<1>6. \A k \in 1..Cardinality(S) : \E i \in S : Kept(s, S)[k] = s[i]
  BY <1>3 DEF Kept
<1>. QED
  BY <1>2, <1>5, <1>6

LEMMA KeptAll ==
  ASSUME NEW E, NEW s \in Seq(E)
  PROVE  Kept(s, 1..Len(s)) = s
<1>1. Len(s) \in Nat
  BY LenProperties
<1>2. Cardinality(1..Len(s)) = Len(s) /\ \A k \in 1..Len(s) : Ascending[1..Len(s)][k] = k
  BY <1>1, AscendingAll
<1>3. Kept(s, 1..Len(s)) \in Seq(E) /\ Len(Kept(s, 1..Len(s))) = Len(s)
  BY <1>2, KeptIsSeq
<1>4. \A k \in 1..Len(s) : Kept(s, 1..Len(s))[k] = s[k]
  BY <1>2 DEF Kept
<1>. QED
  BY <1>3, <1>4, SeqEqual

-----------------------------------------------------------------------------
\* The sections of a file, and the two loops that remove some of them.

LEMMA SectionsAreEntries ==
  ASSUME NEW f, IsIni(f)
  PROVE  /\ Sections(f) \in Seq(Entry)
         /\ Len(Sections(f)) \in Nat /\ Len(Sections(f)) <= MaxLines
         /\ \A i \in 1..Len(Sections(f)) : Sections(f)[i].main = TRUE
<1> DEFINE at == {l \in 1..Len(f.lines) : f.lines[l].is = "section"}
           s == SectionLines(f)
<1>1. f.lines \in Seq(Lines) /\ Len(f.lines) \in Nat /\ Len(f.lines) <= MaxLines /\ f # NoFile
  <2>1. f \in [lines : Seq(Lines), ended : BOOLEAN] /\ Len(f.lines) <= MaxLines
    BY DEF IsIni
  <2>2. f # NoFile
    BY <2>1 DEF NoFile
  <2>. QED
    BY <2>1, <2>2, LenProperties
<1>2. \A l \in 1..Len(f.lines) : f.lines[l].name \in Names
  <2>1. \A l \in 1..Len(f.lines) : f.lines[l] \in Lines
    BY <1>1, ElementOfSeq
  <2>. QED
    BY <2>1 DEF Lines
<1>3. s \in [1..Cardinality(at) -> at] /\ Cardinality(at) \in Nat /\ Cardinality(at) <= Len(f.lines)
  BY <1>1, AscendingIsIn DEF SectionLines
<1>4. Len(s) = Cardinality(at)
  BY <1>3, FunctionIsSeq
<1> DEFINE entry(i) == [name |-> f.lines[s[i]].name, main |-> TRUE,
             empty |-> \A l \in (s[i] + 1)..(IF i = Len(s) THEN Len(f.lines) ELSE s[i + 1] - 1) :
                         f.lines[l].is \notin Keys \cup {"text"}]
<1>5. Sections(f) = [i \in 1..Len(s) |-> entry(i)]
  BY <1>1 DEF Sections
<1>6. ASSUME NEW i \in 1..Len(s) PROVE entry(i) \in Entry
  <2>1. s[i] \in 1..Len(f.lines)
    BY <1>3, <1>4
  <2>2. f.lines[s[i]].name \in Names
    BY <1>2, <2>1
  <2>3. \A b : (b <=> TRUE) \/ (b <=> FALSE)
    OBVIOUS
  <2>. QED
    BY <2>2, Zenon DEF Entry
<1>7. Sections(f) \in [1..Len(s) -> Entry]
  <2> HIDE DEF entry, s
  <2>. QED
    BY <1>5, <1>6
<1>8. Sections(f) \in Seq(Entry) /\ Len(Sections(f)) = Len(s)
  BY <1>3, <1>4, <1>7, FunctionIsSeq
<1>9. \A i \in 1..Len(s) : Sections(f)[i].main = TRUE
  BY <1>5
<1>. QED
  BY <1>1, <1>3, <1>4, <1>8, <1>9, BoundsAreNumbers

LEMMA WithoutConfigIsPart ==
  ASSUME NEW s \in Seq(Entry)
  PROVE  /\ WithoutConfig[s] \in Seq(Entry)
         /\ Len(WithoutConfig[s]) \in Nat /\ Len(WithoutConfig[s]) <= Len(s)
<1>1. \E S \in SUBSET (1..Len(s)) : WithoutConfig[s] = Kept(s, S)
  BY DEF WithoutConfig
<1>. QED
  BY <1>1, KeptIsSeq

LEMMA OfferedIsPart ==
  ASSUME NEW s \in Seq(Entry)
  PROVE  /\ Offered[s] \in Seq(Entry)
         /\ Len(Offered[s]) \in Nat /\ Len(Offered[s]) <= Len(s)
<1>1. \E S \in SUBSET (1..Len(s)) : Offered[s] = Kept(s, S)
  BY DEF Offered
<1>. QED
  BY <1>1, KeptIsSeq

LEMMA FolderIsSeq ==
  ASSUME NEW d \in Folders, d # None
  PROVE  d \in Seq(Entry) /\ Len(d) \in Nat /\ Len(d) <= MaxSections
         /\ \A i \in 1..Len(d) : d[i].main = FALSE
<1>1. d \in Seq([name : Names, main : {FALSE}, empty : BOOLEAN]) /\ Len(d) <= MaxSections
  BY FoldersAreSections
<1>2. [name : Names, main : {FALSE}, empty : BOOLEAN] \subseteq Entry
  BY DEF Entry
<1>3. d \in Seq(Entry)
  BY <1>1, <1>2, SeqMonotonic
<1>4. \A i \in 1..Len(d) : d[i].main = FALSE
  <2>1. \A i \in 1..Len(d) : d[i] \in [name : Names, main : {FALSE}, empty : BOOLEAN]
    BY <1>1, ElementOfSeq
  <2>. QED
    BY <2>1
<1>. QED
  BY <1>1, <1>3, <1>4, LenProperties

\* The menu is no longer than what it is made from.
LEMMA MenuIsBounded ==
  ASSUME NEW f, f = NoFile \/ IsIni(f), NEW d \in Folders, d # None
  PROVE  /\ Sections(f) \in Seq(Entry)
         /\ MainEntries(f) \in Seq(Entry) /\ Len(MainEntries(f)) \in 0..MaxLines
         /\ Menu(f, d) \in Seq(Entry) /\ Len(Menu(f, d)) \in 0..MaxEntries
<1>1. Sections(f) \in Seq(Entry) /\ Len(Sections(f)) \in 0..MaxLines
  <2>1. CASE f = NoFile
    BY <2>1, EmptySeq, BoundsAreNumbers DEF Sections
  <2>2. CASE IsIni(f)
    <3>1. /\ Sections(f) \in Seq(Entry)
          /\ Len(Sections(f)) \in Nat /\ Len(Sections(f)) <= MaxLines
      BY <2>2, SectionsAreEntries
    <3>. QED
      BY <3>1, BoundsAreNumbers
  <2>. QED
    BY <2>1, <2>2
<1>2. MainEntries(f) \in Seq(Entry) /\ Len(MainEntries(f)) \in 0..MaxLines
  BY <1>1, WithoutConfigIsPart, BoundsAreNumbers DEF MainEntries
<1>3. d \in Seq(Entry) /\ Len(d) \in 0..MaxSections
  <2>1. d \in Seq(Entry) /\ Len(d) \in Nat /\ Len(d) <= MaxSections
    BY FolderIsSeq
  <2>. QED
    BY <2>1, BoundsAreNumbers
<1>4. /\ MainEntries(f) \o d \in Seq(Entry)
      /\ Len(MainEntries(f) \o d) = Len(MainEntries(f)) + Len(d)
  BY <1>2, <1>3, ConcatProperties
<1>5. /\ Menu(f, d) \in Seq(Entry) /\ Len(Menu(f, d)) \in Nat
      /\ Len(Menu(f, d)) <= Len(MainEntries(f) \o d)
  BY <1>4, OfferedIsPart DEF Menu
<1>. QED
  BY <1>1, <1>2, <1>3, <1>4, <1>5, BoundsAreNumbers DEF MaxEntries

-----------------------------------------------------------------------------
\* The lines of the keys.

LEMMA LineIsThere ==
  ASSUME NEW f, Len(f.lines) \in Nat, NEW key
  PROVE  LineOf(f, key) = NoLine \/ LineOf(f, key) \in LinesOf(f, key)
BY MaxIsIn DEF LineOf, LinesOf

LEMMA StatusIsTyped ==
  ASSUME NEW f, IsIni(f)
  PROVE  /\ StatusOf(f)[1] \in Numbers
         /\ StatusOf(f)[2] = LineOf(f, "autoboot") /\ StatusOf(f)[3] = LineOf(f, "list")
         /\ StatusOf(f)[2] \in {NoLine} \cup 1..MaxLines
         /\ StatusOf(f)[3] \in {NoLine} \cup 1..MaxLines
<1>1. /\ f.lines \in Seq(Lines) /\ Len(f.lines) \in Nat /\ Len(f.lines) <= MaxLines
      /\ 0 \in Numbers
  <2>1. f \in [lines : Seq(Lines), ended : BOOLEAN] /\ Len(f.lines) <= MaxLines
    BY DEF IsIni
  <2>. QED
    BY <2>1, LenProperties, BoundsAreNumbers DEF Numbers, MaxEntries
<1>2. \A l \in 1..Len(f.lines) : f.lines[l].value \in Numbers
  <2>1. \A l \in 1..Len(f.lines) : f.lines[l] \in Lines
    BY <1>1, ElementOfSeq
  <2>. QED
    BY <2>1 DEF Lines
<1>3. ASSUME NEW key
      PROVE  /\ LineOf(f, key) \in {NoLine} \cup 1..MaxLines
             /\ ValueOf(f, key) \in Numbers
  <2>1. LinesOf(f, key) \subseteq 1..Len(f.lines)
    BY DEF LinesOf
  <2>2. LinesOf(f, key) # {} => LineOf(f, key) \in LinesOf(f, key)
    BY <1>1, <2>1, MaxIsIn DEF LineOf
  <2>3. ValueOf(f, key) = 0 \/ \E l \in 1..Len(f.lines) : ValueOf(f, key) = f.lines[l].value
    BY <2>1, <2>2 DEF ValueOf, ValueAt
  <2>4. ValueOf(f, key) \in Numbers
    BY <1>1, <1>2, <2>3
  <2>. QED
    BY <1>1, <2>1, <2>2, <2>4, BoundsAreNumbers DEF LineOf
<1>. QED
  BY <1>1, <1>3 DEF StatusOf

LEMMA RewrittenIsIni ==
  ASSUME NEW f, IsIni(f), picked \in Numbers \X {-1, 0, 1}
  PROVE  IsIni(Rewritten(f))
<1>1. /\ f.lines \in Seq(Lines) /\ Len(f.lines) \in Nat /\ Len(f.lines) <= MaxLines
      /\ f.ended \in BOOLEAN
  <2>1. f \in [lines : Seq(Lines), ended : BOOLEAN] /\ Len(f.lines) <= MaxLines
    BY DEF IsIni
  <2>. QED
    BY <2>1, LenProperties
<1>2. \A l \in 1..Len(f.lines) : f.lines[l] \in Lines
  BY <1>1, ElementOfSeq
<1>3. picked[1] \in Numbers /\ picked[2] \in Numbers /\ 0 \in Numbers
  BY BoundsAreNumbers DEF Numbers, MaxEntries
<1>4. ASSUME NEW n \in Numbers
      PROVE  /\ [is |-> "autoboot", name |-> "", indent |-> FALSE, value |-> n] \in Lines
             /\ [is |-> "list", name |-> "", indent |-> FALSE, value |-> n] \in Lines
  BY DEF Lines, Kinds, Names
<1>5. Rewritten(f).lines \in [1..Len(f.lines) -> Lines] /\ Rewritten(f).ended = f.ended
  <2>1. \A l \in 1..Len(f.lines) :
          (IF l = Len(f.lines) /\ ~f.ended THEN f.lines[l]
           ELSE IF l = autoboot_line
           THEN [is |-> "autoboot", name |-> "", indent |-> FALSE,
                 value |-> IF enable THEN picked[1] ELSE 0]
           ELSE IF l = list_line /\ enable
           THEN [is |-> "list", name |-> "", indent |-> FALSE, value |-> picked[2]]
           ELSE f.lines[l]) \in Lines
    BY <1>2, <1>3, <1>4
  <2>. QED
    BY <2>1 DEF Rewritten
<1>6. Rewritten(f).lines \in Seq(Lines) /\ Len(Rewritten(f).lines) = Len(f.lines)
  BY <1>1, <1>5, FunctionIsSeq
<1>7. Rewritten(f) = [lines |-> Rewritten(f).lines, ended |-> f.ended]
  BY DEF Rewritten
<1>8. Rewritten(f) \in [lines : Seq(Lines), ended : BOOLEAN]
  BY <1>1, <1>6, <1>7
<1>. QED
  BY <1>1, <1>6, <1>8 DEF IsIni

LEMMA CutIsIni ==
  ASSUME NEW f, IsIni(f), NEW g \in Cut(f)
  PROVE  IsIni(g)
<1>1. f.lines \in Seq(Lines) /\ Len(f.lines) \in Nat /\ Len(f.lines) <= MaxLines
  <2>1. f \in [lines : Seq(Lines), ended : BOOLEAN] /\ Len(f.lines) <= MaxLines
    BY DEF IsIni
  <2>. QED
    BY <2>1, LenProperties
<1>2. PICK n \in 0..(Len(f.lines) - 1) :
        g = [lines |-> [l \in 1..n |-> f.lines[l]], ended |-> TRUE]
  BY DEF Cut
<1>3. [l \in 1..n |-> f.lines[l]] \in [1..n -> Lines] /\ n \in Nat /\ n <= MaxLines
  <2>1. \A l \in 1..n : f.lines[l] \in Lines
    BY <1>1, ElementOfSeq
  <2>. QED
    BY <1>1, <2>1, BoundsAreNumbers
<1>4. g.lines \in Seq(Lines) /\ Len(g.lines) = n
  BY <1>2, <1>3, FunctionIsSeq
<1>. QED
  BY <1>2, <1>3, <1>4 DEF IsIni

LEMMA EmptyIsIni == IsIni([lines |-> << >>, ended |-> TRUE])
BY EmptySeq, BoundsAreNumbers DEF IsIni

-----------------------------------------------------------------------------
\* The variables have their types.

LEMMA InitTypes == Init => TypeOK
<1> SUFFICES ASSUME Init PROVE TypeOK
  OBVIOUS
<1>1. file = NoFile \/ IsIni(file)
  BY FilesAreIni DEF Init
<1>2. 0 \in Numbers /\ Canceled \in Numbers \X {-1, 0, 1}
  BY BoundsAreNumbers DEF Canceled, Numbers, MaxEntries
<1>3. NoLine \in {NoLine} \cup 1..MaxLines /\ 0 \in 0..MaxFaults
  BY BoundsAreNumbers
<1>4. NoFile = NoFile \/ IsIni(NoFile)
  OBVIOUS
<1>. QED
  BY <1>1, <1>2, <1>3, <1>4 DEF Init, TypeOK, IsIni

\* The variables a step of the choice or of the update may change, apart from the
\* files.
Typed ==
  /\ hekate_autoboot \in Numbers
  /\ autoboot_line \in {NoLine} \cup 1..MaxLines
  /\ list_line \in {NoLine} \cup 1..MaxLines
  /\ pc \in {"off", "menu", "pack", "update", "ask", "open", "write", "copy", "copying"}
  /\ by \in {"combo", "pack"}
  /\ enable \in BOOLEAN
  /\ chosen \in Numbers \X {-1, 0, 1}
  /\ picked \in Numbers \X {-1, 0, 1}
  /\ clock \in BOOLEAN /\ timed \in BOOLEAN /\ touched \in BOOLEAN /\ spoilt \in BOOLEAN
  /\ odd \subseteq {"lines", "entries"}
  /\ said \in {"nothing", "undefined", "canceled", "already", "failed", "enabled", "disabled"}
  /\ wanted \in Names \cup {"menu"}
  /\ faults \in 0..MaxFaults

TypedFiles ==
  /\ file = NoFile \/ IsIni(file)
  /\ temp = NoFile \/ IsIni(temp)
  /\ folder \in Folders
  /\ old = NoFile \/ IsIni(old)

LEMMA TypeIs == TypeOK <=> Typed /\ TypedFiles
BY DEF TypeOK, Typed, TypedFiles

LEMMA Constants == 0 \in Numbers /\ Canceled \in Numbers \X {-1, 0, 1}
BY BoundsAreNumbers DEF Canceled, Numbers, MaxEntries

LEMMA StatusKept ==
  ASSUME NEW f, f = NoFile \/ IsIni(f), TypeOK, GetStatus(f)
  PROVE  /\ hekate_autoboot' \in Numbers
         /\ autoboot_line' \in {NoLine} \cup 1..MaxLines
         /\ list_line' \in {NoLine} \cup 1..MaxLines
<1>1. CASE Parses(f)
  <2>1. IsIni(f)
    BY <1>1 DEF Parses
  <2>. QED
    BY <1>1, <2>1, StatusIsTyped DEF GetStatus, Known
<1>2. CASE ~Parses(f)
  BY <1>2 DEF GetStatus, status, TypeOK
<1>. QED
  BY <1>1, <1>2

LEMMA DiesTyped ==
  ASSUME TypeOK, Dies
  PROVE  TypeOK'
<1>1. Typed'
  BY Constants DEF Dies, Known, Fresh, TypeOK, Typed, card
<1>2. TypedFiles'
  BY DEF Dies, card, TypeOK, TypedFiles, IsIni
<1>. QED
  BY <1>1, <1>2 DEF TypeOK, Typed, TypedFiles

LEMMA FirstIsThere ==
  ASSUME TypeOK, Choosing, Entries # << >>
  PROVE  1 \in 1..Len(Entries)
<1>1. Entries \in Seq(Entry)
  BY MenuIsBounded DEF Choosing, TypeOK, Entries
<1>. QED
  BY <1>1, EmptySeq

LEMMA AnswerTyped ==
  ASSUME TypeOK, Choosing, NEW x, x[1] \in Int, x[1] > -1 => x \in Numbers \X {-1, 0, 1}, Answer(x),
         wanted' \in Names \cup {"menu"}, touched' \in BOOLEAN
  PROVE  TypeOK'
<1> USE DEF card, status
<1>1. UNCHANGED <<file, temp, folder, old, status, by, spoilt, odd, faults>>
  BY DEF Answer
<1>2. CASE pc = "pack"
  <2>1. /\ chosen' \in Numbers \X {-1, 0, 1} /\ enable' \in BOOLEAN
        /\ pc' \in {"pack", "update"} /\ UNCHANGED <<picked, said>>
        /\ clock' = (clock /\ pc' = "pack") /\ timed' = clock'
    BY <1>2 DEF Answer, TypeOK
  <2>2. clock' \in BOOLEAN /\ timed' \in BOOLEAN
    BY <2>1, Zenon
  <2>3. Typed'
    BY <1>1, <2>1, <2>2 DEF TypeOK, Typed
  <2>. QED
    BY <1>1, <2>3 DEF TypeOK, Typed, IsIni
<1>3. CASE pc # "pack"
  <2>1. /\ timed' = FALSE /\ UNCHANGED <<enable, chosen, clock>>
        /\ \/ x[1] < 0 /\ Return("canceled")
           \/ ~(x[1] < 0) /\ picked' = x /\ pc' = "open" /\ UNCHANGED said
    BY <1>3 DEF Answer
  <2>2. CASE x[1] < 0 /\ Return("canceled")
    <3>1. Typed'
      BY <1>1, <2>1, <2>2, Constants DEF Return, TypeOK, Typed
    <3>. QED
      BY <1>1, <3>1 DEF TypeOK, Typed, IsIni
  <2>3. CASE x[1] > -1 /\ picked' = x /\ pc' = "open" /\ UNCHANGED said
    <3>1. Typed'
      BY <1>1, <2>1, <2>3 DEF TypeOK, Typed
    <3>. QED
      BY <1>1, <3>1 DEF TypeOK, Typed, IsIni
  <2>. QED
    BY <2>1, <2>2, <2>3
<1>. QED
  BY <1>2, <1>3

LEMMA NumberIsTyped ==
  ASSUME TypeOK, Choosing, NEW c \in 1..Len(Entries)
  PROVE  /\ Entries[c].name \in Names
         /\ Numbered(c) \in Numbers \X {-1, 0, 1} /\ Numbered(c)[1] \in Int
<1>1. /\ file = NoFile \/ IsIni(file)
      /\ folder \in Folders /\ folder # None
  BY DEF Choosing, TypeOK
<1>2. /\ Entries \in Seq(Entry) /\ Len(Entries) \in 0..MaxEntries
      /\ Len(MainEntries(file)) \in 0..MaxLines
  BY <1>1, MenuIsBounded DEF Entries
<1>3. Entries[c].name \in Names
  <2>1. Entries[c] \in Entry
    BY <1>2, ElementOfSeq
  <2>. QED
    BY <2>1 DEF Entry
<1>4. Numbered(c) \in Numbers \X {-1, 0, 1}
  <2>1. Len(Entries) \in Nat /\ Len(Entries) <= MaxEntries
    BY <1>2, BoundsAreNumbers DEF MaxEntries
  <2>2. c \in Int /\ c >= 1 /\ c <= MaxEntries
    BY <2>1, BoundsAreNumbers DEF MaxEntries
  <2>3. c \in Numbers /\ c - Len(MainEntries(file)) \in Numbers
    BY <1>2, <2>2, BoundsAreNumbers DEF Numbers, MaxEntries
  <2>. QED
    BY <2>3 DEF Numbered
<1>5. Numbered(c)[1] \in Int
  BY <1>4, BoundsAreNumbers DEF Numbers, MaxEntries
<1>. QED
  BY <1>3, <1>4, <1>5

LEMMA PicksTyped ==
  ASSUME TypeOK, Choosing, NEW c \in 1..Len(Entries), Picks(c), touched' \in BOOLEAN
  PROVE  TypeOK'
BY NumberIsTyped, AnswerTyped DEF Picks

LEMMA NextTypes == IInv /\ TypeOK /\ [Next]_vars => TypeOK'
<1> SUFFICES ASSUME IInv, TypeOK, [Next]_vars PROVE TypeOK'
  OBVIOUS
<1> USE DEF card, status, history, call
<1>0. ASSUME Typed', UNCHANGED <<file, temp, folder, old>> PROVE TypeOK'
  BY <1>0 DEF TypeOK, Typed, IsIni
<1>1. CASE UNCHANGED vars
  BY <1>1, <1>0 DEF vars, TypeOK, Typed
<1>2. CASE StartApp
  <2>1. ASSUME Parses(file)
        PROVE  /\ StatusOf(file)[1] \in Numbers
               /\ StatusOf(file)[2] \in {NoLine} \cup 1..MaxLines
               /\ StatusOf(file)[3] \in {NoLine} \cup 1..MaxLines
    BY <2>1, StatusIsTyped DEF TypeOK, Parses
  <2>2. /\ hekate_autoboot' \in Numbers
        /\ autoboot_line' \in {NoLine} \cup 1..MaxLines
        /\ list_line' \in {NoLine} \cup 1..MaxLines
    BY <1>2, <2>1, Constants DEF StartApp, Known
  <2>3. Typed'
    BY <1>2, <2>2, Constants DEF StartApp, Fresh, TypeOK, Typed
  <2>. QED
    BY <1>2, <2>3, <1>0 DEF StartApp
<1>3. ASSUME NEW e \in BOOLEAN, Combo(e) PROVE TypeOK'
  <2>1. Typed'
    BY <1>3 DEF Combo, TypeOK, Typed
  <2>. QED
    BY <1>3, <2>1, <1>0 DEF Combo
<1>4. ASSUME NEW e \in BOOLEAN, AfterPack(e) PROVE TypeOK'
  <2>1. /\ file' = NoFile \/ IsIni(file)'
        /\ old' = NoFile \/ IsIni(old)'
        /\ spoilt' \in BOOLEAN
    <3>1. CASE file' \in IniFiles /\ old' = file' /\ spoilt' = FALSE
      BY <3>1, FilesAreIni DEF IsIni
    <3>2. CASE UNCHANGED <<file, old, spoilt>>
      BY <3>2 DEF TypeOK, IsIni
    <3>. QED
      BY <1>4, <3>1, <3>2 DEF AfterPack
  <2>2. /\ hekate_autoboot' \in Numbers
        /\ autoboot_line' \in {NoLine} \cup 1..MaxLines
        /\ list_line' \in {NoLine} \cup 1..MaxLines
    BY <1>4, <2>1, StatusKept DEF AfterPack, IsIni
  <2>3. TypedFiles'
    BY <1>4, <2>1 DEF AfterPack, TypeOK, TypedFiles, IsIni
  <2>5. clock' \in BOOLEAN /\ timed' \in BOOLEAN
    BY <1>4 DEF AfterPack
  <2>4. Typed'
    BY <1>4, <2>1, <2>2, <2>5 DEF AfterPack, TypeOK, Typed
  <2>. QED
    BY <2>3, <2>4 DEF TypeOK, Typed, TypedFiles
<1>5. CASE Choice
  <2>1. CASE ChoiceCrashes
    BY <2>1, DiesTyped DEF ChoiceCrashes
  <2>2. CASE MoveCursor
    <3>0. timed' \in BOOLEAN /\ touched' \in BOOLEAN
      BY <2>2 DEF MoveCursor
    <3>1. Typed'
      BY <2>2, <3>0 DEF MoveCursor, TypeOK, Typed
    <3>. QED
      BY <2>2, <3>1, <1>0 DEF MoveCursor
  <2>3. CASE PressA
    BY <2>3, PicksTyped DEF PressA
  <2>4. CASE TimesOut
    <3>1. 1 \in 1..Len(Entries) /\ Choosing /\ Picks(1) /\ touched' \in BOOLEAN
      <4>1. Choosing /\ Picks(1) /\ touched' \in BOOLEAN /\ Entries # << >>
        BY <2>4 DEF TimesOut, TypeOK
      <4>. QED
        BY <4>1, FirstIsThere
    <3>. QED
      BY <3>1, PicksTyped
  <2>5. CASE PressB
    <3>1. Choosing /\ Answer(Canceled) /\ wanted' = wanted /\ touched' \in BOOLEAN
      BY <2>5 DEF PressB
    <3>2. Canceled[1] \in Int
      BY DEF Canceled
    <3>. QED
      BY <3>1, <3>2, Constants, AnswerTyped DEF TypeOK
  <2>6. CASE NothingToChoose
    <3>1. Choosing /\ Answer(Nothing) /\ wanted' = wanted /\ touched' \in BOOLEAN
      BY <2>6 DEF NothingToChoose, TypeOK
    <3>2. Nothing[1] \in Int /\ ~(Nothing[1] > -1)
      BY DEF Nothing
    <3>. QED
      BY <3>1, <3>2, AnswerTyped DEF TypeOK
  <2>. QED
    BY <1>5, <2>1, <2>2, <2>3, <2>4, <2>5, <2>6 DEF Choice
<1>6. CASE Undefined
  <2>1. Typed'
    BY <1>6, Constants DEF Undefined, Return, TypeOK, Typed
  <2>. QED
    BY <1>6, <2>1, <1>0 DEF Undefined
<1>14. CASE Begin
  <2>1. Typed'
    BY <1>14 DEF Begin, TypeOK, Typed
  <2>. QED
    BY <1>14, <2>1, <1>0 DEF Begin
<1>15. CASE AlreadySet
  <2>1. Typed'
    BY <1>15, Constants DEF AlreadySet, Return, TypeOK, Typed
  <2>. QED
    BY <1>15, <2>1, <1>0 DEF AlreadySet
<1>16. CASE CannotOpen
  <2>0. faults' \in 0..MaxFaults
    BY <1>16, BoundsAreNumbers DEF CannotOpen, TypeOK
  <2>1. Typed'
    BY <1>16, <2>0, Constants DEF CannotOpen, Return, TypeOK, Typed
  <2>. QED
    BY <1>16, <2>1, <1>0 DEF CannotOpen
<1>7. CASE OpenTemp
  <2>1. Typed'
    <3>1. spoilt' \in BOOLEAN /\ odd' \subseteq {"lines", "entries"}
      BY <1>7, Zenon DEF OpenTemp
    <3>. QED
      BY <1>7, <3>1 DEF OpenTemp, TypeOK, Typed
  <2>2. TypedFiles'
    BY <1>7, EmptyIsIni DEF OpenTemp, TypeOK, TypedFiles, IsIni
  <2>. QED
    BY <2>1, <2>2 DEF TypeOK, Typed, TypedFiles
<1>8. CASE WriteTemp
  <2>0. \/ UNCHANGED <<faults, spoilt>>
        \/ faults < MaxFaults /\ faults' = faults + 1 /\ spoilt' = TRUE
    BY <1>8, Zenon DEF WriteTemp
  <2>6. faults \in 0..MaxFaults /\ spoilt \in BOOLEAN
    BY DEF TypeOK
  <2>7. faults' \in 0..MaxFaults
    BY <2>0, <2>6, BoundsAreNumbers
  <2>8. spoilt' \in BOOLEAN
    BY <2>0, <2>6, Zenon
  <2>1. Typed'
    BY <1>8, <2>7, <2>8 DEF WriteTemp, TypeOK, Typed
  <2>2. IsIni(Rewritten(file))
    BY <1>8, RewrittenIsIni DEF WriteTemp, TypeOK, IInv, Stages
  <2>3. IsIni(temp')
    BY <1>8, <2>2, CutIsIni DEF WriteTemp
  <2>4. TypedFiles'
    BY <1>8, <2>3 DEF WriteTemp, TypeOK, TypedFiles, IsIni
  <2>. QED
    BY <2>1, <2>4 DEF TypeOK, Typed, TypedFiles
<1>9. CASE CopyBegins
  <2>1. Typed'
    BY <1>9 DEF CopyBegins, TypeOK, Typed
  <2>2. TypedFiles'
    BY <1>9, EmptyIsIni DEF CopyBegins, TypeOK, TypedFiles, IsIni
  <2>. QED
    BY <2>1, <2>2 DEF TypeOK, Typed, TypedFiles
<1>10. CASE CopyEnds
  <2>1. /\ hekate_autoboot' \in Numbers
        /\ autoboot_line' \in {NoLine} \cup 1..MaxLines
        /\ list_line' \in {NoLine} \cup 1..MaxLines
    BY <1>10, StatusKept DEF CopyEnds, TypeOK
  <2>2. Typed'
    BY <1>10, <2>1, Constants DEF CopyEnds, Return, TypeOK, Typed
  <2>3. TypedFiles'
    BY <1>10 DEF CopyEnds, TypeOK, TypedFiles, IsIni
  <2>. QED
    BY <2>2, <2>3 DEF TypeOK, Typed, TypedFiles
<1>11. CASE CopyStoresNothing
  <2>1. /\ hekate_autoboot' \in Numbers
        /\ autoboot_line' \in {NoLine} \cup 1..MaxLines
        /\ list_line' \in {NoLine} \cup 1..MaxLines
    BY <1>11, StatusKept DEF CopyStoresNothing, TypeOK
  <2>0. faults' \in 0..MaxFaults /\ spoilt' \in BOOLEAN
    BY <1>11, BoundsAreNumbers DEF CopyStoresNothing, TypeOK
  <2>2. Typed'
    BY <1>11, <2>0, <2>1, Constants DEF CopyStoresNothing, Return, TypeOK, Typed
  <2>3. TypedFiles'
    BY <1>11 DEF CopyStoresNothing, TypeOK, TypedFiles, IsIni
  <2>. QED
    BY <2>2, <2>3 DEF TypeOK, Typed, TypedFiles
<1>12. CASE CopyFails
  <2>0. faults' \in 0..MaxFaults
    BY <1>12, BoundsAreNumbers DEF CopyFails, TypeOK
  <2>1. Typed'
    BY <1>12, <2>0, Constants DEF CopyFails, Return, TypeOK, Typed
  <2>2. IsIni(file')
    BY <1>12, CutIsIni DEF CopyFails, TypeOK, IInv, Stages
  <2>3. TypedFiles'
    BY <1>12, <2>2 DEF CopyFails, TypeOK, TypedFiles, IsIni
  <2>. QED
    BY <2>1, <2>3 DEF TypeOK, Typed, TypedFiles
<1>13. CASE PowerCut
  BY <1>13, DiesTyped DEF PowerCut
<1>. QED
  BY <1>1, <1>2, <1>3, <1>4, <1>5, <1>6, <1>7, <1>8, <1>9, <1>10, <1>11, <1>12, <1>13,
     <1>14, <1>15, <1>16 DEF Next, User, Update

\* The variables keep their types: the numbers of lines and entries stay within the
\* files they were read from, and what is written is a file of lines again.
THEOREM TypeCorrect == Spec => []TypeOK
<1>1. Spec => []IInv /\ [][Next]_vars
  BY Invariance, PTL DEF Spec
<1>. QED
  BY <1>1, InitTypes, NextTypes, PTL DEF Spec

-----------------------------------------------------------------------------
\* What the loop over the lines keeps of a file whose lines were counted.

IniShape(f) == f.lines \in Seq(Lines) /\ Len(f.lines) \in Nat /\ f # NoFile

LEMMA IniIsShaped == ASSUME NEW f, IsIni(f) PROVE IniShape(f)
<1>1. f \in [lines : Seq(Lines), ended : BOOLEAN]
  BY DEF IsIni
<1>2. f = [lines |-> f.lines, ended |-> f.ended]
  BY <1>1
<1>3. f # NoFile
  BY <1>2 DEF NoFile
<1>. QED
  BY <1>1, <1>3, LenProperties DEF IniShape

\* The parsers see the kind of a line, its indent, and the name of a section.
SameKinds(f, g) ==
  /\ Len(g.lines) = Len(f.lines)
  /\ \A l \in 1..Len(f.lines) :
       /\ g.lines[l].is = f.lines[l].is
       /\ g.lines[l].indent = f.lines[l].indent
       /\ f.lines[l].is = "section" => g.lines[l].name = f.lines[l].name

LEMMA EarlierLines ==
  ASSUME NEW n \in Nat, NEW l \in 1..n
  PROVE  \A s \in 1..(l - 1) : s \in 1..n /\ \A t \in (s + 1)..(l - 1) : t \in 1..n
OBVIOUS

LEMMA SameContinues ==
  ASSUME NEW f, NEW g, IniShape(f), SameKinds(f, g), NEW l \in 1..Len(f.lines)
  PROVE  Continues(g, l) <=> Continues(f, l)
<1>1. \A s \in 1..(l - 1) : s \in 1..Len(f.lines) /\ \A t \in (s + 1)..(l - 1) : t \in 1..Len(f.lines)
  BY EarlierLines DEF IniShape
<1>2. \A t \in 1..Len(f.lines) : Starts(g, t) <=> Starts(f, t)
  BY DEF Starts, SameKinds
<1>3. \A s \in 1..Len(f.lines) : g.lines[s].is \in Keys <=> f.lines[s].is \in Keys
  BY Zenon DEF SameKinds
<1>4. /\ g.lines[l].indent <=> f.lines[l].indent
      /\ g.lines[l].is # "other" <=> f.lines[l].is # "other"
  BY Zenon DEF SameKinds
<1>. QED
  BY <1>1, <1>2, <1>3, <1>4, Zenon DEF Continues

LEMMA SameLinesOf ==
  ASSUME NEW f, NEW g, IniShape(f), SameKinds(f, g), NEW key
  PROVE  LinesOf(g, key) = LinesOf(f, key) /\ LineOf(g, key) = LineOf(f, key)
<1>0. ASSUME NEW l \in 1..Len(f.lines)
      PROVE  \A s \in 1..(l - 1) : s \in 1..Len(f.lines) /\ \A t \in (s + 1)..(l - 1) : t \in 1..Len(f.lines)
  BY EarlierLines DEF IniShape
<1>1. ASSUME NEW l \in 1..Len(f.lines)
      PROVE  /\ Continues(g, l) <=> Continues(f, l)
             /\ g.lines[l].is = f.lines[l].is
             /\ f.lines[l].is = "section" => g.lines[l].name = f.lines[l].name
  BY SameContinues DEF SameKinds
<1>2. ASSUME NEW l \in 1..Len(f.lines) PROVE InConfig(g, l) <=> InConfig(f, l)
  BY <1>0, <1>1, Zenon DEF InConfig
<1>3. ASSUME NEW l \in 1..Len(f.lines), NEW s \in 1..(l - 1) PROVE Follows(g, s, l) <=> Follows(f, s, l)
  BY <1>0, <1>1, Zenon DEF Follows
<1>4. ASSUME NEW l \in 1..Len(f.lines)
      PROVE  l \in LinesOf(g, key) <=> l \in LinesOf(f, key)
  <2>1. l \in 1..Len(g.lines)
    BY DEF SameKinds
  <2>. QED
    BY <1>0, <1>1, <1>2, <1>3, <2>1, Zenon DEF LinesOf
<1>5. LinesOf(g, key) \subseteq 1..Len(f.lines) /\ LinesOf(f, key) \subseteq 1..Len(f.lines)
  BY DEF LinesOf, SameKinds
<1>6. LinesOf(g, key) = LinesOf(f, key)
  BY <1>4, <1>5, Zenon
<1>. QED
  BY <1>6 DEF LineOf

LEMMA SameHekateLines ==
  ASSUME NEW f, NEW g, IniShape(f), SameKinds(f, g), NEW key
  PROVE  HekateLines(g, key) = HekateLines(f, key)
<1> DEFINE between(h, t) == ~Starts(h, t) /\ (h.lines[t].is = "other" => h.lines[t].indent)
           under(h, s, l) == /\ Starts(h, s) /\ h.lines[s].name = "config"
                             /\ \A t \in (s + 1)..(l - 1) : between(h, t)
<1>0. ASSUME NEW l \in 1..Len(f.lines)
      PROVE  \A s \in 1..(l - 1) : s \in 1..Len(f.lines) /\ \A t \in (s + 1)..(l - 1) : t \in 1..Len(f.lines)
  BY EarlierLines DEF IniShape
<1>1. ASSUME NEW l \in 1..Len(f.lines)
      PROVE  /\ Starts(g, l) <=> Starts(f, l)
             /\ Starts(f, l) => g.lines[l].name = f.lines[l].name
             /\ g.lines[l].is = f.lines[l].is /\ g.lines[l].indent = f.lines[l].indent
  BY DEF SameKinds, Starts
<1>2. ASSUME NEW t \in 1..Len(f.lines) PROVE between(g, t) <=> between(f, t)
  BY <1>1, Zenon
<1>3. ASSUME NEW l \in 1..Len(f.lines), NEW s \in 1..(l - 1)
      PROVE  under(g, s, l) <=> under(f, s, l)
  <2>1. s \in 1..Len(f.lines)
    BY <1>0, Zenon
  <2>2. \A t \in (s + 1)..(l - 1) : between(g, t) <=> between(f, t)
    BY <1>0, <1>2, Zenon
  <2> HIDE DEF between
  <2>. QED
    BY <1>1, <2>1, <2>2, Zenon
<1>4. ASSUME NEW l \in 1..Len(f.lines)
      PROVE  l \in HekateLines(g, key) <=> l \in HekateLines(f, key)
  <2>1. l \in 1..Len(g.lines)
    BY DEF SameKinds
  <2>2. ASSUME NEW h, l \in 1..Len(h.lines)
        PROVE  l \in HekateLines(h, key)
                 <=> /\ h.lines[l].is = key /\ ~h.lines[l].indent
                     /\ \E s \in 1..(l - 1) : under(h, s, l)
    BY <2>2, Zenon DEF HekateLines
  <2> HIDE DEF under
  <2>3. (\E s \in 1..(l - 1) : under(g, s, l)) <=> (\E s \in 1..(l - 1) : under(f, s, l))
    BY <1>3, Zenon
  <2>. QED
    BY <1>1, <2>1, <2>2, <2>3, Zenon
<1>5. HekateLines(g, key) \subseteq 1..Len(f.lines) /\ HekateLines(f, key) \subseteq 1..Len(f.lines)
  BY DEF HekateLines, SameKinds
<1>. QED
  BY <1>4, <1>5, Zenon

LEMMA SameSections ==
  ASSUME NEW f, NEW g, IniShape(f), g # NoFile, SameKinds(f, g)
  PROVE  Sections(g) = Sections(f)
<1> DEFINE at == {l \in 1..Len(f.lines) : f.lines[l].is = "section"}
           s == SectionLines(f)
           end(i) == IF i = Len(s) THEN Len(f.lines) ELSE s[i + 1] - 1
<1>1. SectionLines(g) = s /\ s = Ascending[at]
  <2>1. {l \in 1..Len(g.lines) : g.lines[l].is = "section"} = at
    BY DEF SameKinds
  <2>. QED
    BY <2>1 DEF SectionLines
<1>2. /\ s \in [1..Cardinality(at) -> at] /\ Cardinality(at) \in Nat
      /\ Len(s) = Cardinality(at)
  <2>1. Len(f.lines) \in Nat /\ at \in SUBSET (1..Len(f.lines))
    BY DEF IniShape
  <2>2. s \in [1..Cardinality(at) -> at] /\ Cardinality(at) \in Nat
    <3> HIDE DEF at, s
    <3>. QED
      BY <1>1, <2>1, AscendingIsIn
  <2>. QED
    BY <2>2, FunctionIsSeq
<1>3. ASSUME NEW i \in 1..Len(s)
      PROVE  /\ g.lines[s[i]].name = f.lines[s[i]].name
             /\ \A l \in (s[i] + 1)..end(i) : g.lines[l].is = f.lines[l].is
  <2>1. s[i] \in at
    BY <1>2
  <2>2. end(i) \in Int /\ end(i) <= Len(f.lines)
    <3>1. CASE i = Len(s)
      BY <3>1 DEF IniShape
    <3>2. CASE i # Len(s)
      <4>1. s[i + 1] \in at
        BY <1>2, <3>2
      <4>. QED
        BY <3>2, <4>1 DEF IniShape
    <3>. QED
      BY <3>1, <3>2
  <2>3. \A l \in (s[i] + 1)..end(i) : l \in 1..Len(f.lines)
    <3> HIDE DEF end, s
    <3>. QED
      BY <2>1, <2>2 DEF IniShape
  <2>. QED
    BY <2>1, <2>3 DEF SameKinds
<1> DEFINE entry(h, i) ==
      [name |-> h.lines[s[i]].name, main |-> TRUE,
       empty |-> \A l \in (s[i] + 1)..end(i) : h.lines[l].is \notin Keys \cup {"text"}]
<1>4. Sections(f) = [i \in 1..Len(s) |-> entry(f, i)]
  BY DEF Sections, IniShape
<1>5. Sections(g) = [i \in 1..Len(s) |-> entry(g, i)]
  BY <1>1 DEF Sections, SameKinds
<1>6. ASSUME NEW i \in 1..Len(s) PROVE entry(f, i) = entry(g, i)
  <2>1. (\A l \in (s[i] + 1)..end(i) : f.lines[l].is \notin Keys \cup {"text"}) <=>
        (\A l \in (s[i] + 1)..end(i) : g.lines[l].is \notin Keys \cup {"text"})
    BY <1>3
  <2>2. \A a, b : (a <=> b) => (a \in BOOLEAN /\ b \in BOOLEAN => a = b)
    OBVIOUS
  <2>. QED
    BY <1>3, <2>1
<1>. QED
  BY <1>4, <1>5, <1>6

LEMMA SameSectionLines ==
  ASSUME NEW f, NEW g, SameKinds(f, g)
  PROVE  SectionLines(g) = SectionLines(f)
<1>1. {l \in 1..Len(g.lines) : g.lines[l].is = "section"}
        = {l \in 1..Len(f.lines) : f.lines[l].is = "section"}
  BY DEF SameKinds
<1>. QED
  BY <1>1 DEF SectionLines

LEMMA SectionLinesAreLines ==
  ASSUME NEW f, IniShape(f), NEW i \in 1..Len(Sections(f))
  PROVE  SectionLines(f)[i] \in 1..Len(f.lines)
<1> DEFINE at == {l \in 1..Len(f.lines) : f.lines[l].is = "section"}
           s == SectionLines(f)
<1>1. s = Ascending[at]
  BY DEF SectionLines
<1>2. at \in SUBSET (1..Len(f.lines)) /\ Len(f.lines) \in Nat
  BY DEF IniShape
<1>3. s \in [1..Cardinality(at) -> at] /\ Cardinality(at) \in Nat
  <2> HIDE DEF at, s
  <2>. QED
    BY <1>1, <1>2, AscendingIsIn
<1>4. Len(s) = Cardinality(at)
  <2> HIDE DEF at, s
  <2>. QED
    BY <1>3, FunctionIsSeq
<1>5. Len(Sections(f)) = Len(s)
  BY <1>3, <1>4 DEF Sections, IniShape
<1>6. s[i] \in at
  <2> HIDE DEF at, s
  <2>. QED
    BY <1>3, <1>4, <1>5
<1>. QED
  BY <1>6

LEMMA SameParses ==
  ASSUME NEW f, NEW g, IniShape(f), g # NoFile, SameKinds(f, g)
  PROVE  Parses(g) <=> Parses(f)
<1>1. \A l \in 1..Len(f.lines) :
        /\ g.lines[l].is = f.lines[l].is
        /\ Continues(g, l) <=> Continues(f, l)
  BY SameContinues DEF SameKinds
<1>2. f # NoFile /\ Len(g.lines) = Len(f.lines)
  BY DEF IniShape, SameKinds
<1>. QED
  BY <1>1, <1>2, Zenon DEF Parses

LEMMA SameLinesAgree ==
  ASSUME NEW f, NEW g, IniShape(f), g # NoFile, SameKinds(f, g), g.ended = f.ended, LinesAgree(f)
  PROVE  LinesAgree(g)
<1>1. \A key \in BootKeys : LinesOf(g, key) = LinesOf(f, key) /\ HekateLines(g, key) = HekateLines(f, key)
  BY SameLinesOf, SameHekateLines
<1>. QED
  BY <1>1, SameParses, Zenon DEF LinesAgree

\* Only the last line of each key is replaced.
LEMMA RewrittenLines ==
  ASSUME NEW f, IniShape(f),
         autoboot_line = LineOf(f, "autoboot"), list_line = LineOf(f, "list")
  PROVE  /\ Rewritten(f) # NoFile /\ Rewritten(f).ended = f.ended
         /\ Len(Rewritten(f).lines) = Len(f.lines)
         /\ \A l \in 1..Len(f.lines) :
              \/ Rewritten(f).lines[l] = f.lines[l]
              \/ /\ l = LineOf(f, "autoboot") /\ l \in LinesOf(f, "autoboot")
                 /\ Rewritten(f).lines[l] =
                      [is |-> "autoboot", name |-> "", indent |-> FALSE,
                       value |-> IF enable THEN picked[1] ELSE 0]
              \/ /\ l = LineOf(f, "list") /\ l \in LinesOf(f, "list")
                 /\ Rewritten(f).lines[l] =
                      [is |-> "list", name |-> "", indent |-> FALSE, value |-> picked[2]]
<1>0. Len(f.lines) \in Nat
  BY DEF IniShape
<1> DEFINE line(l) ==
        IF l = Len(f.lines) /\ ~f.ended THEN f.lines[l]
        ELSE IF l = autoboot_line
        THEN [is |-> "autoboot", name |-> "", indent |-> FALSE,
              value |-> IF enable THEN picked[1] ELSE 0]
        ELSE IF l = list_line /\ enable
        THEN [is |-> "list", name |-> "", indent |-> FALSE, value |-> picked[2]]
        ELSE f.lines[l]
<1>1. Rewritten(f) = [lines |-> [l \in 1..Len(f.lines) |-> line(l)], ended |-> f.ended]
  BY DEF Rewritten
<1>2. Rewritten(f) # NoFile
  <2> HIDE DEF line
  <2>. QED
    BY <1>1 DEF NoFile
<1>3. Len(Rewritten(f).lines) = Len(f.lines) /\ Rewritten(f).ended = f.ended
  <2> HIDE DEF line
  <2>. QED
    BY <1>0, <1>1
<1>4. ASSUME NEW l \in 1..Len(f.lines) PROVE Rewritten(f).lines[l] = line(l)
  <2> HIDE DEF line
  <2>. QED
    BY <1>1
<1>5. ASSUME NEW l \in 1..Len(f.lines)
      PROVE  /\ l = autoboot_line => l \in LinesOf(f, "autoboot")
             /\ l = list_line => l \in LinesOf(f, "list")
  <2>1. l # NoLine
    BY DEF NoLine
  <2>2. \A key : l = LineOf(f, key) => l \in LinesOf(f, key)
    BY <1>0, <2>1, LineIsThere
  <2>. QED
    BY <2>2
<1>. QED
  BY <1>2, <1>3, <1>4, <1>5

LEMMA KeyAtTheMargin ==
  ASSUME NEW key, NEW v, NEW x,
         x = [is |-> key, name |-> "", indent |-> FALSE, value |-> v]
  PROVE  x.is = key /\ x.indent = FALSE
OBVIOUS

\* Where the parsers agree the replaced lines were the keys themselves.
LEMMA RewrittenKinds ==
  ASSUME NEW f, IniShape(f), LinesAgree(f),
         autoboot_line = LineOf(f, "autoboot"), list_line = LineOf(f, "list")
  PROVE  SameKinds(f, Rewritten(f))
<1>1. ASSUME NEW key \in BootKeys, NEW l \in LinesOf(f, key)
      PROVE  f.lines[l].is = key /\ ~f.lines[l].indent
  <2>1. l \in HekateLines(f, key)
    BY <1>1, Zenon DEF LinesAgree
  <2>. QED
    BY <2>1 DEF HekateLines
<1>2. "autoboot" \in BootKeys /\ "list" \in BootKeys
  BY DEF BootKeys
<1>3. \A l \in 1..Len(f.lines) : f.lines[l].indent \in BOOLEAN
  <2>1. \A l \in 1..Len(f.lines) : f.lines[l] \in Lines
    BY ElementOfSeq DEF IniShape
  <2>. QED
    BY <2>1 DEF Lines
<1>4. ASSUME NEW l \in 1..Len(f.lines)
      PROVE  /\ Rewritten(f).lines[l].is = f.lines[l].is
             /\ Rewritten(f).lines[l].indent = f.lines[l].indent
             /\ f.lines[l].is = "section" => Rewritten(f).lines[l].name = f.lines[l].name
  <2>1. CASE Rewritten(f).lines[l] = f.lines[l]
    BY <2>1
  <2>2. CASE l \in LinesOf(f, "autoboot")
             /\ Rewritten(f).lines[l] =
                  [is |-> "autoboot", name |-> "", indent |-> FALSE,
                   value |-> IF enable THEN picked[1] ELSE 0]
    <3>1. f.lines[l].is = "autoboot" /\ ~f.lines[l].indent
      BY <1>1, <1>2, <2>2
    <3>2. f.lines[l].indent = FALSE
      BY <1>3, <3>1, Zenon
    <3>3. /\ Rewritten(f).lines[l].is = "autoboot"
          /\ Rewritten(f).lines[l].indent = FALSE
      <4> DEFINE v == IF enable THEN picked[1] ELSE 0
                 x == Rewritten(f).lines[l]
      <4>1. x = [is |-> "autoboot", name |-> "", indent |-> FALSE, value |-> v]
        BY <2>2
      <4> HIDE DEF v, x
      <4>2. x.is = "autoboot"
        BY <4>1
      <4>3. x.indent = FALSE
        BY <4>1
      <4>. QED
        BY <4>2, <4>3, Zenon DEF x
    <3>4. f.lines[l].is # "section"
      BY <3>1
    <3>. QED
      BY <3>1, <3>2, <3>3, <3>4, Zenon
  <2>3. CASE l \in LinesOf(f, "list")
             /\ Rewritten(f).lines[l] =
                  [is |-> "list", name |-> "", indent |-> FALSE, value |-> picked[2]]
    <3>1. f.lines[l].is = "list" /\ ~f.lines[l].indent
      BY <1>1, <1>2, <2>3
    <3>2. f.lines[l].indent = FALSE
      BY <1>3, <3>1, Zenon
    <3>3. /\ Rewritten(f).lines[l].is = "list"
          /\ Rewritten(f).lines[l].indent = FALSE
      <4> DEFINE v == picked[2]
                 x == Rewritten(f).lines[l]
      <4>1. x = [is |-> "list", name |-> "", indent |-> FALSE, value |-> v]
        BY <2>3
      <4> HIDE DEF v, x
      <4>2. x.is = "list"
        BY <4>1
      <4>3. x.indent = FALSE
        BY <4>1
      <4>. QED
        BY <4>2, <4>3, Zenon DEF x
    <3>4. f.lines[l].is # "section"
      BY <3>1
    <3>. QED
      BY <3>1, <3>2, <3>3, <3>4, Zenon
  <2>. QED
    BY <2>1, <2>2, <2>3, RewrittenLines
<1>. QED
  BY <1>4, RewrittenLines DEF SameKinds

\* The two keys get the numbers of the entry, on the lines that Hekate reads.
LEMMA RewrittenValues ==
  ASSUME NEW f, IniShape(f), LinesAgree(f),
         autoboot_line = LineOf(f, "autoboot"), list_line = LineOf(f, "list"),
         autoboot_line # NoLine, list_line # NoLine
  PROVE  /\ HekateValue(Rewritten(f), "autoboot") = IF enable THEN picked[1] ELSE 0
         /\ enable => HekateValue(Rewritten(f), "list") = picked[2]
<1>0. Len(f.lines) \in Nat /\ f.ended
  BY DEF IniShape, LinesAgree
<1>1. autoboot_line \in LinesOf(f, "autoboot") /\ list_line \in LinesOf(f, "list")
  BY <1>0, LineIsThere
<1>2. \A key \in BootKeys : HekateLines(Rewritten(f), key) = LinesOf(f, key)
  <2>1. SameKinds(f, Rewritten(f))
    BY RewrittenKinds
  <2>2. \A key \in BootKeys : HekateLines(Rewritten(f), key) = HekateLines(f, key)
    BY <2>1, SameHekateLines
  <2>. QED
    BY <2>2, Zenon DEF LinesAgree
<1>3. /\ HekateValue(Rewritten(f), "autoboot") = Rewritten(f).lines[autoboot_line].value
      /\ HekateValue(Rewritten(f), "list") = Rewritten(f).lines[list_line].value
  <2>1. /\ HekateLines(Rewritten(f), "autoboot") = LinesOf(f, "autoboot")
        /\ HekateLines(Rewritten(f), "list") = LinesOf(f, "list")
    BY <1>2 DEF BootKeys
  <2>. QED
    BY <1>1, <2>1 DEF HekateValue, LineOf
<1>4. /\ autoboot_line \in 1..Len(f.lines) /\ list_line \in 1..Len(f.lines)
      /\ autoboot_line # list_line
  <2>1. f.lines[autoboot_line].is = "autoboot" /\ f.lines[list_line].is = "list"
    <3>1. /\ autoboot_line \in HekateLines(f, "autoboot")
          /\ list_line \in HekateLines(f, "list")
      BY <1>1 DEF LinesAgree, BootKeys
    <3>. QED
      BY <3>1 DEF HekateLines
  <2>. QED
    BY <1>1, <2>1 DEF LinesOf
<1>5. /\ Rewritten(f).lines[autoboot_line].value = IF enable THEN picked[1] ELSE 0
      /\ enable => Rewritten(f).lines[list_line].value = picked[2]
  BY <1>0, <1>4 DEF Rewritten
<1>. QED
  BY <1>3, <1>5

-----------------------------------------------------------------------------
\* Where the entries agree, the two loops remove [config] only.

LEMMA ConfigIsRemoved ==
  ASSUME NEW s \in Seq(Entry),
         \A i, j \in 1..Len(s) : s[i].name = "config" /\ s[j].name = "config" => i = j
  PROVE  WithoutConfig[s] = Kept(s, {i \in 1..Len(s) : s[i].name # "config"})
<1> DEFINE n == Len(s)
           removed(g, i) == i > 0 /\ s[i].name = "config" /\ ~g[i - 1]
           turn(g) == [i \in 0..n |-> removed(g, i)]
           gone == CHOOSE g : g = turn(g)
           config(i) == i > 0 /\ s[i].name = "config"
           G == [i \in 0..n |-> config(i)]
<1>0. n \in Nat
  BY LenProperties
<1>1. WithoutConfig[s] = Kept(s, {i \in 1..n : ~gone[i]})
  BY DEF WithoutConfig
<1>2. ASSUME NEW i \in 0..n, config(i)
      PROVE  i > 0 /\ i - 1 \in 0..n /\ ~config(i - 1)
  <2>1. i > 0 /\ i - 1 \in 0..n /\ i \in 1..n
    BY <1>0, <1>2
  <2>2. ~config(i - 1)
    BY <1>0, <1>2, <2>1
  <2>. QED
    BY <2>1, <2>2
<1>3. \E g : g = turn(g)
  <2>1. ASSUME NEW i \in 0..n PROVE removed(G, i) <=> config(i)
    <3>1. CASE config(i)
      <4>1. i - 1 \in 0..n /\ ~config(i - 1)
        BY <1>2, <3>1
      <4>2. ~G[i - 1]
        <5> HIDE DEF config
        <5>. QED
          BY <4>1, Zenon
      <4>. QED
        BY <3>1, <4>2
    <3>2. CASE ~config(i)
      BY <3>2
    <3>. QED
      BY <3>1, <3>2
  <2>2. ASSUME NEW i \in 0..n PROVE removed(G, i) = config(i)
    <3>1. removed(G, i) \in BOOLEAN /\ config(i) \in BOOLEAN
      OBVIOUS
    <3>. QED
      BY <2>1, <3>1
  <2>3. turn(G) = G
    <3> HIDE DEF removed, config
    <3>. QED
      BY <2>2
  <2>. QED
    BY <2>3
<1>4. gone = turn(gone)
  <2> HIDE DEF turn
  <2>. QED
    BY <1>3, Zenon
<1>5. ASSUME NEW i \in 0..n PROVE gone[i] <=> removed(gone, i)
  <2> HIDE DEF removed, gone
  <2>1. turn(gone)[i] = removed(gone, i)
    BY Zenon
  <2>. QED
    BY <1>4, <2>1, Zenon
<1>6. ASSUME NEW i \in 0..n PROVE gone[i] <=> config(i)
  <2> HIDE DEF gone
  <2>1. CASE config(i)
    <3>1. i - 1 \in 0..n /\ ~config(i - 1)
      BY <1>2, <2>1
    <3>2. ~gone[i - 1]
      <4>1. gone[i - 1] <=> removed(gone, i - 1)
        BY <1>5, <3>1, Zenon
      <4>2. ~removed(gone, i - 1)
        BY <3>1
      <4>. QED
        BY <4>1, <4>2, Zenon
    <3>3. removed(gone, i)
      BY <2>1, <3>2
    <3>. QED
      BY <1>5, <2>1, <3>3, Zenon
  <2>2. CASE ~config(i)
    <3>1. ~removed(gone, i)
      BY <2>2
    <3>. QED
      BY <1>5, <2>2, <3>1, Zenon
  <2>. QED
    BY <2>1, <2>2
<1>7. {i \in 1..n : ~gone[i]} = {i \in 1..n : s[i].name # "config"}
  <2>1. ASSUME NEW i \in 1..n PROVE gone[i] <=> s[i].name = "config"
    <3>1. i \in 0..n /\ i > 0
      BY <1>0
    <3> HIDE DEF gone
    <3>. QED
      BY <1>6, <3>1
  <2> HIDE DEF gone, n
  <2>. QED
    BY <2>1, Zenon
<1>. QED
  BY <1>1, <1>7, Zenon

LEMMA NothingIsRemoved ==
  ASSUME NEW s \in Seq(Entry), \A i \in 1..Len(s) : s[i].name # "config" /\ ~s[i].empty
  PROVE  Offered[s] = s
<1> DEFINE n == Len(s)
           next(g, i) ==
             IF i = 0 THEN "both"
             ELSE IF g[i - 1] = "both" /\ s[i].name = "config" THEN "keys"
             ELSE IF g[i - 1] # "none" /\ s[i].empty THEN "none"
             ELSE "both"
           turn(g) == [i \in 0..n |-> next(g, i)]
           seen == CHOOSE g : g = turn(g)
<1>0. n \in Nat
  BY LenProperties
<1>1. Offered[s] = Kept(s, {i \in 1..n : seen[i] = "both"})
  BY DEF Offered
<1>2. ASSUME NEW g, NEW i \in 0..n PROVE next(g, i) = "both"
  BY <1>0
<1>3. \A g : turn(g) = [i \in 0..n |-> "both"]
  <2> HIDE DEF next
  <2>. QED
    BY <1>2
<1>4. seen = turn(seen)
  <2> HIDE DEF turn
  <2>1. \E g : g = turn(g)
    BY <1>3, Zenon
  <2>. QED
    BY <2>1, Zenon
<1>5. \A i \in 1..n : seen[i] = "both"
  <2> HIDE DEF turn, seen
  <2>. QED
    BY <1>0, <1>3, <1>4
<1>6. {i \in 1..n : seen[i] = "both"} = 1..n
  <2> HIDE DEF seen, n
  <2>. QED
    BY <1>5
<1>. QED
  BY <1>1, <1>6, KeptAll

\* The menu where the entries agree: the sections of the file without [config],
\* in their order, and then those of the folder.
LEMMA AgreedMenu ==
  ASSUME NEW f, IsIni(f), NEW d \in Folders, EntriesAgree(f, d)
  PROVE  /\ MainEntries(f) = Kept(Sections(f), {i \in 1..Len(Sections(f)) : Sections(f)[i].name # "config"})
         /\ Menu(f, d) = MainEntries(f) \o d
<1> DEFINE s == Sections(f)
           S == {i \in 1..Len(s) : s[i].name # "config"}
           m == MainEntries(f)
<1>1. s \in Seq(Entry) /\ d # None
  BY SectionsAreEntries DEF EntriesAgree
<1>2. m = Kept(s, S)
  BY <1>1, ConfigIsRemoved DEF MainEntries, EntriesAgree
<1>3. /\ m \in Seq(Entry) /\ Len(m) \in Nat
      /\ \A k \in 1..Len(m) : m[k].name # "config" /\ ~m[k].empty
  <2>1. /\ m \in Seq(Entry) /\ Len(m) \in Nat
        /\ \A k \in 1..Len(m) : \E i \in S : m[k] = s[i]
    <3>1. S \in SUBSET (1..Len(s))
      OBVIOUS
    <3>2. s \in Seq(Entry)
      BY <1>1
    <3> HIDE DEF m, s, S
    <3>. QED
      BY <1>2, <3>1, <3>2, KeptIsSeq
  <2>2. \A i \in S : s[i].name # "config" /\ ~s[i].empty
    BY DEF EntriesAgree
  <2>. QED
    BY <2>1, <2>2, Zenon
<1>4. /\ d \in Seq(Entry) /\ Len(d) \in Nat
      /\ \A k \in 1..Len(d) : d[k].name # "config" /\ ~d[k].empty
  BY <1>1, FolderIsSeq DEF EntriesAgree
<1>5. /\ m \o d \in Seq(Entry) /\ Len(m \o d) = Len(m) + Len(d)
      /\ \A k \in 1..(Len(m) + Len(d)) : (m \o d)[k] = IF k <= Len(m) THEN m[k] ELSE d[k - Len(m)]
  <2> HIDE DEF m
  <2>. QED
    BY <1>3, <1>4, ConcatProperties
<1>6. ASSUME NEW k \in 1..Len(m \o d)
      PROVE  (m \o d)[k].name # "config" /\ ~(m \o d)[k].empty
  <2> HIDE DEF m
  <2>1. CASE k <= Len(m)
    BY <1>3, <1>4, <1>5, <2>1
  <2>2. CASE ~(k <= Len(m))
    <3>1. k - Len(m) \in 1..Len(d)
      BY <1>3, <1>4, <1>5, <2>2
    <3>. QED
      BY <1>4, <1>5, <2>2, <3>1
  <2>. QED
    BY <2>1, <2>2
<1>7. Offered[m \o d] = m \o d
  <2> HIDE DEF m
  <2>. QED
    BY <1>5, <1>6, NothingIsRemoved
<1>. QED
  BY <1>2, <1>7 DEF Menu

\* Hekate finds the entry that was picked under its number.
LEMMA NumberIsBooted ==
  ASSUME IsIni(file), folder \in Folders, EntriesAgree(file, folder),
         NEW c \in 1..Len(Entries), NEW g, HekateSections(g) = Sections(file),
         HekateValue(g, "autoboot") = Numbered(c)[1], HekateValue(g, "list") = Numbered(c)[2]
  PROVE  Boots(g, folder) = Entries[c].name
<1> DEFINE s == Sections(file)
           S == {i \in 1..Len(s) : s[i].name # "config"}
           m == MainEntries(file)
<1>1. m = Kept(s, S) /\ Entries = m \o folder
  BY AgreedMenu DEF Entries
<1>2. /\ s \in Seq(Entry) /\ S \in SUBSET (1..Len(s))
      /\ \A i \in 1..Len(s) : s[i].main = TRUE
  BY SectionsAreEntries
<1>3. /\ m \in Seq(Entry) /\ Len(m) \in Nat
      /\ \A k \in 1..Len(m) : m[k].main = TRUE
  <2>1. /\ m \in Seq(Entry) /\ Len(m) \in Nat
        /\ \A k \in 1..Len(m) : \E i \in S : m[k] = s[i]
    <3>1. m = Kept(s, S)
      BY <1>1
    <3>2. s \in Seq(Entry) /\ S \in SUBSET (1..Len(s))
      BY <1>2
    <3> HIDE DEF m, s, S
    <3>. QED
      BY <3>1, <3>2, KeptIsSeq
  <2>2. \A i \in S : s[i].main = TRUE
    BY <1>2
  <2>. QED
    BY <2>1, <2>2, Zenon
<1>4. /\ folder \in Seq(Entry) /\ Len(folder) \in Nat
      /\ \A k \in 1..Len(folder) : folder[k].main = FALSE
      /\ \A k \in 1..Len(folder) : folder[k].name # "config"
  BY FolderIsSeq DEF EntriesAgree
<1>5. /\ Len(m \o folder) = Len(m) + Len(folder)
      /\ \A k \in 1..(Len(m) + Len(folder)) :
           (m \o folder)[k] = IF k <= Len(m) THEN m[k] ELSE folder[k - Len(m)]
  <2> HIDE DEF m
  <2>. QED
    BY <1>3, <1>4, ConcatProperties
<1> HIDE DEF m
<1>6. c \in 1..(Len(m) + Len(folder))
  BY <1>1, <1>5
<1>7. CASE c <= Len(m)
  <2>1. Entries[c] = m[c] /\ c \in 1..Len(m)
    BY <1>1, <1>3, <1>4, <1>5, <1>6, <1>7
  <2>2. Numbered(c) = <<c, 0>>
    BY <1>3, <2>1 DEF Numbered
  <2>3. Boots(g, folder) = IF c \in 1..Len(m) THEN m[c].name ELSE "menu"
    BY <1>1, <2>2 DEF Boots
  <2>. QED
    BY <2>1, <2>3
<1>8. CASE ~(c <= Len(m))
  <2>1. Entries[c] = folder[c - Len(m)] /\ c - Len(m) \in 1..Len(folder)
    BY <1>1, <1>3, <1>4, <1>5, <1>6, <1>8
  <2>2. Numbered(c) = <<c - Len(m), 1>>
    BY <1>4, <2>1 DEF Numbered, m
  <2>3. {i \in 1..Len(folder) : folder[i].name # "config"} = 1..Len(folder)
    BY <1>4
  <2>4. Kept(folder, 1..Len(folder)) = folder
    BY <1>4, KeptAll
  <2>5. Boots(g, folder) = IF c - Len(m) \in 1..Len(folder) THEN folder[c - Len(m)].name ELSE "menu"
    <3>1. /\ HekateValue(g, "autoboot") = c - Len(m) /\ HekateValue(g, "list") # 0
          /\ folder # None
      BY <2>2 DEF EntriesAgree
    <3>. QED
      BY <2>3, <2>4, <3>1, Zenon DEF Boots
  <2>. QED
    BY <2>1, <2>5
<1>. QED
  BY <1>3, <1>6, <1>7, <1>8

-----------------------------------------------------------------------------
(***************************************************************************)
(* What the steps leave behind for the message to be true.                 *)
(***************************************************************************)

\* The numbers of the lines are those of the file that is there.
LinesKnown ==
  pc \notin {"off", "copying"} /\ faults = 0 /\ Parses(file) =>
    autoboot_line = LineOf(file, "autoboot") /\ list_line = LineOf(file, "list")

\* Past the first test both keys have a line, and it is known where the parsers
\* disagree.
Tested ==
  /\ pc \in {"ask", "open", "write"} => NoLine \notin {autoboot_line, list_line}
  /\ pc = "write" =>
       /\ "lines" \notin odd => LinesAgree(file)
       /\ "entries" \notin odd => EntriesAgree(file, folder)

\* The copy is what the loop writes.
Written == pc = "copy" /\ faults = 0 => temp = Rewritten(file)

\* The number x is the one of the entry the user has picked.
OfPicked(x) == \E c \in 1..Len(Entries) : x = Numbered(c) /\ wanted = Entries[c].name

\* A choice is passed on only by the installation of a pack that asked for it.
Carried ==
  /\ pc \in {"menu", "pack"} => chosen = Canceled
  /\ by = "combo" /\ pc # "off" => chosen = Canceled
  /\ pc = "pack" => by = "pack"
  /\ pc = "update" /\ enable /\ chosen[1] > 0 => OfPicked(chosen)
  /\ pc \in {"open", "write"} /\ enable => OfPicked(picked)

\* What Hekate will do with the file that is being copied.
Prepared ==
  pc \in {"copy", "copying"} /\ faults = 0 /\ "lines" \notin odd =>
    /\ enable /\ "entries" \notin odd => Boots(temp, folder) = wanted
    /\ ~enable => Boots(temp, folder) = "menu"

Passed == LinesKnown /\ Tested /\ Written /\ Carried /\ Prepared

\* What was written is what the message will say.
LEMMA RewrittenBoots ==
  ASSUME IsIni(file), folder \in Folders, LinesAgree(file),
         autoboot_line = LineOf(file, "autoboot"), list_line = LineOf(file, "list"),
         autoboot_line # NoLine, list_line # NoLine,
         enable \in BOOLEAN, enable => OfPicked(picked)
  PROVE  /\ enable /\ EntriesAgree(file, folder) => Boots(Rewritten(file), folder) = wanted
         /\ ~enable => Boots(Rewritten(file), folder) = "menu"
<1> DEFINE g == Rewritten(file)
<1>1. IniShape(file)
  BY IniIsShaped
<1>2. SameKinds(file, g) /\ g # NoFile
  BY <1>1, RewrittenKinds, RewrittenLines
<1>3. /\ HekateValue(g, "autoboot") = IF enable THEN picked[1] ELSE 0
      /\ enable => HekateValue(g, "list") = picked[2]
  BY <1>1, RewrittenValues
<1> HIDE DEF g
<1>4. ASSUME enable, EntriesAgree(file, folder) PROVE Boots(g, folder) = wanted
  <2>1. PICK c \in 1..Len(Entries) : picked = Numbered(c) /\ wanted = Entries[c].name
    BY <1>4 DEF OfPicked
  <2>2. HekateValue(g, "autoboot") = Numbered(c)[1] /\ HekateValue(g, "list") = Numbered(c)[2]
    BY <1>3, <1>4, <2>1
  <2>3. HekateSections(g) = Sections(file)
    <3>1. Sections(g) = Sections(file) /\ SectionLines(g) = SectionLines(file)
      BY <1>1, <1>2, SameSections, SameSectionLines
    <3>2. ASSUME NEW i \in 1..Len(Sections(file))
          PROVE  ~g.lines[SectionLines(file)[i]].indent
      <4>1. SectionLines(file)[i] \in 1..Len(file.lines)
        BY <1>1, SectionLinesAreLines
      <4>2. ~file.lines[SectionLines(file)[i]].indent
        BY <1>4 DEF EntriesAgree
      <4>. QED
        BY <1>2, <4>1, <4>2 DEF SameKinds
    <3>3. {i \in 1..Len(Sections(g)) : ~g.lines[SectionLines(g)[i]].indent} = 1..Len(Sections(file))
      BY <3>1, <3>2
    <3>4. Sections(file) \in Seq(Entry)
      BY SectionsAreEntries
    <3>. QED
      BY <3>1, <3>3, <3>4, KeptAll DEF HekateSections
  <2>4. Boots(g, folder) = Entries[c].name
    BY <1>4, <2>2, <2>3, NumberIsBooted
  <2>. QED
    BY <2>1, <2>4
<1>5. ASSUME ~enable PROVE Boots(g, folder) = "menu"
  <2>1. HekateValue(g, "autoboot") = 0
    BY <1>3, <1>5
  <2>2. \A s : ~ (0 \in 1..Len(s))
    OBVIOUS
  <2>. QED
    BY <2>1, <2>2, Zenon DEF Boots
<1>. QED
  BY <1>4, <1>5 DEF g

-----------------------------------------------------------------------------
LEMMA InitPassed == Init => Passed /\ SaidIsDone
BY DEF Init, Passed, LinesKnown, Tested, Written, Carried, Prepared, SaidIsDone

\* The status is read again, or the process that had it is gone.
LEMMA KnownAnew == ASSUME GetStatus(file') PROVE LinesKnown'
<1>1. CASE Parses(file')
  BY <1>1 DEF GetStatus, Known, StatusOf, LinesKnown
<1>2. CASE ~Parses(file')
  BY <1>2 DEF LinesKnown
<1>. QED
  BY <1>1, <1>2

\* A step that leaves the file and what is known of it alone, and does not end
\* within the replacement.
LEMMA QuietStep ==
  ASSUME Passed, UNCHANGED <<file, autoboot_line, list_line>>, faults' = faults \/ faults' # 0,
         pc \notin {"off", "copying"}, pc' \notin {"write", "copy", "copying"},
         pc' \in {"ask", "open"} => NoLine \notin {autoboot_line, list_line},
         pc' \in {"off", "menu"} => said' \notin {"enabled", "disabled"}
  PROVE  LinesKnown' /\ Tested' /\ Written' /\ Prepared' /\ SaidIsDone'
<1>1. LinesKnown'
  BY DEF Passed, LinesKnown
<1>2. Tested' /\ Written' /\ Prepared'
  BY DEF Tested, Written, Prepared
<1>3. SaidIsDone'
  BY DEF SaidIsDone
<1>. QED
  BY <1>1, <1>2, <1>3

LEMMA DiesPassed ==
  ASSUME Dies
  PROVE  Passed' /\ SaidIsDone'
<1>1. pc' = "off" /\ said' = "nothing"
  BY DEF Dies, Fresh
<1>. QED
  BY <1>1 DEF Passed, LinesKnown, Tested, Written, Carried, Prepared, SaidIsDone

\* The entries and their numbers depend on the files alone.
LEMMA SameEntries ==
  ASSUME UNCHANGED <<file, folder>>
  PROVE  Entries' = Entries /\ \A c : Numbered(c)' = Numbered(c)
BY DEF Entries, Numbered

\* The caller passes on the number of an entry together with its name.
LEMMA AnswerPassed ==
  ASSUME TypeOK, Passed, Choosing, NEW x, x[1] \in Int, Answer(x),
         x[1] > -1 => \E c \in 1..Len(Entries) : x = Numbered(c) /\ wanted' = Entries[c].name
  PROVE  Passed' /\ SaidIsDone'
<1> USE DEF card, status
<1>1. /\ UNCHANGED <<file, folder, temp, autoboot_line, list_line, faults, by>>
      /\ pc \in {"pack", "ask"}
  BY DEF Answer, Choosing
<1>2. /\ pc = "pack" => by = "pack" /\ chosen = Canceled
      /\ by = "combo" \/ by = "pack"
      /\ by = "combo" => chosen = Canceled
      /\ NoLine \notin {autoboot_line, list_line} \/ pc = "pack"
  BY <1>1 DEF Passed, Carried, Tested, TypeOK
<1>3. CASE pc = "pack"
  <2>1. \/ pc' = "update" /\ enable' = FALSE
        \/ x[1] > -1 /\ pc' = "update" /\ chosen' = x
        \/ pc' = "pack" /\ chosen' = chosen
    BY <1>3 DEF Answer
  <2>2. LinesKnown' /\ Tested' /\ Written' /\ Prepared' /\ SaidIsDone'
    BY <1>1, <1>3, <2>1, QuietStep
  <2>3. x[1] > -1 /\ chosen' = x => OfPicked(chosen)'
    BY <1>1, SameEntries DEF OfPicked
  <2>4. Carried'
    BY <1>1, <1>2, <1>3, <2>1, <2>3 DEF Carried
  <2>. QED
    BY <2>2, <2>4 DEF Passed
<1>4. CASE pc = "ask"
  <2>1. /\ chosen' = chosen
        /\ \/ said' = "canceled" /\ pc' = IF by = "pack" THEN "off" ELSE "menu"
           \/ x[1] > -1 /\ picked' = x /\ pc' = "open"
    <3>1. x[1] < 0 => said' = "canceled" /\ pc' = IF by = "pack" THEN "off" ELSE "menu"
      BY <1>4 DEF Answer, Return
    <3>2. ~(x[1] < 0) => picked' = x /\ pc' = "open"
      BY <1>4 DEF Answer
    <3>3. chosen' = chosen
      BY <1>4 DEF Answer
    <3>. QED
      BY <3>1, <3>2, <3>3
  <2>2. LinesKnown' /\ Tested' /\ Written' /\ Prepared' /\ SaidIsDone'
    BY <1>1, <1>2, <1>4, <2>1, QuietStep
  <2>3. x[1] > -1 /\ picked' = x => OfPicked(picked)'
    BY <1>1, SameEntries DEF OfPicked
  <2>4. Carried'
    BY <1>1, <1>2, <1>4, <2>1, <2>3 DEF Carried
  <2>. QED
    BY <2>2, <2>4 DEF Passed
<1>. QED
  BY <1>1, <1>3, <1>4

LEMMA PicksPassed ==
  ASSUME TypeOK, Passed, Choosing, NEW c \in 1..Len(Entries), Picks(c)
  PROVE  Passed' /\ SaidIsDone'
BY NumberIsTyped, AnswerPassed DEF Picks

LEMMA ChoicePassed ==
  ASSUME TypeOK, Passed, Choice
  PROVE  Passed' /\ SaidIsDone'
<1> USE DEF card, status, call
<1>1. CASE ChoiceCrashes
  BY <1>1, DiesPassed DEF ChoiceCrashes
<1>2. CASE MoveCursor
  <2>1. /\ UNCHANGED <<file, folder, temp, autoboot_line, list_line, faults, by, enable, said,
                       chosen, picked, wanted, pc>>
        /\ pc \in {"pack", "ask"}
    BY <1>2 DEF MoveCursor, Choosing
  <2>2. LinesKnown' /\ Tested' /\ Written' /\ Prepared' /\ SaidIsDone'
    <3>1. pc' \in {"ask", "open"} => NoLine \notin {autoboot_line, list_line}
      BY <2>1 DEF Passed, Tested
    <3>. QED
      BY <2>1, <3>1, QuietStep
  <2>3. Carried'
    BY <2>1 DEF Passed, Carried
  <2>. QED
    BY <2>2, <2>3 DEF Passed
<1>3. CASE PressA
  BY <1>3, PicksPassed DEF PressA
<1>4. CASE TimesOut
  <2>1. Choosing /\ Picks(1) /\ Entries # << >>
    BY <1>4 DEF TimesOut
  <2>. QED
    BY <2>1, FirstIsThere, PicksPassed
<1>5. CASE PressB
  <2>1. Choosing /\ Answer(Canceled) /\ Canceled[1] \in Int /\ ~(Canceled[1] > -1)
    BY <1>5 DEF PressB, Canceled
  <2>. QED
    BY <2>1, AnswerPassed
<1>6. CASE NothingToChoose
  <2>1. Choosing /\ Answer(Nothing) /\ Nothing[1] \in Int /\ ~(Nothing[1] > -1)
    BY <1>6 DEF NothingToChoose, Nothing
  <2>. QED
    BY <2>1, AnswerPassed
<1>. QED
  BY <1>1, <1>2, <1>3, <1>4, <1>5, <1>6 DEF Choice

LEMMA UpdatePassed ==
  ASSUME IInv, TypeOK, Passed, Update
  PROVE  Passed' /\ SaidIsDone'
<1> USE DEF card, status, call, history
<1>1. CASE Undefined \/ AlreadySet \/ CannotOpen
  <2>1. /\ UNCHANGED <<file, folder, temp, autoboot_line, list_line, by, chosen>>
        /\ faults' = faults \/ faults' # 0
        /\ pc \in {"update", "open"} /\ said' \notin {"enabled", "disabled"}
        /\ pc' = IF by = "pack" THEN "off" ELSE "menu"
    <3>1. CASE Undefined
      BY <3>1 DEF Undefined, Return
    <3>2. CASE AlreadySet
      BY <3>2 DEF AlreadySet, Return
    <3>3. CASE CannotOpen
      BY <3>3 DEF CannotOpen, Opens, Return, TypeOK
    <3>. QED
      BY <1>1, <3>1, <3>2, <3>3
  <2>2. LinesKnown' /\ Tested' /\ Written' /\ Prepared' /\ SaidIsDone'
    BY <2>1, QuietStep
  <2>3. by = "combo" \/ by = "pack"
    BY DEF TypeOK
  <2>4. Carried'
    BY <2>1, <2>3 DEF Passed, Carried
  <2>. QED
    BY <2>2, <2>4 DEF Passed
<1>2. CASE Begin
  <2>1. /\ UNCHANGED <<file, folder, temp, autoboot_line, list_line, faults, by, chosen, enable,
                       wanted>>
        /\ pc = "update" /\ NoLine \notin {autoboot_line, list_line}
        /\ enable /\ chosen[1] <= 0 => pc' = "ask"
        /\ ~(enable /\ chosen[1] <= 0) =>
             pc' = "open" /\ picked' = IF enable THEN chosen ELSE picked
    BY <1>2 DEF Begin
  <2>2. LinesKnown' /\ Tested' /\ Written' /\ Prepared' /\ SaidIsDone'
    BY <2>1, QuietStep
  <2>3. ASSUME pc' = "open", enable PROVE OfPicked(picked)'
    <3>1. picked' = chosen /\ ~(chosen[1] <= 0)
      BY <2>1, <2>3
    <3>2. chosen[1] > 0
      BY <3>1, BoundsAreNumbers DEF TypeOK, Numbers, MaxEntries
    <3>3. OfPicked(chosen)
      BY <2>1, <2>3, <3>2 DEF Passed, Carried
    <3>. QED
      BY <2>1, <3>1, <3>3, SameEntries DEF OfPicked
  <2>4. pc' \in {"ask", "open"}
    BY <2>1
  <2>5. Carried'
    BY <2>1, <2>3, <2>4 DEF Passed, Carried
  <2>. QED
    BY <2>2, <2>5 DEF Passed
<1>3. CASE OpenTemp
  <2>1. /\ UNCHANGED <<file, folder, autoboot_line, list_line, faults, by, chosen, enable,
                       picked, wanted>>
        /\ pc = "open" /\ pc' = "write"
    BY <1>3 DEF OpenTemp, Opens
  <2>2. LinesKnown' /\ Written' /\ Prepared' /\ SaidIsDone'
    BY <2>1 DEF Passed, LinesKnown, Written, Prepared, SaidIsDone
  <2>3. Tested'
    <3>1. /\ "lines" \notin odd' => LinesAgree(file)
          /\ "entries" \notin odd' => EntriesAgree(file, folder)
      BY <1>3 DEF OpenTemp
    <3>3. /\ LinesAgree(file') = LinesAgree(file)
          /\ EntriesAgree(file', folder') = EntriesAgree(file, folder)
      BY <2>1, Zenon
    <3>2. NoLine \notin {autoboot_line, list_line}'
      BY <2>1 DEF Passed, Tested
    <3>. QED
      BY <2>1, <3>1, <3>2, <3>3, Zenon DEF Tested
  <2>4. enable => OfPicked(picked)'
    BY <2>1, SameEntries DEF Passed, Carried, OfPicked
  <2>5. Carried'
    BY <2>1, <2>4 DEF Passed, Carried
  <2>. QED
    BY <2>2, <2>3, <2>5 DEF Passed
<1>4. CASE WriteTemp
  <2>1. /\ UNCHANGED <<file, folder, autoboot_line, list_line, by, chosen, enable,
                       picked, wanted, odd>>
        /\ pc = "write" /\ pc' = "copy"
        /\ faults' = 0 => faults = 0 /\ temp' = Rewritten(file)
    BY <1>4 DEF WriteTemp, TypeOK
  <2>2. LinesKnown' /\ Tested' /\ SaidIsDone'
    BY <2>1 DEF Passed, LinesKnown, Tested, SaidIsDone
  <2>3. Rewritten(file)' = Rewritten(file)
    BY <2>1 DEF Rewritten
  <2>4. Written'
    BY <2>1, <2>3 DEF Written
  <2>5. Carried'
    BY <2>1 DEF Passed, Carried
  <2>6. Prepared'
    <3>1. SUFFICES ASSUME faults' = 0, "lines" \notin odd'
                   PROVE  /\ enable' /\ "entries" \notin odd' => Boots(temp', folder') = wanted'
                          /\ ~enable' => Boots(temp', folder') = "menu"
      BY DEF Prepared
    <3>2. faults = 0 /\ temp' = Rewritten(file) /\ folder' = folder /\ odd' = odd
      BY <1>4, <2>1, <3>1 DEF WriteTemp
    <3>3. LinesAgree(file) /\ ("entries" \notin odd => EntriesAgree(file, folder))
      BY <2>1, <3>1, <3>2 DEF Passed, Tested
    <3>4. IsIni(file) /\ Parses(file) /\ folder \in Folders /\ enable \in BOOLEAN
      BY <3>3 DEF TypeOK, Parses, LinesAgree
    <3>5. /\ autoboot_line = LineOf(file, "autoboot") /\ list_line = LineOf(file, "list")
          /\ autoboot_line # NoLine /\ list_line # NoLine
          /\ enable => OfPicked(picked)
      BY <2>1, <3>2, <3>4 DEF Passed, LinesKnown, Tested, Carried
    <3>6. /\ enable /\ EntriesAgree(file, folder) => Boots(Rewritten(file), folder) = wanted
          /\ ~enable => Boots(Rewritten(file), folder) = "menu"
      BY <3>3, <3>4, <3>5, RewrittenBoots
    <3>. QED
      BY <2>1, <3>2, <3>3, <3>6
  <2>. QED
    BY <2>2, <2>4, <2>5, <2>6 DEF Passed
<1>5. CASE CopyBegins
  <2>1. /\ UNCHANGED <<temp, folder, by, chosen, enable, wanted, faults, odd>>
        /\ pc = "copy" /\ pc' = "copying"
    BY <1>5 DEF CopyBegins
  <2>2. Prepared'
    BY <2>1 DEF Passed, Prepared
  <2>. QED
    BY <2>1, <2>2 DEF Passed, LinesKnown, Tested, Written, Carried, SaidIsDone
<1>6. CASE CopyEnds
  <2>1. /\ UNCHANGED <<folder, by, chosen, enable, wanted, faults, odd>>
        /\ pc = "copying" /\ pc' = IF by = "pack" THEN "off" ELSE "menu"
        /\ file' = temp /\ GetStatus(file')
        /\ said' = IF enable THEN "enabled" ELSE "disabled"
    BY <1>6 DEF CopyEnds, Return
  <2>2. LinesKnown'
    BY <2>1, KnownAnew
  <2>3. SaidIsDone'
    BY <2>1 DEF Passed, Prepared, SaidIsDone
  <2>4. by = "combo" \/ by = "pack"
    BY DEF TypeOK
  <2>5. Carried'
    BY <2>1, <2>4 DEF Passed, Carried
  <2>. QED
    BY <2>1, <2>2, <2>3, <2>5 DEF Passed, Tested, Written, Prepared
<1>7. CASE CopyStoresNothing \/ CopyFails
  <2>1. /\ UNCHANGED <<by, chosen>> /\ faults' # 0
        /\ pc = "copying" /\ pc' = IF by = "pack" THEN "off" ELSE "menu"
    <3>1. faults + 1 # 0
      BY BoundsAreNumbers DEF TypeOK
    <3>2. CASE CopyStoresNothing
      BY <3>1, <3>2 DEF CopyStoresNothing, Return
    <3>3. CASE CopyFails
      BY <3>1, <3>3 DEF CopyFails, Return
    <3>. QED
      BY <1>7, <3>2, <3>3
  <2>2. by = "combo" \/ by = "pack"
    BY DEF TypeOK
  <2>3. Carried'
    BY <2>1, <2>2 DEF Passed, Carried
  <2>. QED
    BY <2>1, <2>3 DEF Passed, LinesKnown, Tested, Written, Prepared, SaidIsDone
<1>. QED
  BY <1>1, <1>2, <1>3, <1>4, <1>5, <1>6, <1>7 DEF Update

LEMMA NextPassed == IInv /\ TypeOK /\ Passed /\ SaidIsDone /\ [Next]_vars => Passed' /\ SaidIsDone'
<1> SUFFICES ASSUME IInv, TypeOK, Passed, SaidIsDone, [Next]_vars
             PROVE  Passed' /\ SaidIsDone'
  OBVIOUS
<1> USE DEF card, status, call, history
<1>1. CASE UNCHANGED vars
  <2>1. /\ UNCHANGED <<file, temp, folder, autoboot_line, list_line, pc, by, enable, chosen,
                       picked, said, wanted, odd, faults>>
    BY <1>1 DEF vars
  <2>2. LinesKnown' /\ Tested' /\ Prepared'
    BY <2>1 DEF Passed, LinesKnown, Tested, Prepared
  <2>3. Written'
    <3>1. Rewritten(file)' = Rewritten(file)
      BY <2>1 DEF Rewritten
    <3>. QED
      BY <2>1, <3>1 DEF Passed, Written
  <2>4. Carried'
    BY <2>1, SameEntries DEF Passed, Carried, OfPicked
  <2>5. SaidIsDone'
    BY <2>1 DEF SaidIsDone
  <2>. QED
    BY <2>2, <2>3, <2>4, <2>5 DEF Passed
<1>2. CASE StartApp
  <2>1. pc' = "menu" /\ said' = "nothing" /\ chosen' = Canceled /\ file' = file
    BY <1>2 DEF StartApp, Fresh
  <2>2. LinesKnown'
    BY <1>2, <2>1 DEF StartApp, Known, StatusOf, LinesKnown
  <2>. QED
    BY <2>1, <2>2 DEF Passed, Tested, Written, Carried, Prepared, SaidIsDone
<1>3. ASSUME NEW e \in BOOLEAN, Combo(e) PROVE Passed' /\ SaidIsDone'
  <2>1. /\ UNCHANGED <<file, autoboot_line, list_line, faults, chosen>>
        /\ pc = "menu" /\ pc' = "update" /\ said' = "nothing"
    BY <1>3 DEF Combo
  <2>2. LinesKnown' /\ Tested' /\ Written' /\ Prepared' /\ SaidIsDone'
    BY <2>1, QuietStep
  <2>3. chosen' = Canceled /\ ~(Canceled[1] > 0)
    BY <2>1 DEF Passed, Carried, Canceled
  <2>4. Carried'
    BY <2>1, <2>3 DEF Carried
  <2>. QED
    BY <2>2, <2>4 DEF Passed
<1>4. ASSUME NEW e \in BOOLEAN, AfterPack(e) PROVE Passed' /\ SaidIsDone'
  <2>1. /\ GetStatus(file') /\ chosen' = chosen
        /\ pc = "menu" /\ pc' \in {"pack", "update"} /\ said' = "nothing" /\ by' = "pack"
    BY <1>4 DEF AfterPack
  <2>2. LinesKnown'
    BY <2>1, KnownAnew
  <2>3. chosen' = Canceled /\ ~(Canceled[1] > 0)
    BY <2>1 DEF Passed, Carried, Canceled
  <2>4. Carried'
    BY <2>1, <2>3 DEF Carried
  <2>. QED
    BY <2>1, <2>2, <2>4 DEF Passed, Tested, Written, Prepared, SaidIsDone
<1>5. CASE Choice
  BY <1>5, ChoicePassed
<1>6. CASE Update
  BY <1>6, UpdatePassed
<1>7. CASE PowerCut
  BY <1>7, DiesPassed DEF PowerCut
<1>. QED
  BY <1>1, <1>2, <1>3, <1>4, <1>5, <1>6, <1>7 DEF Next, User

\* What one step leaves behind is what the next one needs, up to the message.
THEOREM PassedOn == Spec => [](Passed /\ SaidIsDone)
<1>1. Spec => [](IInv /\ TypeOK) /\ [][Next]_vars
  BY Invariance, TypeCorrect, PTL DEF Spec
<1>. QED
  BY <1>1, InitPassed, NextPassed, PTL DEF Spec

\* Whatever the entries, the files and the folders: without a failure of the card
\* the message tells what Hekate will start, where inih and Hekate find the keys on
\* the same lines and, for an entry, the sections have keys and one name each.  The
\* numbers of the lines are those of the file that is rewritten, the number of the
\* entry is that of the entry picked, and the file that replaces the old one has the
\* same sections (main.cpp:1476-1737, main_config.c:456-515).
THEOREM SaidIsDoneHolds == Spec => []SaidIsDone
BY PassedOn, PTL

\* The loop over the lines replaces none but the last that inih counted for each of
\* the two keys of [config], whatever the file: the key itself or an indented line
\* that continues it (main.cpp:1694-1716, main_config.c:456-515, ini.c:171-178).
THEOREM OnlyBootLinesChangeHolds == Spec => []OnlyBootLinesChange
<1>1. TypeOK /\ Passed => OnlyBootLinesChange
  <2>1. SUFFICES ASSUME TypeOK, Passed, pc = "copy", faults = 0, Parses(file),
                        NEW l \in 1..Len(file.lines), temp.lines[l] # file.lines[l]
                 PROVE  \E key \in BootKeys :
                          /\ l = LineOf(file, key) /\ InConfig(file, l)
                          /\ ~file.lines[l].indent => file.lines[l].is = key
    BY DEF OnlyBootLinesChange
  <2>2. IniShape(file)
    BY <2>1, IniIsShaped DEF TypeOK, Parses
  <2>3. /\ temp = Rewritten(file)
        /\ autoboot_line = LineOf(file, "autoboot") /\ list_line = LineOf(file, "list")
    BY <2>1 DEF Passed, Written, LinesKnown
  <2>4. \E key \in BootKeys : l = LineOf(file, key) /\ l \in LinesOf(file, key)
    BY <2>1, <2>2, <2>3, RewrittenLines DEF BootKeys
  <2>5. ASSUME NEW key \in BootKeys, l \in LinesOf(file, key)
        PROVE  InConfig(file, l) /\ (~file.lines[l].indent => file.lines[l].is = key)
    BY <2>5 DEF LinesOf, Follows, Continues
  <2>. QED
    BY <2>4, <2>5
<1>. QED
  BY <1>1, PassedOn, TypeCorrect, PTL

=============================================================================
