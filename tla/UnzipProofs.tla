---------------------------- MODULE UnzipProofs -----------------------------
(***************************************************************************)
(* Proofs about Unzip for every archive, card and set of failures its      *)
(* assumptions allow.  Everything follows from one inductive invariant:    *)
(* where the program is (Control), that no file in use is a directory      *)
(* (Card), and that every entry behind the cursor is settled or one where  *)
(* a failure was overlooked (Behind).                                      *)
(***************************************************************************)
EXTENDS Unzip, TLAPS

\* The name that was read last may be an old one: what lies between its entry
\* and the cursor has been passed over, and a copy under it is overlooked.
Naming ==
  /\ named <= pos
  /\ (named + 1)..(pos - 1) \subseteq overlooked
  /\ pc \in {"copy", "verify"} /\ named # pos => {named, pos} \subseteq overlooked

Control ==
  /\ CursorLag
  /\ Naming
  /\ i <= number_entry
  /\ pc \in {"entry", "copy", "verify"} => copy_retry >= 1 /\ ret = -1
  /\ pc \in {"copy", "verify"} =>
       /\ i < number_entry
       /\ named \in 1..N
       /\ Zip[named].name \in Names
       /\ ~Zip[named].dir
  /\ pc = "copy" => sd[Dest(named)] = Damaged
  /\ pc = "open" => ret = -1 /\ i = 0 /\ number_entry = 0 /\ copy_retry = MaxTries
  /\ ret = 0 => i = number_entry

Card == \A p \in Protected : sd[p] # Dir

Covered(k) == Settled(k) \/ k \in overlooked

Behind == \A k \in 1..(pos - 1) : Covered(k)

IInv == TypeOK /\ Control /\ Card /\ Behind

-----------------------------------------------------------------------------
\* What the assumptions say of one entry and of two.
LEMMA EntryType ==
  ASSUME NEW k \in 1..N
  PROVE  /\ Zip[k] \in Entries
         /\ Zip[k].name \in Names \cup {NoName}
         /\ Zip[k].dir \in BOOLEAN
         /\ Zip[k].data \in Contents
         /\ Zip[k].name \in Names => Dest(k) \in Names
<1>1. Zip[k] \in Entries
  BY ZipIsWellFormed DEF N
<1>2. QED
  BY <1>1, TempsAreBeside DEF Entries, Dest

\* Two entries never write to the same path, and none to the path of another.
LEMMA DestDistinct ==
  ASSUME NEW k \in 1..N, NEW l \in 1..N, k # l,
         Zip[k].name \in Names, Zip[l].name \in Names
  PROVE  /\ Zip[k].name # Zip[l].name
         /\ Dest(k) # Dest(l)
         /\ Dest(k) # Zip[l].name
<1>1. Zip[k].name # Zip[l].name
  BY ZipIsWellFormed
<1>2. CASE Zip[k].name \in Protected
  BY <1>1, <1>2, TempsAreBeside DEF Dest
<1>3. CASE Zip[k].name \notin Protected
  BY <1>1, <1>3, TempsAreBeside DEF Dest
<1>4. QED
  BY <1>2, <1>3

\* An entry stays settled as long as its path and the path it is written to
\* keep what they hold.
LEMMA SettledStable ==
  ASSUME NEW k \in 1..N, Settled(k), verify' = verify,
         Zip[k].name \in Names =>
           sd'[Zip[k].name] = sd[Zip[k].name] /\ sd'[Dest(k)] = sd[Dest(k)]
  PROVE  Settled(k)'
<1>1. CASE Zip[k].name \in Names
  BY <1>1 DEF Settled, Dest
<1>2. CASE Zip[k].name = NoName
  BY <1>2, NodesAreDistinct DEF Settled
<1>3. QED
  BY <1>1, <1>2, EntryType

\* Removing the tree of a file entry's path touches none of the paths the
\* archive and the files in use need, but that path.
LEMMA ClearedOthers ==
  ASSUME TypeOK, NEW k \in 1..N, Zip[k].name \in Names, ~Zip[k].dir
  PROVE  /\ Cleared(Zip[k].name) \in [Names -> Nodes]
         /\ \A m \in Needed \cap Names :
              m # Zip[k].name => Cleared(Zip[k].name)[m] = sd[m]
         /\ sd[Zip[k].name] # Dir => Cleared(Zip[k].name) = sd
<1>1. Below[Zip[k].name] \cap Needed = {}
  BY ZipIsWellFormed
<1>2. QED
  BY <1>1 DEF Cleared, RemoveTree, TypeOK, Nodes

\* A file entry writes to no protected file, and to no path of another entry.
LEMMA FileFacts ==
  ASSUME NEW e \in 1..N, Zip[e].name \in Names, ~Zip[e].dir
  PROVE  /\ Dest(e) \in Names /\ Dest(e) \notin Protected
         /\ \A k \in 1..N : k # e /\ Zip[k].name \in Names =>
              /\ Dest(k) \in Names \cap Needed /\ Zip[k].name \in Needed
              /\ {Zip[k].name, Dest(k)} \cap {Zip[e].name, Dest(e)} = {}
<1>1. Dest(e) \in Names
  BY EntryType
<1>2. Dest(e) \notin Protected
  BY TempsAreBeside DEF Dest
<1>3. ASSUME NEW k \in 1..N, k # e, Zip[k].name \in Names
      PROVE  /\ Dest(k) \in Names \cap Needed /\ Zip[k].name \in Needed
             /\ {Zip[k].name, Dest(k)} \cap {Zip[e].name, Dest(e)} = {}
  <2>1. Dest(k) \in Names
    BY <1>3, EntryType
  <2>2. Dest(k) \in Needed /\ Zip[k].name \in Needed
    BY DEF Needed, Dest
  <2>3. /\ Dest(k) # Dest(e) /\ Zip[k].name # Zip[e].name
        /\ Dest(k) # Zip[e].name /\ Dest(e) # Zip[k].name
    BY <1>3, DestDistinct
  <2>4. QED
    BY <2>1, <2>2, <2>3
<1>4. QED
  BY <1>1, <1>2, <1>3

-----------------------------------------------------------------------------
\* IInv holds when unzip() is called.
LEMMA InitIInv == Init => IInv
<1> SUFFICES ASSUME Init PROVE IInv
  OBVIOUS
<1>1. sd \in [Names -> Nodes]
  BY CardIsATree DEF Init
<1>2. N \in Nat
  BY ZipIsWellFormed DEF N
<1>3. TypeOK
  <2>1. lost \in BOOLEAN /\ verify \in Verifies /\ overlooked \subseteq 1..N
    BY DEF Init
  <2>2. QED
    BY <1>1, <1>2, <2>1 DEF Init, TypeOK, MaxTries
<1>4. Control
  BY DEF Init, Control, CursorLag, Naming, MaxTries
<1>5. Card
  BY CardIsATree DEF Init, Card
<1>6. Behind
  BY DEF Init, Behind
<1>7. QED
  BY <1>3, <1>4, <1>5, <1>6 DEF IInv

\* Facts about the cursor, wherever the program is in the body of the loop.
LEMMA CursorFacts ==
  ASSUME IInv, i < number_entry
  PROVE  /\ N \in Nat /\ number_entry = N
         /\ pos \in 1..N /\ pos <= i + 1 /\ i \in 0..(N - 1)
         /\ retries \in 0..i /\ named \in 0..pos
<1>1. N \in Nat
  BY ZipIsWellFormed DEF N
<1>2. QED
  BY <1>1 DEF IInv, TypeOK, Control, CursorLag, Naming

\* What the end of an iteration does to the loop index and the cursor.
LEMMA NextFacts ==
  ASSUME IInv, i < number_entry, NextEntry
  PROVE  /\ i' = i + 1 /\ i' \in 0..N
         /\ pos' \in {pos, pos + 1} /\ pos' \in 1..(N + 1)
         /\ lost' \in BOOLEAN
         /\ retries' = retries => CursorLag'
<1>1. /\ N \in Nat /\ pos \in 1..N /\ i \in 0..(N - 1)
  BY CursorFacts
<1>2. lost \in BOOLEAN /\ CursorLag /\ retries \in Nat
  BY <1>1 DEF IInv, TypeOK, Control
<1>3. CASE lost
  BY <1>1, <1>2, <1>3 DEF NextEntry, CursorLag
<1>4. CASE ~lost
  <2>0. lost' \in BOOLEAN
    BY <1>4 DEF NextEntry
  <2>1. i' = i + 1 /\ pos' = pos + 1 /\ lost' \in BOOLEAN
    BY <1>4, <2>0 DEF NextEntry
  <2>2. i = (pos - 1) + retries
    BY <1>2, <1>4 DEF CursorLag
  <2>3. QED
    BY <1>1, <1>2, <2>1, <2>2 DEF CursorLag
<1>5. QED
  BY <1>2, <1>3, <1>4

\* The entry whose name the program has at the start of the body.
LEMMA NameFacts ==
  ASSUME IInv, NEW e \in 0..N, AtEntry(e)
  PROVE  /\ pc = "entry" /\ i < number_entry /\ named' = e
         /\ e \in 0..pos /\ Confused(e) \subseteq 1..N
         /\ e # pos => pos \in Confused(e) /\ (e + 1)..(pos - 1) \subseteq overlooked
         /\ e # pos /\ e # 0 => e \in Confused(e)
<1>1. pc = "entry" /\ i < number_entry /\ named' = e /\ e \in {pos, named}
  BY DEF AtEntry
<1>2. N \in Nat /\ pos \in 1..N /\ named \in 0..pos
  BY <1>1, CursorFacts
<1>3. (named + 1)..(pos - 1) \subseteq overlooked
  BY DEF IInv, Control, Naming
<1>4. QED
  BY <1>1, <1>2, <1>3 DEF Confused

\* The failures that are recorded keep what is known of old names.
LEMMA NamingStep ==
  ASSUME IInv, NEW e \in 0..N, AtEntry(e), pos' \in {pos, pos + 1},
         overlooked \subseteq overlooked', Confused(e) \subseteq overlooked',
         (e # 0 /\ pos' = pos) \/ pc' = "entry"
  PROVE  Naming'
<1>1. /\ pc = "entry" /\ i < number_entry /\ named' = e
      /\ e \in 0..pos
      /\ e # pos => pos \in Confused(e) /\ (e + 1)..(pos - 1) \subseteq overlooked
      /\ e # pos /\ e # 0 => e \in Confused(e)
  BY NameFacts
<1>2. N \in Nat /\ pos \in 1..N
  BY <1>1, CursorFacts
<1>n. e \in Int /\ pos \in Int /\ named' <= pos'
  BY <1>1, <1>2
<1>3. ASSUME NEW k \in (named' + 1)..(pos' - 1)
      PROVE  k \in overlooked'
  <2>0. k \in (e + 1)..(pos' - 1) /\ (pos' = pos \/ pos' = pos + 1)
    BY <1>3, <1>1
  <2>1. k \in Int /\ e < k /\ k <= pos
    <3>1. CASE pos' = pos
      <4>1. k \in (e + 1)..(pos - 1)
        BY <2>0, <3>1
      <4>2. QED
        BY <4>1, <1>n
    <3>2. CASE pos' = pos + 1
      <4>1. k \in (e + 1)..((pos + 1) - 1)
        BY <2>0, <3>2
      <4>2. QED
        BY <4>1, <1>n
    <3>3. QED
      BY <2>0, <3>1, <3>2
  <2>2. CASE k = pos
    BY <2>1, <2>2, <1>1, <1>n
  <2>3. CASE k # pos
    <3>1. k \in (e + 1)..(pos - 1) /\ e # pos
      BY <2>1, <2>3, <1>n
    <3>2. QED
      BY <3>1, <1>1
  <2>4. QED
    BY <2>2, <2>3
<1>4. pc' \in {"copy", "verify"} /\ named' # pos' => {named', pos'} \subseteq overlooked'
  <2> SUFFICES ASSUME pc' \in {"copy", "verify"}, named' # pos'
               PROVE  {named', pos'} \subseteq overlooked'
    OBVIOUS
  <2>1. pos' = pos /\ e # 0
    OBVIOUS
  <2>2. QED
    BY <2>1, <1>1
<1>5. QED
  BY <1>n, <1>3, <1>4 DEF Naming

\* What is behind the cursor stays covered when the paths of the entries no
\* failure was overlooked at do not change.
LEMMA BehindStable ==
  ASSUME IInv, verify' = verify, overlooked \subseteq overlooked',
         \A k \in 1..N : k < pos /\ k \notin overlooked' /\ Zip[k].name \in Names =>
           sd'[Zip[k].name] = sd[Zip[k].name] /\ sd'[Dest(k)] = sd[Dest(k)]
  PROVE  \A k \in 1..(pos - 1) : Covered(k)'
<1> TAKE k \in 1..(pos - 1)
<1>1. k \in 1..N /\ k < pos
  BY ZipIsWellFormed DEF N, IInv, TypeOK
<1>2. CASE k \in overlooked'
  BY <1>2 DEF Covered
<1>3. CASE k \notin overlooked'
  <2>1. Settled(k)
    BY <1>3 DEF IInv, Behind, Covered
  <2>2. Settled(k)'
    BY <2>1, <1>1, <1>3, SettledStable
  <2>3. QED
    BY <2>2 DEF Covered
<1>4. QED
  BY <1>2, <1>3

\* Moving the cursor, or not, over an entry that is now covered.
LEMMA BehindNext ==
  ASSUME NEW q \in 1..N, q = pos, pos' \in {pos, pos + 1},
         \A k \in 1..(pos - 1) : Covered(k)', Covered(q)'
  PROVE  Behind'
<1> SUFFICES ASSUME NEW k \in 1..(pos' - 1) PROVE Covered(k)'
  BY DEF Behind
<1>0. q \in Int /\ k \in Int /\ k >= 1 /\ k <= q
  <2>1. N \in Nat
    BY ZipIsWellFormed DEF N
  <2>2. q \in Int /\ pos = q
    BY <2>1
  <2>3. pos' = q \/ pos' = q + 1
    BY <2>2
  <2>4. k \in 1..(q - 1) \/ k \in 1..((q + 1) - 1)
    BY <2>3
  <2>5. QED
    BY <2>2, <2>4
<1>1. CASE k = q
  BY <1>1
<1>2. CASE k # q
  <2>1. k \in 1..(pos - 1)
    BY <1>0, <1>2
  <2>2. QED
    BY <2>1
<1>3. QED
  BY <1>1, <1>2

-----------------------------------------------------------------------------
\* The actions that move the cursor or the control state and leave the SD alone.
LEMMA WalkKeepsIInv ==
  ASSUME IInv, OpenZip \/ LoopEnd \/ \E e \in 0..N : SkipEntry(e) \/ SkipIdentical(e)
  PROVE  IInv'
<1>n. N \in Nat
  BY ZipIsWellFormed DEF N
<1>1. CASE OpenZip
  <2>1. TypeOK' /\ Control'
    BY <1>1, <1>n
       DEF IInv, TypeOK, Control, CursorLag, Naming, OpenZip, cursor, given, history, MaxTries
  <2>2. Card' /\ Behind'
    BY <1>1 DEF IInv, Card, Behind, Covered, Settled, OpenZip, cursor, given, history
  <2>3. QED
    BY <2>1, <2>2 DEF IInv
<1>2. CASE LoopEnd
  <2>1. TypeOK' /\ Control'
    BY <1>2, <1>n
       DEF IInv, TypeOK, Control, CursorLag, Naming, LoopEnd, cursor, given, history
  <2>2. Card' /\ Behind'
    BY <1>2 DEF IInv, Card, Behind, Covered, Settled, LoopEnd, cursor, given, history
  <2>3. QED
    BY <2>1, <2>2 DEF IInv
<1>3. ASSUME NEW e \in 0..N, SkipEntry(e) \/ SkipIdentical(e)
      PROVE  IInv'
  <2>1. /\ AtEntry(e) /\ NextEntry
        /\ UNCHANGED <<sd, number_entry, copy_retry, pc, ret, given, retries>>
        /\ \/ overlooked' = overlooked \cup Confused(e)
           \/ overlooked' = overlooked \cup (Confused(e) \cup {pos})
    BY <1>3 DEF SkipEntry, SkipIdentical, Wanted, Overlook
  <2>2. /\ pc = "entry" /\ i < number_entry /\ named' = e
        /\ e \in 0..pos /\ Confused(e) \subseteq 1..N
        /\ e # pos => pos \in Confused(e)
    BY <2>1, NameFacts
  <2>3. /\ number_entry = N /\ pos \in 1..N /\ i \in 0..(N - 1) /\ retries \in 0..i
    BY <2>2, CursorFacts
  <2>4. /\ i' = i + 1 /\ i' \in 0..N
        /\ pos' \in {pos, pos + 1} /\ pos' \in 1..(N + 1)
        /\ lost' \in BOOLEAN /\ CursorLag'
    BY <2>1, <2>2, NextFacts
  <2>5. /\ overlooked \subseteq overlooked' /\ Confused(e) \subseteq overlooked'
        /\ overlooked' \subseteq 1..N
    BY <2>1, <2>2, <2>3 DEF IInv, TypeOK
  <2>6. Naming'
    BY <2>1, <2>2, <2>4, <2>5, NamingStep
  <2>7. TypeOK'
    BY <2>1, <2>2, <2>4, <2>5 DEF IInv, TypeOK, given
  <2>8. Control'
    BY <2>1, <2>2, <2>3, <2>4, <2>6 DEF IInv, Control
  <2>9. Covered(pos) \/ pos \in overlooked'
    <3>1. CASE e # pos
      BY <3>1, <2>2, <2>5
    <3>2. CASE e = pos /\ SkipEntry(e)
      <4>1. SubDepth > i \/ Name(e) = NoName \/ MustKeep(Name(e))
        BY <3>2 DEF SkipEntry
      <4>2. Name(e) = Zip[pos].name
        BY <3>2, <2>3 DEF Name
      <4>3. CASE SubDepth > i
        <5>1. pos \in 1..SubDepth
          BY <4>3, <2>2, <2>3, <1>n, CursorFacts, ZipIsWellFormed
        <5>2. QED
          BY <5>1, ZipIsWellFormed DEF Covered, Settled
      <4>4. QED
        BY <4>1, <4>2, <4>3 DEF Covered, Settled, MustKeep
    <3>3. CASE e = pos /\ SkipIdentical(e)
      <4>1. ~Zip[pos].dir /\ (Identical(Name(e)) \/ pos \in overlooked')
        BY <3>3 DEF SkipIdentical, Overlook
      <4>2. Name(e) = Zip[pos].name
        BY <3>3, <2>3 DEF Name
      <4>3. QED
        BY <4>1, <4>2 DEF Identical, Covered, Settled
    <3>4. QED
      BY <1>3, <3>1, <3>2, <3>3
  <2>10. \A k \in 1..(pos - 1) : Covered(k)'
    BY <2>1, <2>5, BehindStable DEF given
  <2>11. Behind'
    <3>1. PICK q \in 1..N : q = pos
      BY <2>3
    <3>2. Covered(q)'
      BY <3>1, <2>1, <2>5, <2>9 DEF Covered, Settled, Dest, given
    <3>3. QED
      BY <3>1, <3>2, <2>4, <2>10, BehindNext
  <2>12. Card'
    BY <2>1 DEF IInv, Card
  <2>13. QED
    BY <2>7, <2>8, <2>11, <2>12 DEF IInv
<1>4. QED
  BY <1>1, <1>2, <1>3

\* What MakeDirectory does to the SD.
LEMMA MakeDirectoryFacts ==
  ASSUME IInv, NEW e \in 0..N, MakeDirectory(e)
  PROVE  /\ AtEntry(e) /\ e \in 1..N /\ Zip[e].name \in Names /\ Zip[e].dir
         /\ Name(e) = Zip[e].name /\ ~MustKeep(Zip[e].name)
         /\ sd' \in [Names -> Nodes]
         /\ sd'[Zip[e].name] \in {Dir, None}
         /\ \A m \in Names : m # Zip[e].name /\ sd'[m] # sd[m] =>
              /\ Zip[e].name = BootLogo /\ sd[BootLogo] = Dir
              /\ m \in Below[BootLogo] /\ sd'[m] = None
         /\ overlooked' = overlooked \cup
              (Confused(e) \cup (IF sd'[Zip[e].name] = Dir THEN {} ELSE {pos}))
<1> DEFINE d == Zip[e].name
<1>1. AtEntry(e) /\ Name(e) # NoName /\ ~MustKeep(Name(e)) /\ Zip[e].dir
  BY DEF MakeDirectory, Wanted
<1>2. e \in 1..N /\ Name(e) = d
  BY <1>1, ZipIsWellFormed DEF Name, N
<1>3. d \in Names
  BY <1>1, <1>2, EntryType
<1>4. \/ sd[d] = Dir /\ d # BootLogo /\ sd' = sd
      \/ sd[d] = Dir /\ d = BootLogo
         /\ \E made \in {Dir, None} : sd' = [RemoveTree(sd, d) EXCEPT ![d] = made]
      \/ sd[d] # Dir /\ \E made \in {Dir, None} : sd' = [sd EXCEPT ![d] = made]
  <2>1. Mkdir(d) \subseteq {Dir, None}
    BY DEF Mkdir
  <2>2. IF sd[d] = Dir /\ d # BootLogo
        THEN UNCHANGED sd
        ELSE \E made \in Mkdir(d) :
               sd' = [IF sd[d] = Dir THEN RemoveTree(sd, d) ELSE sd EXCEPT ![d] = made]
    BY <1>2 DEF MakeDirectory
  <2>3. QED
    BY <2>1, <2>2
<1>5. sd' \in [Names -> Nodes]
  BY <1>3, <1>4 DEF IInv, TypeOK, Nodes, RemoveTree
<1>6. sd'[d] \in {Dir, None}
  BY <1>3, <1>4 DEF IInv, TypeOK, RemoveTree
<1>7. ASSUME NEW m \in Names, m # d, sd'[m] # sd[m]
      PROVE  /\ d = BootLogo /\ sd[BootLogo] = Dir
             /\ m \in Below[BootLogo] /\ sd'[m] = None
  BY <1>3, <1>4, <1>7 DEF IInv, TypeOK, RemoveTree
<1>8. overlooked' = overlooked \cup
        (Confused(e) \cup (IF sd'[d] = Dir THEN {} ELSE {pos}))
  BY <1>2 DEF MakeDirectory, Overlook
<1>9. QED
  BY <1>1, <1>2, <1>3, <1>5, <1>6, <1>7, <1>8

\* Creating or emptying a directory keeps IInv: nothing that was extracted
\* before is in the way of a directory that is listed before its files.
LEMMA MakeDirectoryKeepsIInv ==
  ASSUME IInv, NEW e \in 0..N, MakeDirectory(e)
  PROVE  IInv'
<1> DEFINE d == Zip[e].name
<1>1. /\ NextEntry
      /\ UNCHANGED <<number_entry, copy_retry, pc, ret, given, retries>>
  BY DEF MakeDirectory
<1>2. /\ AtEntry(e) /\ e \in 1..N /\ d \in Names /\ Zip[e].dir
      /\ sd' \in [Names -> Nodes]
      /\ \A m \in Names : m # d /\ sd'[m] # sd[m] =>
           /\ d = BootLogo /\ sd[BootLogo] = Dir
           /\ m \in Below[BootLogo] /\ sd'[m] = None
      /\ overlooked' = overlooked \cup (Confused(e) \cup (IF sd'[d] = Dir THEN {} ELSE {pos}))
  BY MakeDirectoryFacts
<1>3. /\ pc = "entry" /\ i < number_entry /\ named' = e
      /\ e \in 0..pos /\ Confused(e) \subseteq 1..N
      /\ e # pos => pos \in Confused(e) /\ (e + 1)..(pos - 1) \subseteq overlooked
      /\ e # pos => e \in Confused(e)
  BY <1>2, NameFacts
<1>4. /\ N \in Nat /\ number_entry = N /\ pos \in 1..N /\ i \in 0..(N - 1) /\ retries \in 0..i
  BY <1>3, CursorFacts
<1>5. /\ i' = i + 1 /\ i' \in 0..N
      /\ pos' \in {pos, pos + 1} /\ pos' \in 1..(N + 1)
      /\ lost' \in BOOLEAN /\ CursorLag'
  BY <1>1, <1>3, NextFacts
<1>6. /\ overlooked \subseteq overlooked' /\ Confused(e) \subseteq overlooked'
      /\ overlooked' \subseteq 1..N
  BY <1>2, <1>3, <1>4 DEF IInv, TypeOK
<1>7. Naming'
  BY <1>1, <1>2, <1>3, <1>5, <1>6, NamingStep
<1>8. TypeOK'
  BY <1>1, <1>2, <1>3, <1>5, <1>6 DEF IInv, TypeOK, given
<1>9. Control'
  BY <1>1, <1>3, <1>4, <1>5, <1>7 DEF IInv, Control
<1>10. \A k \in 1..(pos - 1) : Covered(k)'
  <2>1. ASSUME NEW k \in 1..N, k < pos, k \notin overlooked', Zip[k].name \in Names,
               NEW m \in {Zip[k].name, Dest(k)}, m \in Names, sd'[m] # sd[m]
        PROVE  FALSE
    <3>1. k # e
      BY <2>1, <1>3, <1>6
    <3>2. m # d
      BY <2>1, <3>1, <1>2, DestDistinct
    <3>3. d = BootLogo /\ m \in Below[d]
      BY <3>2, <2>1, <1>2
    <3>4. Zip[k].name \in Below[d]
      BY <3>3, <2>1, TempsAreBeside DEF Dest
    <3>5. PICK l \in 1..(k - 1) : Zip[l].name = d
      BY <3>4, <2>1, <1>2, ZipIsWellFormed
    <3>6. l = e
      BY <3>5, <1>2, <1>4, <2>1, ZipIsWellFormed
    <3>7. k \in (e + 1)..(pos - 1)
      BY <3>5, <3>6, <2>1, <1>4
    <3>8. QED
      BY <3>7, <2>1, <1>3, <1>4, <1>6
  <2>2. \A k \in 1..N : k < pos /\ k \notin overlooked' /\ Zip[k].name \in Names =>
          sd'[Zip[k].name] = sd[Zip[k].name] /\ sd'[Dest(k)] = sd[Dest(k)]
    BY <2>1, EntryType
  <2>3. QED
    BY <2>2, <1>1, <1>6, BehindStable DEF given
<1>11. Behind'
  <2>1. PICK q \in 1..N : q = pos
    BY <1>4
  <2>2. Covered(q)'
    <3>1. CASE e # pos \/ sd'[d] # Dir
      BY <3>1, <2>1, <1>2, <1>3, <1>6 DEF Covered
    <3>2. CASE e = pos /\ sd'[d] = Dir
      BY <3>2, <2>1, <1>2 DEF Covered, Settled
    <3>3. QED
      BY <3>1, <3>2
  <2>3. QED
    BY <2>1, <2>2, <1>5, <1>10, BehindNext
<1>12. Card'
  <2>1. \A p \in Protected : p \in Names /\ p # d /\ p \notin Below[BootLogo]
    BY <1>2, TempsAreBeside
  <2>2. QED
    BY <2>1, <1>2 DEF IInv, Card
<1>13. QED
  BY <1>8, <1>9, <1>11, <1>12 DEF IInv

\* What the opening of a destination, successful or not, does to the SD.
LEMMA OpenFacts ==
  ASSUME IInv, NEW e \in 0..N, OpenDest(e) \/ OpenDestFails(e)
  PROVE  /\ AtEntry(e) /\ e \in 1..N /\ Zip[e].name \in Names /\ ~Zip[e].dir
         /\ Name(e) = Zip[e].name /\ ~MustKeep(Zip[e].name)
         /\ overlooked' = overlooked \cup Confused(e)
         /\ UNCHANGED <<number_entry, i, pos, lost, copy_retry, ret, given, retries>>
         /\ \/ pc' = "copy" /\ sd' = [Cleared(Zip[e].name) EXCEPT ![Dest(e)] = Damaged]
            \/ pc' = "aborted" /\ sd' = Cleared(Zip[e].name)
<1>1. WantedFile(e)
  BY DEF OpenDest, OpenDestFails
<1>2. /\ AtEntry(e) /\ Name(e) # NoName /\ ~MustKeep(Name(e)) /\ ~Zip[e].dir
      /\ overlooked' = overlooked \cup Confused(e)
  BY <1>1 DEF WantedFile, Wanted, Overlook
<1>3. e \in 1..N /\ Name(e) = Zip[e].name
  BY <1>2, ZipIsWellFormed DEF Name, N
<1>4. Zip[e].name \in Names
  BY <1>2, <1>3, EntryType
<1>5. UNCHANGED <<number_entry, i, pos, lost, copy_retry, ret, given, retries>>
  BY DEF OpenDest, OpenDestFails
<1>6. \/ pc' = "copy" /\ sd' = [Cleared(Zip[e].name) EXCEPT ![Dest(e)] = Damaged]
      \/ pc' = "aborted" /\ sd' = Cleared(Zip[e].name)
  BY <1>3 DEF OpenDest, OpenDestFails
<1>7. QED
  BY <1>2, <1>3, <1>4, <1>5, <1>6

\* Opening the destination removes a directory of the entry's name first.
LEMMA OpenKeepsIInv ==
  ASSUME IInv, NEW e \in 0..N, OpenDest(e) \/ OpenDestFails(e)
  PROVE  IInv'
<1> DEFINE n == Zip[e].name
           s == Cleared(n)
<1>1. /\ AtEntry(e) /\ e \in 1..N /\ n \in Names /\ ~Zip[e].dir
      /\ overlooked' = overlooked \cup Confused(e)
      /\ UNCHANGED <<number_entry, i, pos, lost, copy_retry, ret, given, retries>>
      /\ \/ pc' = "copy" /\ sd' = [s EXCEPT ![Dest(e)] = Damaged]
         \/ pc' = "aborted" /\ sd' = s
  BY OpenFacts
<1>2. /\ pc = "entry" /\ i < number_entry /\ named' = e
      /\ e \in 0..pos /\ Confused(e) \subseteq 1..N
      /\ e # pos => e \in Confused(e)
  BY <1>1, NameFacts
<1>3. /\ N \in Nat /\ number_entry = N /\ pos \in 1..N /\ i \in 0..(N - 1) /\ retries \in 0..i
  BY <1>2, CursorFacts
<1>4. /\ Dest(e) \in Names /\ Dest(e) \notin Protected
      /\ \A k \in 1..N : k # e /\ Zip[k].name \in Names =>
           /\ Dest(k) \in Names \cap Needed /\ Zip[k].name \in Needed
           /\ {Zip[k].name, Dest(k)} \cap {n, Dest(e)} = {}
  BY <1>1, FileFacts
<1>5. /\ s \in [Names -> Nodes]
      /\ \A m \in Needed \cap Names : m # n => s[m] = sd[m]
      /\ sd[n] # Dir => s = sd
  BY <1>1, ClearedOthers DEF IInv
<1>6. sd' \in [Names -> Nodes]
  BY <1>1, <1>4, <1>5 DEF Nodes, Files
<1>7. overlooked \subseteq overlooked' /\ Confused(e) \subseteq overlooked'
      /\ overlooked' \subseteq 1..N
  BY <1>1, <1>2 DEF IInv, TypeOK
<1>8. Naming'
  BY <1>1, <1>7, NamingStep
<1>9. TypeOK'
  BY <1>1, <1>2, <1>6, <1>7 DEF IInv, TypeOK, given
<1>10. Control'
  <2>1. pc' = "copy" => sd'[Dest(e)] = Damaged
    BY <1>1, <1>4, <1>5
  <2>2. Dest(named)' = Dest(e)
    BY <1>2 DEF Dest
  <2>3. CursorLag'
    BY <1>1 DEF IInv, Control, CursorLag
  <2>4. QED
    BY <1>1, <1>2, <1>3, <1>8, <2>1, <2>2, <2>3 DEF IInv, Control
<1>11. \A m \in Needed \cap Names : m # n /\ m # Dest(e) => sd'[m] = sd[m]
  BY <1>1, <1>4, <1>5
<1>12. Behind'
  <2>1. \A k \in 1..N : k < pos /\ k \notin overlooked' /\ Zip[k].name \in Names =>
          sd'[Zip[k].name] = sd[Zip[k].name] /\ sd'[Dest(k)] = sd[Dest(k)]
    <3> SUFFICES ASSUME NEW k \in 1..N, k < pos, k \notin overlooked', Zip[k].name \in Names
                 PROVE  sd'[Zip[k].name] = sd[Zip[k].name] /\ sd'[Dest(k)] = sd[Dest(k)]
      OBVIOUS
    <3>1. k # e
      BY <1>2, <1>7
    <3>2. QED
      BY <3>1, <1>4, <1>11
  <2>2. \A k \in 1..(pos - 1) : Covered(k)'
    BY <2>1, <1>1, <1>7, BehindStable DEF given
  <2>3. QED
    BY <2>2, <1>1 DEF Behind
<1>13. Card'
  <2> SUFFICES ASSUME NEW p \in Protected PROVE sd'[p] # Dir
    BY DEF Card
  <2>1. p \in Needed \cap Names /\ p # Dest(e)
    BY <1>4, TempsAreBeside DEF Needed
  <2>2. sd[p] # Dir
    BY DEF IInv, Card
  <2>3. CASE p = n
    BY <2>1, <2>2, <2>3, <1>1, <1>5
  <2>4. CASE p # n
    BY <2>1, <2>2, <2>4, <1>11
  <2>5. QED
    BY <2>3, <2>4
<1>14. QED
  BY <1>9, <1>10, <1>12, <1>13 DEF IInv

\* The failures of a copy: the SD does not change, the cursor does not move.
LEMMA FailureKeepsIInv ==
  ASSUME IInv, ReadError \/ ShortWrite \/ MallocFails \/ VerifyDiffers
  PROVE  IInv'
<1>1. /\ pc \in {"copy", "verify"} /\ copy_retry \in 1..MaxTries
      /\ i < number_entry /\ ret = -1
      /\ UNCHANGED <<sd, given, number_entry, cursor, overlooked>>
  BY DEF ReadError, ShortWrite, MallocFails, VerifyDiffers, RetryOrGiveUp,
         IInv, Control, TypeOK, history, MaxTries
<1>2. /\ N \in Nat /\ number_entry = N /\ pos \in 1..N /\ pos <= i + 1
      /\ i \in 0..(N - 1) /\ retries \in 0..i
  BY <1>1, CursorFacts
<1>3. \/ RetryOrGiveUp
      \/ /\ pc' \in {"done", "aborted"} /\ ret' \in {-1, 1}
         /\ UNCHANGED <<i, copy_retry, retries>>
  BY <1>1 DEF ReadError, ShortWrite, MallocFails, VerifyDiffers, history
<1>4. Naming'
  BY <1>1, <1>3 DEF IInv, Control, Naming, cursor, RetryOrGiveUp
<1>5. TypeOK' /\ Control'
  <2>1. CASE RetryOrGiveUp
    <3>1. CursorLag'
      BY <2>1, <1>1, <1>2 DEF RetryOrGiveUp, IInv, TypeOK, Control, CursorLag, cursor
    <3>2. QED
      BY <2>1, <3>1, <1>1, <1>2, <1>4
         DEF RetryOrGiveUp, IInv, TypeOK, Control, CursorLag, MaxTries, cursor, given
  <2>2. CASE /\ pc' \in {"done", "aborted"} /\ ret' \in {-1, 1}
             /\ UNCHANGED <<i, copy_retry, retries>>
    BY <2>2, <1>1, <1>2, <1>4 DEF IInv, TypeOK, Control, CursorLag, cursor, given
  <2>3. QED
    BY <1>3, <2>1, <2>2
<1>6. Card' /\ Behind'
  BY <1>1 DEF IInv, Card, Behind, Covered, Settled, cursor, given
<1>7. QED
  BY <1>5, <1>6 DEF IInv

\* The successful end of a copy, or of its verification.
LEMMA CompletionKeepsIInv ==
  ASSUME IInv, CopyData \/ VerifySame
  PROVE  IInv'
<1> DEFINE n == Zip[named].name
<1>1. /\ pc \in {"copy", "verify"} /\ i < number_entry /\ copy_retry \in 1..MaxTries
      /\ ret = -1 /\ named \in 1..N /\ n \in Names /\ ~Zip[named].dir
      /\ UNCHANGED <<number_entry, named, ret, given, retries>>
      /\ \/ pc' = "verify" /\ UNCHANGED <<i, pos, lost, copy_retry>>
         \/ EntryDone
      /\ overlooked' \in {overlooked, overlooked \cup {pos}}
  BY DEF CopyData, VerifySame, IInv, Control, TypeOK, MaxTries, history, Overlook
<1>2. /\ N \in Nat /\ number_entry = N /\ pos \in 1..N /\ pos <= i + 1
      /\ i \in 0..(N - 1) /\ retries \in 0..i
  BY <1>1, CursorFacts
<1>3. /\ Dest(named) \in Names /\ Dest(named) \notin Protected
      /\ \A k \in 1..N : k # named /\ Zip[k].name \in Names =>
           /\ Dest(k) \in Names \cap Needed /\ Zip[k].name \in Needed
           /\ {Zip[k].name, Dest(k)} \cap {n, Dest(named)} = {}
  BY <1>1, FileFacts
<1>4. Zip[pos].data \in Contents
  BY <1>2, EntryType
<1>5. sd' = sd \/ sd' = [sd EXCEPT ![Dest(named)] = Zip[pos].data]
  BY DEF CopyData, VerifySame
<1>6. sd' \in [Names -> Nodes] /\ \A m \in Names : m # Dest(named) => sd'[m] = sd[m]
  BY <1>3, <1>4, <1>5 DEF IInv, TypeOK, Nodes, Files
<1>7. overlooked \subseteq overlooked' /\ overlooked' \subseteq 1..N
  BY <1>1, <1>2 DEF IInv, TypeOK
<1>8. /\ named <= pos /\ (named + 1)..(pos - 1) \subseteq overlooked
      /\ named # pos => named \in overlooked /\ pos \in overlooked
  BY <1>1 DEF IInv, Control, Naming
<1>9. TypeOK' /\ Control'
  <2>1. CASE pc' = "verify" /\ UNCHANGED <<i, pos, lost, copy_retry>>
    <3>1. Naming' /\ CursorLag'
      BY <2>1, <1>1, <1>7, <1>8 DEF Naming, IInv, Control, CursorLag
    <3>2. QED
      BY <2>1, <3>1, <1>1, <1>2, <1>6, <1>7 DEF IInv, TypeOK, Control, given
  <2>2. CASE EntryDone
    <3>1. /\ i' = i + 1 /\ i' \in 0..N
          /\ pos' \in {pos, pos + 1} /\ pos' \in 1..(N + 1)
          /\ lost' \in BOOLEAN /\ CursorLag'
      BY <2>2, <1>1, NextFacts DEF EntryDone
    <3>2. Naming'
      <4>1. named' = named /\ named \in Int /\ pos \in Int /\ pc' = "entry"
        BY <1>1, <1>2, <2>2 DEF EntryDone
      <4>2. named' <= pos'
        BY <4>1, <1>8, <3>1
      <4>3. ASSUME NEW k \in (named' + 1)..(pos' - 1) PROVE k \in overlooked'
        <5>0. k \in (named + 1)..(pos' - 1) /\ (pos' = pos \/ pos' = pos + 1)
          BY <4>1, <4>3, <3>1
        <5>1. k \in Int /\ named < k /\ k <= pos
          BY <4>1, <5>0
        <5>2. CASE k = pos
          BY <5>1, <5>2, <1>7, <1>8
        <5>3. CASE k # pos
          <6>1. k \in (named + 1)..(pos - 1)
            BY <5>1, <5>3, <4>1
          <6>2. QED
            BY <6>1, <1>7, <1>8
        <5>4. QED
          BY <5>2, <5>3
      <4>4. QED
        BY <4>1, <4>2, <4>3 DEF Naming
    <3>3. QED
      BY <2>2, <3>1, <3>2, <1>1, <1>2, <1>6, <1>7
         DEF IInv, TypeOK, Control, EntryDone, given, MaxTries
  <2>3. QED
    BY <1>1, <2>1, <2>2
<1>10. \A k \in 1..(pos - 1) : Covered(k)'
  <2>1. \A k \in 1..N : k < pos /\ k \notin overlooked' /\ Zip[k].name \in Names =>
          sd'[Zip[k].name] = sd[Zip[k].name] /\ sd'[Dest(k)] = sd[Dest(k)]
    <3> SUFFICES ASSUME NEW k \in 1..N, k < pos, k \notin overlooked', Zip[k].name \in Names
                 PROVE  sd'[Zip[k].name] = sd[Zip[k].name] /\ sd'[Dest(k)] = sd[Dest(k)]
      OBVIOUS
    <3>1. k # named
      BY <1>7, <1>8
    <3>2. QED
      BY <3>1, <1>3, <1>6
  <2>2. QED
    BY <2>1, <1>1, <1>7, BehindStable DEF given
<1>11. Behind'
  <2>1. CASE pc' = "verify" /\ UNCHANGED <<i, pos, lost, copy_retry>>
    BY <2>1, <1>10 DEF Behind
  <2>2. CASE EntryDone
    <3>1. PICK q \in 1..N : q = pos
      BY <1>2
    <3>2. \/ sd'[Dest(named)] = Zip[pos].data
          \/ ~verify /\ "silent" \in Faults /\ sd'[Dest(named)] = Damaged
          \/ pos \in overlooked'
      <4>1. CASE CopyData /\ verify
        BY <2>2, <4>1 DEF CopyData, EntryDone
      <4>2. CASE CopyData /\ ~verify
        BY <4>2, <1>3 DEF CopyData, IInv, TypeOK, Control
      <4>3. CASE VerifySame
        BY <4>3 DEF VerifySame, Overlook
      <4>4. QED
        BY <4>1, <4>2, <4>3
    <3>3. Covered(q)'
      <4>1. CASE named # pos
        BY <4>1, <3>1, <1>7, <1>8 DEF Covered
      <4>2. CASE named = pos
        <5>1. Dest(q) = Dest(named) /\ Zip[q] = Zip[named]
          BY <4>2, <3>1
        <5>2. verify' = verify
          BY <1>1 DEF given
        <5>3. CASE pos \in overlooked'
          BY <5>3, <3>1 DEF Covered
        <5>4. CASE pos \notin overlooked'
          BY <5>4, <5>1, <5>2, <3>1, <3>2, <4>2, <1>1 DEF Covered, Settled, Dest
        <5>5. QED
          BY <5>3, <5>4
      <4>3. QED
        BY <4>1, <4>2
    <3>4. pos' \in {pos, pos + 1}
      BY <2>2, <1>1, NextFacts DEF EntryDone
    <3>5. QED
      BY <3>1, <3>3, <3>4, <1>10, BehindNext
  <2>3. QED
    BY <1>1, <2>1, <2>2
<1>12. Card'
  BY <1>3, <1>6, TempsAreBeside DEF IInv, Card
<1>13. QED
  BY <1>9, <1>11, <1>12 DEF IInv

-----------------------------------------------------------------------------
\* IInv is an invariant of every extraction.
THEOREM Invariance == Spec => []IInv
<1>1. Init => IInv
  BY InitIInv
<1>2. IInv /\ [Next]_vars => IInv'
  <2> SUFFICES ASSUME IInv, [Next]_vars PROVE IInv'
    OBVIOUS
  <2>1. CASE OpenZip \/ LoopEnd \/ \E e \in 0..N : SkipEntry(e) \/ SkipIdentical(e)
    BY <2>1, WalkKeepsIInv
  <2>2. CASE \E e \in 0..N : MakeDirectory(e)
    BY <2>2, MakeDirectoryKeepsIInv
  <2>3. CASE \E e \in 0..N : OpenDest(e) \/ OpenDestFails(e)
    BY <2>3, OpenKeepsIInv
  <2>4. CASE CopyData \/ VerifySame
    BY <2>4, CompletionKeepsIInv
  <2>5. CASE ReadError \/ ShortWrite \/ MallocFails \/ VerifyDiffers
    BY <2>5, FailureKeepsIInv
  <2>6. CASE UNCHANGED vars
    BY <2>6 DEF vars, cursor, given, history, IInv, TypeOK, Control, CursorLag, Naming,
                Card, Behind, Covered, Settled, Dest
  <2>7. QED
    BY <2>1, <2>2, <2>3, <2>4, <2>5, <2>6 DEF Next, Walk, Copy
<1>3. QED
  BY <1>1, <1>2, PTL DEF Spec

\* Every variable of the extraction keeps its type, whatever fails.
THEOREM TypeCorrect == Spec => []TypeOK
<1>1. IInv => TypeOK
  BY DEF IInv
<1>2. QED
  BY <1>1, Invariance, PTL

\* The distance between the loop index and the zip cursor is the number of
\* copies started again, as long as minizip has not lost the entry.
THEOREM CursorLagHolds == Spec => []CursorLag
<1>1. IInv => CursorLag
  BY DEF IInv, Control
<1>2. QED
  BY <1>1, Invariance, PTL

\* When unzip() reports success for a readable archive, every entry is
\* installed except those at which a failure was overlooked, and, at worst, one
\* at the end for each copy started again or what follows a lost cursor.
THEOREM SuccessCoversHolds == Spec => []SuccessCovers
<1>1. IInv => SuccessCovers
  <2> SUFFICES ASSUME IInv, ret = 0, number_entry = N,
                      NEW k \in 1..(IF lost THEN pos - 1 ELSE N - retries)
               PROVE  Covered(k)
    BY DEF SuccessCovers, Covered
  <2>1. N \in Nat /\ i = N /\ pos \in Nat /\ retries \in Nat
    BY ZipIsWellFormed DEF N, IInv, TypeOK, Control
  <2>2. ~lost => N - retries = pos - 1
    BY <2>1 DEF IInv, Control, CursorLag
  <2>3. k \in 1..(pos - 1)
    BY <2>1, <2>2
  <2>4. QED
    BY <2>3 DEF IInv, Behind
<1>2. QED
  BY <1>1, Invariance, PTL

-----------------------------------------------------------------------------
\* The steps that change nothing on the SD.
LEMMA OnlyThese ==
  ASSUME [Next]_vars,
         ~CopyData,
         ~\E e \in 0..N : MakeDirectory(e) \/ OpenDest(e) \/ OpenDestFails(e)
  PROVE  sd' = sd
  BY DEF Next, Walk, Copy, OpenZip, LoopEnd, SkipEntry, SkipIdentical,
         ReadError, ShortWrite, MallocFails, VerifySame, VerifyDiffers, vars

\* No step touches a file the running system uses.
THEOREM RunningFilesUntouchedHolds == Spec => RunningFilesUntouched
<1>1. IInv /\ [Next]_vars => [\A p \in Protected : sd'[p] = sd[p]]_vars
  <2> SUFFICES ASSUME IInv, Next, NEW p \in Protected
               PROVE  sd'[p] = sd[p]
    BY DEF vars
  <2>0. p \in Needed \cap Names /\ p \notin Below[BootLogo] /\ sd[p] # Dir
    BY TempsAreBeside DEF Needed, IInv, Card
  <2>1. ASSUME NEW e \in 0..N, MakeDirectory(e) PROVE sd'[p] = sd[p]
    <3>1. /\ e \in 1..N /\ Zip[e].dir
          /\ \A m \in Names : m # Zip[e].name /\ sd'[m] # sd[m] => m \in Below[BootLogo]
      BY <2>1, MakeDirectoryFacts
    <3>2. p # Zip[e].name
      BY <3>1, TempsAreBeside
    <3>3. QED
      BY <3>1, <3>2, <2>0
  <2>2. ASSUME NEW e \in 0..N, OpenDest(e) \/ OpenDestFails(e) PROVE sd'[p] = sd[p]
    <3>1. /\ e \in 1..N /\ Zip[e].name \in Names /\ ~Zip[e].dir
          /\ \/ sd' = [Cleared(Zip[e].name) EXCEPT ![Dest(e)] = Damaged]
             \/ sd' = Cleared(Zip[e].name)
      BY <2>2, OpenFacts
    <3>2. p # Dest(e) /\ Dest(e) \in Names
      BY <3>1, FileFacts
    <3>3. /\ Cleared(Zip[e].name) \in [Names -> Nodes]
          /\ \A m \in Needed \cap Names :
               m # Zip[e].name => Cleared(Zip[e].name)[m] = sd[m]
          /\ sd[Zip[e].name] # Dir => Cleared(Zip[e].name) = sd
      BY <3>1, ClearedOthers DEF IInv
    <3>4. Cleared(Zip[e].name)[p] = sd[p]
      BY <3>3, <2>0
    <3>5. CASE sd' = Cleared(Zip[e].name)
      BY <3>4, <3>5
    <3>6. CASE sd' = [Cleared(Zip[e].name) EXCEPT ![Dest(e)] = Damaged]
      BY <3>2, <3>3, <3>4, <3>6, <2>0
    <3>7. QED
      BY <3>1, <3>5, <3>6
  <2>3. CASE CopyData
    <3>1. /\ named \in 1..N /\ Zip[named].name \in Names /\ ~Zip[named].dir
          /\ sd \in [Names -> Nodes]
      BY <2>3 DEF CopyData, IInv, Control, TypeOK
    <3>2. p # Dest(named) /\ Dest(named) \in Names
      BY <3>1, FileFacts
    <3>3. QED
      BY <2>3, <3>1, <3>2, <2>0 DEF CopyData
  <2>4. CASE /\ ~CopyData
             /\ ~\E e \in 0..N : MakeDirectory(e) \/ OpenDest(e) \/ OpenDestFails(e)
    BY <2>4, OnlyThese
  <2>5. QED
    BY <2>1, <2>2, <2>3, <2>4
<1>2. QED
  BY <1>1, Invariance, PTL DEF Spec, RunningFilesUntouched

-----------------------------------------------------------------------------
\* The strengthening of KeptUnlessExposed: no directory has come to stand where
\* the archive has a file, and a copy in progress is not of a kept file.
KeptInv ==
  /\ KeptUnlessExposed
  /\ \A k \in 1..N : ~Zip[k].dir /\ Zip[k].name \in Names /\ sd[Zip[k].name] = Dir =>
       sd0[Zip[k].name] = Dir
  /\ pc \in {"copy", "verify"} /\ KeepFiles /\ Zip[named].name \in Kept
       /\ sd0[Zip[named].name] \in Files => Exposed(Zip[named].name)

\* The SD at the start is not changed, nor what the extraction exposes.
LEMMA StartStays ==
  ASSUME [Next]_vars
  PROVE  sd0' = sd0 /\ \A n \in Names : Exposed(n)' <=> Exposed(n)
<1>1. sd0' = sd0
  BY DEF Next, Walk, Copy, OpenZip, LoopEnd, SkipEntry, SkipIdentical, MakeDirectory,
         OpenDest, OpenDestFails, CopyData, ReadError, ShortWrite, MallocFails,
         VerifySame, VerifyDiffers, RetryOrGiveUp, given, vars
<1>2. QED
  BY <1>1 DEF Exposed

\* A kept file that is not exposed survives the making of a directory ...
LEMMA KeptMakeDirectory ==
  ASSUME IInv, KeptInv, NEW e \in 0..N, MakeDirectory(e), KeepFiles,
         NEW n \in Kept, sd0[n] \in Files, ~Exposed(n)
  PROVE  sd'[n] = sd[n]
<1> DEFINE d == Zip[e].name
<1> SUFFICES ASSUME sd'[n] # sd[n] PROVE FALSE
  OBVIOUS
<1>1. /\ e \in 1..N /\ d \in Names /\ Zip[e].dir /\ ~MustKeep(d)
      /\ \A m \in Names : m # d /\ sd'[m] # sd[m] =>
           /\ d = BootLogo /\ sd[BootLogo] = Dir /\ m \in Below[BootLogo]
  BY MakeDirectoryFacts
<1>2. n \in Names /\ sd[n] \in Files /\ sd[n] # None
  BY CardIsATree, NodesAreDistinct DEF KeptInv, KeptUnlessExposed, Files
<1>3. n # d
  BY <1>1, <1>2 DEF MustKeep
<1>4. d = BootLogo /\ sd[d] = Dir /\ n \in Below[d]
  BY <1>1, <1>2, <1>3
<1>5. d \notin Kept
  BY <1>1, <1>4, NodesAreDistinct DEF MustKeep
<1>6. QED
  BY <1>1, <1>4, <1>5 DEF Exposed

\* ... and the opening of a destination.
LEMMA KeptOpen ==
  ASSUME IInv, KeptInv, NEW e \in 0..N, OpenDest(e) \/ OpenDestFails(e), KeepFiles,
         NEW n \in Kept, sd0[n] \in Files, ~Exposed(n)
  PROVE  sd'[n] = sd[n]
<1> DEFINE m == Zip[e].name
<1>1. /\ e \in 1..N /\ m \in Names /\ ~Zip[e].dir /\ ~MustKeep(m)
      /\ \/ sd' = [Cleared(m) EXCEPT ![Dest(e)] = Damaged]
         \/ sd' = Cleared(m)
  BY OpenFacts
<1>2. n \in Names /\ sd[n] \in Files /\ sd[n] # None /\ sd[n] # Dir
  BY CardIsATree, NodesAreDistinct DEF KeptInv, KeptUnlessExposed, Files
<1>3. n # m
  BY <1>1, <1>2 DEF MustKeep
<1>4. n # Dest(e)
  BY <1>3 DEF Dest, Exposed
<1>5. sd[m] = Dir => n \notin Below[m]
  <2> SUFFICES ASSUME sd[m] = Dir, n \in Below[m] PROVE FALSE
    OBVIOUS
  <2>1. m \notin Kept
    BY <1>1, NodesAreDistinct DEF MustKeep
  <2>2. sd0[m] = Dir
    BY <1>1 DEF KeptInv
  <2>3. QED
    BY <1>1, <2>1, <2>2 DEF Exposed
<1>6. Cleared(m)[n] = sd[n] /\ Cleared(m) \in [Names -> Nodes]
  BY <1>1, <1>2, <1>3, <1>5, ClearedOthers DEF Cleared, RemoveTree, IInv
<1>7. QED
  BY <1>1, <1>2, <1>4, <1>6

\* A kept file that is not exposed survives every step.
LEMMA KeptInvStep ==
  ASSUME IInv, KeptInv, [Next]_vars
  PROVE  KeptInv'
<1>1. sd0' = sd0 /\ \A n \in Names : Exposed(n)' <=> Exposed(n)
  BY StartStays
<1>2. ASSUME NEW n \in Kept, KeepFiles, sd0[n] \in Files, ~Exposed(n)
      PROVE  sd'[n] = sd[n]
  <2>1. CASE CopyData
    <3>1. /\ named \in 1..N /\ Zip[named].name \in Names /\ ~Zip[named].dir
          /\ sd \in [Names -> Nodes] /\ pc = "copy"
      BY <2>1 DEF CopyData, IInv, Control, TypeOK
    <3>2. n # Dest(named)
      BY <1>2, <3>1 DEF KeptInv, Exposed, Dest
    <3>3. QED
      BY <2>1, <3>1, <3>2, CardIsATree DEF CopyData
  <2>2. CASE /\ ~CopyData
             /\ ~\E e \in 0..N : MakeDirectory(e) \/ OpenDest(e) \/ OpenDestFails(e)
    BY <2>2, OnlyThese
  <2>3. QED
    BY <1>2, <2>1, <2>2, KeptMakeDirectory, KeptOpen
<1>3. KeptUnlessExposed'
  <2> SUFFICES ASSUME KeepFiles, NEW n \in Kept, sd0'[n] \in Files, ~Exposed(n)'
               PROVE  sd'[n] = sd0'[n]
    BY DEF KeptUnlessExposed
  <2>1. sd0[n] \in Files /\ ~Exposed(n)
    BY <1>1, CardIsATree
  <2>2. QED
    BY <2>1, <1>1, <1>2 DEF KeptInv, KeptUnlessExposed
<1>4. ASSUME NEW k \in 1..N, ~Zip[k].dir, Zip[k].name \in Names, sd'[Zip[k].name] = Dir
      PROVE  sd[Zip[k].name] = Dir
  <2> DEFINE n == Zip[k].name
  <2>1. ASSUME NEW e \in 0..N, MakeDirectory(e) PROVE sd[n] = Dir
    <3>1. /\ e \in 1..N /\ Zip[e].dir /\ Zip[e].name \in Names
          /\ \A m \in Names : m # Zip[e].name /\ sd'[m] # sd[m] => sd'[m] = None
      BY <2>1, MakeDirectoryFacts
    <3>2. n # Zip[e].name
      BY <3>1, <1>4, ZipIsWellFormed
    <3>3. QED
      BY <3>1, <3>2, <1>4, NodesAreDistinct
  <2>2. ASSUME NEW e \in 0..N, OpenDest(e) \/ OpenDestFails(e) PROVE sd[n] = Dir
    <3>1. /\ e \in 1..N /\ Zip[e].name \in Names /\ ~Zip[e].dir
          /\ \/ sd' = [Cleared(Zip[e].name) EXCEPT ![Dest(e)] = Damaged]
             \/ sd' = Cleared(Zip[e].name)
      BY <2>2, OpenFacts
    <3>2. Damaged # Dir /\ None # Dir
      BY NodesAreDistinct
    <3>3. Cleared(Zip[e].name) \in [Names -> Nodes]
          /\ (Cleared(Zip[e].name)[n] = sd[n] \/ Cleared(Zip[e].name)[n] = None)
      BY <3>1, <1>4 DEF Cleared, RemoveTree, IInv, TypeOK, Nodes
    <3>4. sd'[n] = Cleared(Zip[e].name)[n] \/ sd'[n] = Damaged
      BY <3>1, <3>3, <1>4
    <3>5. QED
      BY <3>2, <3>3, <3>4, <1>4
  <2>3. CASE CopyData
    <3>1. sd \in [Names -> Nodes] /\ pos \in 1..N
      BY <2>3, CursorFacts DEF CopyData, IInv, Control, TypeOK
    <3>2. Zip[pos].data # Dir
      BY <3>1, EntryType, NodesAreDistinct
    <3>3. QED
      BY <2>3, <3>1, <3>2, <1>4 DEF CopyData
  <2>4. CASE /\ ~CopyData
             /\ ~\E e \in 0..N : MakeDirectory(e) \/ OpenDest(e) \/ OpenDestFails(e)
    BY <2>4, <1>4, OnlyThese
  <2>5. QED
    BY <2>1, <2>2, <2>3, <2>4
<1>5. ASSUME pc' \in {"copy", "verify"}, KeepFiles, Zip[named'].name \in Kept,
             sd0[Zip[named'].name] \in Files
      PROVE  Exposed(Zip[named'].name)
  <2>1. CASE pc \in {"copy", "verify"} /\ named' = named
    BY <2>1, <1>5 DEF KeptInv
  <2>2. CASE ~(pc \in {"copy", "verify"} /\ named' = named)
    <3>1. PICK e \in 0..N : OpenDest(e)
      BY <1>5, <2>2 DEF Next, Walk, Copy, OpenZip, LoopEnd, SkipEntry, SkipIdentical,
           MakeDirectory, OpenDestFails, CopyData, ReadError, ShortWrite,
           MallocFails, VerifySame, VerifyDiffers, RetryOrGiveUp, EntryDone, AtEntry,
           Wanted, WantedFile, history, vars, cursor
    <3>2. AtEntry(e) /\ ~MustKeep(Zip[e].name)
      BY <3>1, OpenFacts
    <3>3. named' = e
      BY <3>2 DEF AtEntry
    <3>4. sd[Zip[e].name] = None
      BY <3>2, <3>3, <1>5 DEF MustKeep
    <3>5. QED
      BY <3>3, <3>4, <1>5, NodesAreDistinct DEF KeptInv, KeptUnlessExposed, Files
  <2>3. QED
    BY <2>1, <2>2
<1>6. \A k \in 1..N : ~Zip[k].dir /\ Zip[k].name \in Names /\ sd'[Zip[k].name] = Dir =>
        sd0'[Zip[k].name] = Dir
  BY <1>1, <1>4 DEF KeptInv
<1>7. pc' \in {"copy", "verify"} /\ KeepFiles /\ Zip[named'].name \in Kept
        /\ sd0'[Zip[named'].name] \in Files => Exposed(Zip[named].name)'
  BY <1>1, <1>5, CardIsATree DEF Exposed
<1>8. QED
  BY <1>3, <1>6, <1>7 DEF KeptInv

\* A file to keep that is not in a directory the extraction removes whole, nor a
\* ".temp" file, is left as it was, for every list of paths to keep.
THEOREM KeptUnlessExposedHolds == Spec => []KeptUnlessExposed
<1>1. Init => KeptInv
  BY DEF Init, KeptInv, KeptUnlessExposed
<1>2. IInv /\ KeptInv /\ [Next]_vars => KeptInv'
  BY KeptInvStep
<1>3. KeptInv => KeptUnlessExposed
  BY DEF KeptInv
<1>4. QED
  BY <1>1, <1>2, <1>3, Invariance, PTL DEF Spec

-----------------------------------------------------------------------------
(* How long an extraction can last. *)

\* The steps an extraction has left, at most: an entry takes three, the opening
\* of the file, the copy and the verification.
StepsLeft ==
  CASE pc = "open"   -> 3 * N + 2
    [] pc = "entry"  -> 3 * (number_entry - i) + 1
    [] pc = "copy"   -> 3 * (number_entry - i)
    [] pc = "verify" -> 3 * (number_entry - i) - 1
    [] OTHER         -> 0

\* The numbers StepsLeft is computed from.
LEMMA StepsFacts ==
  ASSUME IInv
  PROVE  /\ N \in Nat /\ number_entry \in Nat /\ number_entry <= N
         /\ i \in Nat /\ i <= number_entry
         /\ pc \in {"copy", "verify"} => i < number_entry
         /\ StepsLeft \in Nat
<1>1. N \in Nat
  BY ZipIsWellFormed DEF N
<1>2. number_entry \in Nat /\ number_entry <= N /\ i \in Nat /\ i <= number_entry
  BY <1>1 DEF IInv, TypeOK, Control
<1>3. pc \in {"copy", "verify"} => i < number_entry
  BY DEF IInv, Control
<1>4. pc \in {"open", "entry", "copy", "verify", "done", "aborted"}
  BY DEF IInv, TypeOK
<1>5. StepsLeft \in Nat
  BY <1>1, <1>2, <1>3, <1>4 DEF StepsLeft
<1>. QED
  BY <1>1, <1>2, <1>3, <1>5

\* A retry moves the loop index on, even though the cursor stays: it is one of
\* the steps that bring the end nearer.
LEMMA RetryComesNearer ==
  ASSUME IInv, pc \in {"copy", "verify"}, RetryOrGiveUp
  PROVE  StepsLeft' < StepsLeft
<1>1. /\ number_entry \in Nat /\ i \in Nat /\ i < number_entry
      /\ number_entry' = number_entry
  BY StepsFacts DEF RetryOrGiveUp
<1>2. CASE pc' = "entry" /\ i' = i + 1
  BY <1>1, <1>2 DEF StepsLeft
<1>3. CASE pc' = "done"
  BY <1>1, <1>3 DEF StepsLeft
<1>. QED
  BY <1>2, <1>3 DEF RetryOrGiveUp

\* Every step brings the end nearer.
LEMMA StepComesNearer ==
  ASSUME IInv, Next
  PROVE  StepsLeft' < StepsLeft
<1>. USE StepsFacts
<1>1. CASE OpenZip
  <2>1. number_entry' \in {0, N} /\ pc' = "entry" /\ i' = i /\ i = 0
    BY <1>1 DEF OpenZip, IInv, Control
  <2>2. StepsLeft = 3 * N + 2
    BY <1>1 DEF OpenZip, StepsLeft
  <2>. QED
    BY <2>1, <2>2 DEF StepsLeft
<1>2. CASE LoopEnd
  BY <1>2 DEF LoopEnd, StepsLeft
<1>3. CASE \E e \in 0..N : SkipEntry(e) \/ MakeDirectory(e) \/ SkipIdentical(e)
  <2>1. /\ pc = "entry" /\ pc' = "entry" /\ i' = i + 1
        /\ number_entry' = number_entry
    BY <1>3 DEF SkipEntry, MakeDirectory, SkipIdentical, Wanted, AtEntry, NextEntry
  <2>. QED
    BY <2>1 DEF StepsLeft
<1>4. CASE \E e \in 0..N : OpenDest(e)
  BY <1>4 DEF OpenDest, WantedFile, Wanted, AtEntry, StepsLeft
<1>5. CASE \E e \in 0..N : OpenDestFails(e)
  BY <1>5 DEF OpenDestFails, WantedFile, Wanted, AtEntry, StepsLeft
<1>6. CASE CopyData
  <2>1. /\ pc = "copy" /\ number_entry' = number_entry
        /\ \/ pc' = "verify" /\ i' = i
           \/ pc' = "entry" /\ i' = i + 1
    BY <1>6 DEF CopyData, EntryDone, NextEntry
  <2>. QED
    BY <2>1 DEF StepsLeft
<1>7. CASE VerifySame
  <2>1. /\ pc = "verify" /\ number_entry' = number_entry
        /\ pc' = "entry" /\ i' = i + 1
    BY <1>7 DEF VerifySame, EntryDone, NextEntry
  <2>. QED
    BY <2>1 DEF StepsLeft
<1>8. CASE ReadError \/ VerifyDiffers
  BY <1>8, RetryComesNearer DEF ReadError, VerifyDiffers
<1>9. CASE ShortWrite
  <2>1. CASE RetryOrGiveUp
    BY <1>9, <2>1, RetryComesNearer DEF ShortWrite
  <2>2. CASE pc' = "aborted"
    BY <1>9, <2>2 DEF ShortWrite, StepsLeft
  <2>. QED
    BY <1>9, <2>1, <2>2 DEF ShortWrite
<1>10. CASE MallocFails
  BY <1>10 DEF MallocFails, StepsLeft
<1>. QED
  BY <1>1, <1>2, <1>3, <1>4, <1>5, <1>6, <1>7, <1>8, <1>9, <1>10 DEF Next, Walk, Copy

\* An extraction of an archive of N entries takes at most 3N + 2 steps, whatever
\* fails: the retries of unzip.cpp:745 and 805 cannot make it last longer,
\* because each takes an entry off the end of the archive.
THEOREM AtMostThreeStepsAnEntry ==
  Spec => [](StepsLeft \in 0..(3 * N + 2)) /\ [][StepsLeft' < StepsLeft]_vars
<1>1. IInv => StepsLeft \in 0..(3 * N + 2)
  <2> SUFFICES ASSUME IInv PROVE StepsLeft <= 3 * N + 2
    BY StepsFacts
  <2>. QED
    BY StepsFacts DEF StepsLeft
<1>2. IInv /\ [Next]_vars => [StepsLeft' < StepsLeft]_vars
  BY StepComesNearer
<1>. QED
  BY <1>1, <1>2, Invariance, PTL DEF Spec
=============================================================================
