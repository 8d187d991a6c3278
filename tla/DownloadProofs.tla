---------------------------- MODULE DownloadProofs -----------------------------
(***************************************************************************)
(* What downloadFile leaves in the file, for every length of the file,     *)
(* size of the buffer and cutting of the transfer into blocks.             *)
(***************************************************************************)
EXTENDS Download, SequenceTheorems, TLAPS

\* The first n bytes of the file of the server.
Up(n) == [i \in 1..n |-> i]

\* What is received is in the file and in the buffer, and a transfer that counts
\* as complete was.
Whole ==
  /\ pc \in {"perform", "last"} /\ ~hole => out \o data = Up(sent)
  /\ pc = "close" /\ ~hole => out = Up(sent)
  /\ pc \in {"last", "close"} /\ res => sent = Length
  /\ told = "success" => pc = "idle"
  /\ told = "success" /\ ~hole => out = Up(Length)

IInv == TypeOK /\ Whole

-----------------------------------------------------------------------------
\* A write stores a beginning of what it is given.
LEMMA WritesAreSequences ==
  ASSUME NEW S, NEW q \in Seq(S), NEW a \in Writes(q)
  PROVE  a \in Seq(S) /\ Len(a) <= Len(q)
<1>1. PICK n \in 0..Len(q) : a = SubSeq(q, 1, n)
  BY DEF Writes
<1>2. Len(q) \in Nat
  BY LenProperties
<1> QED
  BY <1>1, <1>2, SubSeqProperties

\* A block is a sequence of positions, the next ones.
LEMMA BlockIsNext ==
  ASSUME NEW n \in Nat, sent \in Nat, sent + n <= Length, Length \in Nat
  PROVE  /\ Block(n) \in Seq(Positions) /\ Len(Block(n)) = n
         /\ Up(sent) \in Seq(Nat) /\ Block(n) \in Seq(Nat)
         /\ Up(sent) \o Block(n) = Up(sent + n)
<1>1. /\ Block(n) \in Seq(Positions) /\ Len(Block(n)) = n
      /\ Up(sent) \in Seq(Nat) /\ Len(Up(sent)) = sent
      /\ Block(n) \in Seq(Nat)
      /\ Up(sent + n) \in Seq(Nat) /\ Len(Up(sent + n)) = sent + n
  BY DEF Block, Positions, Up
<1>2. ASSUME NEW i \in 1..(sent + n)
      PROVE  (Up(sent) \o Block(n))[i] = Up(sent + n)[i]
  BY <1>1 DEF Up, Block
<1>3. /\ Up(sent) \o Block(n) \in Seq(Nat)
      /\ Len(Up(sent) \o Block(n)) = sent + n
  BY <1>1
<1> QED
  BY <1>1, <1>2, <1>3, SeqEqual

LEMMA Regroup ==
  ASSUME NEW a \in Seq(Positions), NEW b \in Seq(Positions), NEW c \in Seq(Positions)
  PROVE  (a \o b) \o c = a \o (b \o c)
<1>1. /\ a \o b \in Seq(Positions) /\ b \o c \in Seq(Positions)
      /\ (a \o b) \o c \in Seq(Positions) /\ a \o (b \o c) \in Seq(Positions)
  BY ConcatProperties
<1>2. Len((a \o b) \o c) = Len(a \o (b \o c))
  BY <1>1, ConcatProperties, LenProperties
<1>3. ASSUME NEW i \in 1..Len((a \o b) \o c)
      PROVE  ((a \o b) \o c)[i] = (a \o (b \o c))[i]
  BY <1>1, ConcatProperties, LenProperties
<1> QED
  BY <1>1, <1>2, <1>3, SeqEqual

\* A block that follows what was received makes what is received then.
LEMMA Received ==
  ASSUME NEW n \in Nat, sent \in Nat, Length \in Nat, sent + n <= Length,
         NEW a \in Seq(Positions), NEW b \in Seq(Positions), a \o b = Up(sent)
  PROVE  /\ a \o (b \o Block(n)) = Up(sent + n)
         /\ (a \o b) \o Block(n) = Up(sent + n)
         /\ a \o b \in Seq(Positions) /\ b \o Block(n) \in Seq(Positions)
<1>1. Block(n) \in Seq(Positions) /\ Up(sent) \o Block(n) = Up(sent + n)
  BY BlockIsNext
<1>2. ASSUME NEW c \in Seq(Positions)
      PROVE  (a \o b) \o c = a \o (b \o c)
  BY Regroup
<1> QED
  BY <1>1, <1>2, ConcatProperties

-----------------------------------------------------------------------------
LEMMA Empty == << >> \in Seq(Positions) /\ Len(<< >>) = 0
BY EmptySeq, Zenon

LEMMA InitIInv == Init => IInv
<1> SUFFICES ASSUME Init PROVE IInv
  OBVIOUS
<1>0. data \in Seq(Positions) /\ Len(data) = 0 /\ out \in Seq(Positions)
  BY Empty, Zenon DEF Init
<1>1. /\ pc = "idle" /\ sent = 0 /\ nul = 0 /\ ~res /\ ~hole
      /\ res \in BOOLEAN /\ hole \in BOOLEAN /\ told = "nothing"
  BY DEF Init
<1>3. TypeOK
  BY <1>0, <1>1, Sizes DEF TypeOK, Sizes
<1>2. Whole
  BY DEF Init, Whole
<1> QED
  BY <1>2, <1>3 DEF IInv

LEMMA StartStep ==
  ASSUME IInv, Start
  PROVE  IInv'
<1>1. CASE told' = "failure" /\ UNCHANGED <<pc, sent, data, nul, out, res, hole>>
  BY <1>1 DEF IInv, TypeOK, Whole, Up
<1>2. CASE /\ pc' = "perform" /\ told' = "nothing"
           /\ sent' = 0 /\ data' = << >> /\ nul' = 0 /\ out' = << >>
           /\ res' = FALSE /\ hole' = FALSE
  <2>1. << >> \in Seq(Nat) /\ << >> \o << >> = << >>
    BY EmptySeq, ConcatEmptySeq
  <2>2. Up(0) = << >>
    BY DEF Up
  <2>0. data' \in Seq(Positions) /\ Len(data') = 0 /\ out' \in Seq(Positions)
    BY <1>2, Empty, Zenon
  <2>5. /\ pc' = "perform" /\ sent' = 0 /\ nul' = 0
        /\ res' \in BOOLEAN /\ hole' \in BOOLEAN /\ told' = "nothing"
    BY <1>2
  <2>3. TypeOK'
    BY <2>0, <2>5, Sizes DEF TypeOK, Sizes, Positions
  <2>4. Whole'
    BY <1>2, <2>1, <2>2 DEF Whole, Up
  <2> QED
    BY <2>3, <2>4 DEF IInv
<1> QED
  BY <1>1, <1>2 DEF Start

\* What one block does to the file and to the buffer.
LEMMA BlockStep ==
  ASSUME IInv, pc = "perform", NEW n \in 1..MaxBlock, sent + n <= Length,
         Direct(n) \/ FlushFirst(n) \/ Gather(n)
  PROVE  /\ data' \in Seq(Positions) /\ Len(data') <= Size /\ nul' \in 0..Size
         /\ out' \in Seq(Positions) /\ hole' \in BOOLEAN
         /\ ~hole' => out' \o data' = Up(sent + n)
<1>1. /\ sent \in Nat /\ Length \in Nat /\ Size \in Nat \ {0} /\ n \in Nat /\ hole \in BOOLEAN
      /\ data \in Seq(Positions) /\ Len(data) <= Size /\ nul \in 0..Size
      /\ out \in Seq(Positions)
      /\ ~hole => out \o data = Up(sent)
  BY Sizes DEF IInv, TypeOK, Whole, Sizes
<1>2. Block(n) \in Seq(Positions) /\ Len(Block(n)) = n
  BY <1>1, BlockIsNext
<1>3. CASE Direct(n)
  <2>1. PICK a \in Writes(data), b \in Writes(Block(n)) :
          out' = out \o a \o b /\ hole' = (hole \/ a # data \/ b # Block(n))
    BY <1>3 DEF Direct
  <2>2. a \in Seq(Positions) /\ b \in Seq(Positions)
    BY <1>1, <1>2, WritesAreSequences
  <2>3. out \o a \in Seq(Positions) /\ out' \in Seq(Positions)
    BY <1>1, <2>1, <2>2, ConcatProperties
  <2>4. data' = << >> /\ nul' = nul /\ out' \o data' = out'
    BY <1>3, <2>3, ConcatEmptySeq DEF Direct
  <2>5. ASSUME ~hole' PROVE out' \o data' = Up(sent + n)
    <3>1. ~hole /\ a = data /\ b = Block(n)
      BY <2>1, <2>5
    <3> QED
      BY <1>1, <2>1, <2>4, <3>1, Received
  <2> QED
    BY <1>1, <2>1, <2>3, <2>4, <2>5, Empty
<1>4. CASE FlushFirst(n)
  <2>1. PICK a \in Writes(data) : out' = out \o a /\ hole' = (hole \/ a # data)
    BY <1>4 DEF FlushFirst
  <2>2. a \in Seq(Positions) /\ out' \in Seq(Positions)
    BY <1>1, <2>1, WritesAreSequences, ConcatProperties
  <2>3. n < Size /\ data' = Block(n) /\ nul' = n
    BY <1>4 DEF FlushFirst
  <2>4. ASSUME ~hole' PROVE out' \o data' = Up(sent + n)
    <3>1. ~hole /\ a = data
      BY <2>1, <2>4
    <3> QED
      BY <1>1, <2>1, <2>3, <3>1, Received
  <2>5. hole' \in BOOLEAN
    BY <2>1
  <2> QED
    BY <1>1, <1>2, <2>2, <2>3, <2>4, <2>5
<1>5. CASE Gather(n)
  <2>1. /\ Len(data) + n <= Size /\ data' = data \o Block(n) /\ nul' = Len(data) + n
        /\ out' = out /\ hole' = hole
    BY <1>5 DEF Gather
  <2>2. data' \in Seq(Positions) /\ Len(data') = Len(data) + n /\ Len(data) \in Nat
    BY <1>1, <1>2, <2>1, ConcatProperties, LenProperties
  <2>3. ~hole => out \o (data \o Block(n)) = Up(sent + n)
    BY <1>1, Received
  <2>4. ~hole' => out' \o data' = Up(sent + n)
    BY <2>1, <2>3
  <2>5. Len(data') <= Size /\ nul' \in 0..Size
    BY <1>1, <2>1, <2>2
  <2>6. out' \in Seq(Positions) /\ hole' \in BOOLEAN
    BY <1>1, <2>1, Zenon
  <2> QED
    BY <2>2, <2>4, <2>5, <2>6, Zenon
<1> QED
  BY <1>3, <1>4, <1>5

LEMMA CallbackStep ==
  ASSUME IInv, Callback
  PROVE  IInv'
<1>1. PICK n \in 1..MaxBlock :
        sent + n <= Length /\ sent' = sent + n /\ (Direct(n) \/ FlushFirst(n) \/ Gather(n))
  BY DEF Callback
<1>2. /\ pc = "perform" /\ pc' = "perform" /\ res' = res /\ told' = told
  BY DEF Callback
<1>3. /\ data' \in Seq(Positions) /\ Len(data') <= Size /\ nul' \in 0..Size
      /\ out' \in Seq(Positions) /\ hole' \in BOOLEAN
      /\ ~hole' => out' \o data' = Up(sent + n)
  BY <1>1, <1>2, BlockStep
<1>4. TypeOK'
  BY <1>1, <1>2, <1>3, Sizes DEF IInv, TypeOK, Sizes, Positions
<1>5. Whole'
  <2>1. told' # "success"
    BY <1>2 DEF IInv, Whole
  <2> QED
    BY <1>1, <1>2, <1>3, <2>1 DEF Whole, Up
<1> QED
  BY <1>4, <1>5 DEF IInv

LEMMA PerformedStep ==
  ASSUME IInv, Performed
  PROVE  IInv'
BY DEF IInv, TypeOK, Whole, Up, Performed, Positions

LEMMA LastWriteStep ==
  ASSUME IInv, LastWrite
  PROVE  IInv'
<1>1. PICK a \in Writes(data) :
        /\ out' = out \o a
        /\ IF a = data THEN pc' = "close" /\ UNCHANGED told
                       ELSE pc' = "idle" /\ told' = "failure"
  BY DEF LastWrite
<1>2. /\ data \in Seq(Positions) /\ out \in Seq(Positions)
      /\ pc = "last" /\ told # "success"
      /\ UNCHANGED <<sent, data, nul, res, hole>>
  BY DEF IInv, TypeOK, Whole, LastWrite
<1>3. out' \in Seq(Positions)
  BY <1>1, <1>2, WritesAreSequences, ConcatProperties
<1>4. TypeOK'
  BY <1>1, <1>2, <1>3 DEF IInv, TypeOK, Positions
<1>5. Whole'
  BY <1>1, <1>2 DEF IInv, Whole, Up
<1> QED
  BY <1>4, <1>5 DEF IInv

LEMMA CloseStep ==
  ASSUME IInv, Close
  PROVE  IInv'
<1>1. PICK n \in 0..Cache :
        n <= Len(out) /\ out' = SubSeq(out, 1, Len(out) - n) /\ hole' = (hole \/ n > 0)
  BY DEF Close
<1>2. /\ out \in Seq(Positions) /\ pc = "close" /\ pc' = "idle"
      /\ told' = IF res THEN "success" ELSE "failure"
      /\ UNCHANGED <<sent, data, nul, res>>
  BY DEF IInv, TypeOK, Close
<1>3. n \in Nat /\ Len(out) \in Nat
  BY <1>2, Sizes, LenProperties DEF Sizes
<1>4. out' \in Seq(Positions)
  <2>1. \A i \in 1..(Len(out) - n) : out[i] \in Positions
    BY <1>2, <1>3, ElementOfSeq
  <2> QED
    BY <1>1, <1>2, <1>3, <2>1, SubSeqProperties
<1>5. TypeOK'
  BY <1>1, <1>2, <1>4 DEF IInv, TypeOK, Positions
<1>6. ASSUME ~hole' PROVE ~hole /\ out' = out
  <2>1. ~hole /\ ~(n > 0)
    BY <1>1, <1>6, Zenon
  <2>2. n = 0
    BY <1>3, <2>1
  <2> QED
    BY <1>1, <1>2, <1>3, <2>1, <2>2, SubSeqFull
<1>7. Whole'
  BY <1>2, <1>6 DEF IInv, Whole, Up
<1> QED
  BY <1>5, <1>7 DEF IInv

LEMMA NextIInv == IInv /\ [Next]_vars => IInv'
<1> SUFFICES ASSUME IInv, [Next]_vars PROVE IInv'
  OBVIOUS
<1>1. CASE UNCHANGED vars
  BY <1>1 DEF IInv, TypeOK, Whole, Up, Positions, vars
<1> QED
  BY <1>1, StartStep, CallbackStep, PerformedStep, LastWriteStep, CloseStep DEF Next

LEMMA Invariance == Spec => []IInv
BY InitIInv, NextIInv, PTL DEF Spec

-----------------------------------------------------------------------------
\* The buffer and its final zero stay inside what was allocated, whatever the
\* lengths of the blocks (download.cpp:30-61).
THEOREM TypeCorrect == Spec => []TypeOK
<1>1. IInv => TypeOK
  BY DEF IInv
<1> QED
  BY <1>1, Invariance, PTL

\* What was received is in the file and in the buffer, in order, once
\* (download.cpp:30-61).
THEOREM NothingSkippedHolds == Spec => []NothingSkipped
<1>1. IInv => NothingSkipped
  BY DEF IInv, Whole, NothingSkipped, Up
<1> QED
  BY <1>1, Invariance, PTL

\* A success leaves the file of the server, unless a write whose result is not
\* looked at was short (download.cpp:180-240).
THEOREM SuccessMeansWholeHolds == Spec => []SuccessMeansWhole
<1>1. IInv => SuccessMeansWhole
  BY DEF IInv, Whole, SuccessMeansWhole, Up, Positions
<1> QED
  BY <1>1, Invariance, PTL
=============================================================================
