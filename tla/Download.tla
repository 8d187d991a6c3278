-------------------------------- MODULE Download -------------------------------
(***************************************************************************)
(* downloadFile: libcurl hands over the file in blocks, the callback       *)
(* gathers them in a buffer and writes the buffer when a block does not    *)
(* fit, and what is left is written at the end.                            *)
(*                                                                         *)
(* source/download.cpp.  A byte is its position in the file of the server. *)
(* A write can be short, the disk full; the transfer can stop anywhere.    *)
(***************************************************************************)
EXTENDS Naturals, Sequences

CONSTANTS
  Length,   \* the bytes of the file of the server
  Size,     \* the bytes of the buffer, _1MO
  MaxBlock, \* the longest block
  Cache     \* what the C library keeps of a stream until it is closed

VARIABLES
  pc,   \* "idle", "perform", "last", "close"
  sent, \* the bytes handed over
  data, \* the buffer: data[1..offset]
  nul,  \* the place of the zero after them
  out,  \* what was written to the stream
  res,  \* curl_easy_perform returned CURLE_OK
  told, \* what downloadFile returned
  hole  \* history: a write whose result is not looked at was short

vars == <<pc, sent, data, nul, out, res, told, hole>>

-----------------------------------------------------------------------------
ASSUME Sizes == Length \in Nat /\ Size \in Nat \ {0} /\ MaxBlock \in Nat \ {0} /\ Cache \in Nat

Positions == 1..Length
Block(n) == [i \in 1..n |-> sent + i]

\* The results of a write: all, or a part of it.
Writes(q) == {SubSeq(q, 1, n) : n \in 0..Len(q)}

\* What the memory allocated, data_size + 1, has room for.
TypeOK ==
  /\ pc \in {"idle", "perform", "last", "close"}
  /\ sent \in 0..Length
  /\ data \in Seq(Positions) /\ Len(data) <= Size
  /\ nul \in 0..Size
  /\ out \in Seq(Positions)
  /\ res \in BOOLEAN /\ hole \in BOOLEAN
  /\ told \in {"nothing", "success", "failure"}

Init ==
  /\ pc = "idle"
  /\ sent = 0 /\ data = << >> /\ nul = 0 /\ out = << >>
  /\ res = FALSE /\ hole = FALSE
  /\ told = "nothing"

-----------------------------------------------------------------------------
\* A file that could not be opened is not touched.
Start ==
  /\ pc = "idle"
  /\ \/ /\ pc' = "perform" /\ told' = "nothing"
        /\ sent' = 0 /\ data' = << >> /\ nul' = 0 /\ out' = << >>
        /\ res' = FALSE /\ hole' = FALSE
     \/ /\ told' = "failure"
        /\ UNCHANGED <<pc, sent, data, nul, out, res, hole>>

\* A block as long as the buffer goes past it.
Direct(n) ==
  /\ n >= Size
  /\ \E a \in Writes(data), b \in Writes(Block(n)) :
       /\ out' = out \o a \o b
       /\ hole' = (hole \/ a # data \/ b # Block(n))
  /\ data' = << >>
  /\ nul' = nul

\* Mutant of Gather: the zero is counted in the buffer, not beside it.
GatherTight(n) ==
  /\ n < Size /\ Len(data) + n <= Size + 1
  /\ data' = data \o Block(n)
  /\ nul' = Len(data) + n
  /\ UNCHANGED <<out, hole>>

\* Mutant of FlushFirst: the buffer is written and kept.
FlushKeeps(n) ==
  /\ n < Size /\ Len(data) + n > Size
  /\ \E a \in Writes(data) : out' = out \o a /\ hole' = (hole \/ a # data)
  /\ data' = SubSeq(data \o Block(n), 1, Size)
  /\ nul' = Len(data')

\* A block that does not fit: the buffer is written, and emptied in any case.
FlushFirst(n) ==
  /\ n < Size /\ Len(data) + n > Size
  /\ \E a \in Writes(data) : out' = out \o a /\ hole' = (hole \/ a # data)
  /\ data' = Block(n)
  /\ nul' = n

Gather(n) ==
  /\ n < Size /\ Len(data) + n <= Size
  /\ data' = data \o Block(n)
  /\ nul' = Len(data) + n
  /\ UNCHANGED <<out, hole>>

\* WriteMemoryCallback; it takes the whole block, whatever became of it.
Callback ==
  /\ pc = "perform"
  /\ \E n \in 1..MaxBlock :
       /\ sent + n <= Length
       /\ sent' = sent + n
       /\ Direct(n) \/ FlushFirst(n) \/ Gather(n)
  /\ UNCHANGED <<pc, res, told>>

\* Mutant of Performed: a transfer that stops early is as good.
PerformedEarly ==
  /\ pc = "perform"
  /\ res' = TRUE
  /\ pc' = "last"
  /\ UNCHANGED <<sent, data, nul, out, told, hole>>

\* curl_easy_perform returns: all was handed over, or the transfer stopped, as
\* it does at once when the buffer could not be allocated.
Performed ==
  /\ pc = "perform"
  /\ res' \in {FALSE, sent = Length}
  /\ pc' = "last"
  /\ UNCHANGED <<sent, data, nul, out, told, hole>>

\* The last write, whose result is looked at even if the transfer stopped.
LastWrite ==
  /\ pc = "last"
  /\ \E a \in Writes(data) :
       /\ out' = out \o a
       /\ IF a = data THEN pc' = "close" /\ UNCHANGED told
                      ELSE pc' = "idle" /\ told' = "failure"
  /\ UNCHANGED <<sent, data, nul, res, hole>>

\* The stream is closed, and what the library kept of it can be lost unseen.
Close ==
  /\ pc = "close"
  /\ \E n \in 0..Cache :
       /\ n <= Len(out)
       /\ out' = SubSeq(out, 1, Len(out) - n)
       /\ hole' = (hole \/ n > 0)
  /\ told' = IF res THEN "success" ELSE "failure"
  /\ pc' = "idle"
  /\ UNCHANGED <<sent, data, nul, res>>

Next == Start \/ Callback \/ Performed \/ LastWrite \/ Close

Spec == Init /\ [][Next]_vars

-----------------------------------------------------------------------------
\* As long as every write was whole, the file and the buffer hold together what
\* was received, nothing twice and nothing missing, whatever the blocks
\* (download.cpp:30-61).
NothingSkipped ==
  pc \in {"perform", "last"} /\ ~hole => out \o data = [i \in 1..sent |-> i]

\* A success that no write contradicts is the file of the server, from a file
\* emptied first (download.cpp:180-240).
SuccessMeansWhole ==
  told = "success" /\ ~hole => out = [i \in Positions |-> i]

================================================================================
