-------------------------------- MODULE Swap --------------------------------
(***************************************************************************)
(* What the replacement of a file in use promises: the new contents are    *)
(* staged beside the file, and from one moment to the next the file has    *)
(* them.  At no moment is there no file, and nothing that was not staged   *)
(* is ever found in its place.  Handover is shown to implement it.         *)
(***************************************************************************)
CONSTANTS
  Slots,    \* the files replaced this way
  Contents, \* what a file may hold
  None      \* nothing is staged

VARIABLES
  held,     \* the contents each file has, or can be given back
  staged    \* the contents each file is to get

TypeOK ==
  /\ held \in [Slots -> Contents]
  /\ staged \in [Slots -> Contents \cup {None}]

Init ==
  /\ held \in [Slots -> Contents]
  /\ staged = [s \in Slots |-> None]

Stage(s, c) ==
  /\ staged' = [staged EXCEPT ![s] = c]
  /\ UNCHANGED held

Commit(s) ==
  /\ staged[s] # None
  /\ held' = [held EXCEPT ![s] = staged[s]]
  /\ staged' = [staged EXCEPT ![s] = None]

Next == \E s \in Slots : Commit(s) \/ \E c \in Contents : Stage(s, c)

Spec == Init /\ [][Next]_<<held, staged>>
=============================================================================
