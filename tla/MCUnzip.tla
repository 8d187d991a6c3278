------------------------------ MODULE MCUnzip -------------------------------
(***************************************************************************)
(* A small SD card for Unzip: a configuration file to keep, the boot logo  *)
(* directory with a file of another pack in it, a protected file, and a    *)
(* plain file in whose place the card may have a directory.  Files to keep *)
(* are also in the boot logo directory and in that directory, where the    *)
(* extraction does not look for them.                                      *)
(***************************************************************************)
EXTENDS Unzip

MCNames == {"ini", "logo", "logo/new", "logo/old", "package3",
            "package3.temp", "boot", "boot/x"}

MCBelow == [n \in MCNames |->
  CASE n = "logo"   -> {"logo/new", "logo/old"}
    [] n = "boot"   -> {"boot/x"}
    [] OTHER        -> {}]

D(n) == [name |-> n, dir |-> TRUE, data |-> "new"]
F(n) == [name |-> n, dir |-> FALSE, data |-> "new"]

\* The plain file comes early, so that the retries of one entry can run out
\* before the loop index reaches the end.
MCZip == <<D(""), F("boot"), F("ini"), D("logo"), F("logo/new"), F("package3")>>

MCTempOf == [p \in {"package3"} |-> "package3.temp"]

\* The cards the extraction starts from: every tree over these choices.
MCInitialSD ==
  LET Card(a, l, p, t, b) ==
        [n \in MCNames |->
          CASE n = "ini"           -> a
            [] n = "logo"          -> l
            [] n = "logo/new"      -> IF l = Dir THEN "old" ELSE None
            [] n = "logo/old"      -> IF l = Dir THEN "old" ELSE None
            [] n = "package3"      -> p
            [] n = "package3.temp" -> t
            [] n = "boot"          -> b
            [] n = "boot/x"        -> IF b = Dir THEN "old" ELSE None]
  IN {Card(a, l, p, t, b) :
        a \in {None, "old"}, l \in {None, "old", Dir}, p \in {"old", "new"},
        t \in {None, Damaged}, b \in {None, "old", "new", Dir}}
=============================================================================
