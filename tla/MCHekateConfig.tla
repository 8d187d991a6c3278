----------------------------- MODULE MCHekateConfig ----------------------------
(* HekateConfig for TLC: files with the keys in different places, lines that
   continue a key, a line that inih refuses, no keys of the autoboot, no entries, or
   no last newline; entries without keys. *)
EXTENDS HekateConfig

L(is, name, value) == [is |-> is, name |-> name, value |-> value, indent |-> FALSE]
Section(name) == L("section", name, 0)
Auto(n) == L("autoboot", "", n)
List(n) == L("list", "", n)
Key == L("key", "", 0)
Other == L("other", "", 0)
Text(n) == L("text", "", n)
Indented(line) == [line EXCEPT !.indent = TRUE]
Ini(lines) == [lines |-> lines, ended |-> TRUE]

MCIniFiles ==
  {Ini(<<Section("config"), Auto(0), List(0), Section("CFW"), Key, Section("OFW"), Key>>),
   Ini(<<Other, Section("CFW"), Key, Section("config"), Indented(Text(1)), List(1), Auto(1)>>),
   Ini(<<Section("CFW"), L("broken", "", 0), Key>>),
   Ini(<<Section("config"), Auto(0), List(0)>>),
   [lines |-> <<Section("OFW"), Text(0), Section("config"), List(0),
                Indented(Section("CFW")), Auto(1), Indented(Text(0))>>,
    ended |-> FALSE]}

MCFolders ==
  {None,
   <<[name |-> "Empty", main |-> FALSE, empty |-> TRUE]>>,
   <<[name |-> "Android", main |-> FALSE, empty |-> FALSE],
     [name |-> "Linux", main |-> FALSE, empty |-> FALSE]>>}

\* Three entries without keys.
EntriesWithoutKeys ==
  {Ini(<<Section("config"), Auto(0), List(0), Section("CFW"), Section("OFW"),
         Section("CFW")>>)}

\* [config] twice, and an entry without keys.
TwiceConfigured ==
  {Ini(<<Section("config"), Auto(0), List(0), Section("config"), Section("CFW")>>)}
================================================================================
