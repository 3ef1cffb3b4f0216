------------------------------- MODULE MCLaunch -------------------------------
EXTENDS Launch

\* Modules with sections of the sizes s.  The data of Even ends with its page.
Nso(s, bss, packed, hashes) ==
    [whole |-> TRUE, magic |-> TRUE,
     sections |-> [i \in NsoSections |->
        [at |-> 0, offset |-> CASE i = 1 -> 0 [] i = 2 -> PageUp(s[1]) [] OTHER -> PageUp(s[1]) + PageUp(s[2]),
         size |-> s[i], file |-> IF i \in packed THEN s[i] - 1 ELSE s[i], unpacks |-> TRUE, hash |-> hashes[i]]],
     packed |-> {}, hashed |-> {1, 3}, bss |-> bss]

Fit == <<"equal", "zero", "equal">>
Even == Nso(<<3, 1, 2>>, 0, {1}, Fit)
Grown == Nso(<<2, 3, 1>>, 3, {}, Fit)
Small == Nso(<<1, 2, 4>>, 0, {2, 3}, Fit)
BadHash == Nso(<<2, 1, 2>>, 0, {}, <<"equal", "zero", "other">>)
Same == [Nso(<<2, 2, 2>>, 0, {}, Fit) EXCEPT !.sections[2] = [Nso(<<2, 2, 2>>, 0, {}, Fit).sections[1] EXCEPT !.hash = "zero"]]
Packed == [Even EXCEPT !.sections[2].unpacks = FALSE, !.packed = {2}]

\* Capabilities: calls of a group (pattern 4), priorities (pattern 3), one of no
\* interest, and the end of the list.
Pattern4(group, calls) == 0 .. 3 \cup {5 + n : n \in calls} \cup {29 + n : n \in group}
Pattern3(highest, lowest) == 0 .. 2 \cup {4 + n : n \in highest} \cup {10 + n : n \in lowest} \cup {24}
First0 == Pattern4({}, {1, 2, 23})
Second0 == Pattern4({}, {0, 2})
Group5 == Pattern4({0, 2}, {7})
Wide == Pattern3({2, 5}, {0, 1})
Narrow == Pattern3({4, 5}, {3})
Crossed == Pattern3({0}, {5})
Stack == {0, 1, 3, 9}

Npdm(acid, aci) ==
    [size |-> 800, magic |-> {"META", "ACID", "ACI0"}, aci0 |-> 720,
     acid |-> [offset |-> 0, size |-> 4 * Len(acid)], aci |-> [offset |-> 0, size |-> 4 * Len(aci)],
     wide |-> TRUE, resources |-> TRUE,
     words |-> [x \in {AcidEnd + 4 * (i - 1) : i \in DOMAIN acid} |-> acid[((x - AcidEnd) \div 4) + 1]]
               @@ [x \in {784 + 4 * (i - 1) : i \in DOMAIN aci} |-> aci[((x - 784) \div 4) + 1]]]

Npdms == << Npdm(<<First0, Wide, Group5>>, <<Second0, Narrow, Stack>>),
            Npdm(<<Second0, AllOnes, Group5>>, <<First0, Narrow>>),
            Npdm(<<>>, <<Narrow, Stack, First0, Second0>>),
            Npdm(<<Crossed>>, <<First0>>),
            [Npdm(<<First0>>, <<Second0>>) EXCEPT !.acid.size = 6],
            [Npdm(<<First0>>, <<Second0>>) EXCEPT !.aci.offset = 798],
            [Npdm(<<First0>>, <<Second0>>) EXCEPT !.aci.offset = AcidEnd, !.aci.size = 4],
            [Npdm(<<First0>>, <<Second0>>) EXCEPT !.size = 100],
            [Npdm(<<First0>>, <<Second0>>) EXCEPT !.magic = {"META", "ACI0"}],
            [Npdm(<<First0>>, <<Second0>>) EXCEPT !.aci0 = 760],
            [Npdm(<<First0>>, <<Second0>>) EXCEPT !.resources = FALSE],
            [Npdm(<<First0>>, <<Second0>>) EXCEPT !.wide = FALSE] >>

Title(npdm, modules) ==
    [opens |-> "running", small |-> FALSE, exefs |-> TRUE, romfs |-> TRUE, folders |-> TRUE,
     control |-> "whole", npdm |-> npdm, modules |-> modules]
Three == <<Even, Grown, Small>>
Damaged == <<Even, BadHash, Small, Grown>>

Titles == {Title(Npdms[n], Three) : n \in DOMAIN Npdms}
          \cup {Title(Npdms[1], modules) :
                   modules \in {Damaged, <<Even, Grown>>, <<Small, Small, Grown, Even>>, <<Even, Same, Small>>,
                                <<Packed, Even, Small>>, <<>>}}
          \cup {[Title(Npdms[1], Three) EXCEPT !.small = TRUE], [Title(Npdms[1], Three) EXCEPT !.exefs = FALSE],
                [Title(Npdms[1], Three) EXCEPT !.opens = "exception"],
                [Title(Npdms[1], Three) EXCEPT !.control = "short"],
                [Title(Npdms[1], Three) EXCEPT !.control = "none", !.romfs = FALSE],
                [Title(Npdms[1], Three) EXCEPT !.control = "missing", !.folders = FALSE]}

\* The archives of cartridges.
View(fs, exefs) == [fs |-> fs, exefs |-> exefs, filled |-> TRUE]
Archive(type, views) == [opens |-> TRUE, type |-> type, cnmt |-> type = "Meta", views |-> views]
Program == Archive("Program", <<View("PartitionFs", FALSE), View("PartitionFs", TRUE), View("RomFs", FALSE)>>)
Patch == Archive("Program", <<View("PartitionFs", TRUE)>>)
Data == Archive("Program", <<View("RomFs", FALSE), View("PartitionFs", FALSE)>>)
ControlNca == Archive("Control", <<View("RomFs", FALSE), View("RomFs", FALSE)>>)
Meta == Archive("Meta", <<View("PartitionFs", FALSE)>>)
Manual == Archive("Manual", <<>>)
Broken == [Program EXCEPT !.opens = FALSE]
Hollow == [Program EXCEPT !.views[1].filled = FALSE]
Thick == Archive("Program", <<View("PartitionFs", FALSE), View("PartitionFs", TRUE), View("PartitionFs", FALSE)>>)

Card(partitions) == [header |-> "whole", normal |-> <<Patch>>, partitions |-> partitions]
CardTitle(card) == [card |-> card, npdms |-> [n \in 1 .. 5 |-> Npdms[((n - 1) % 3) + 1]],
                    control |-> "whole", modules |-> Three]
Cards == {CardTitle(Card(partitions)) :
             partitions \in {<<<<Meta, Program, ControlNca, Patch>>>>, <<<<Manual>>, <<Data, Patch, Program>>, <<ControlNca>>>>,
                             <<<<Patch>>, <<Program, ControlNca, Broken>>>>, <<<<Program>>, <<ControlNca>>, <<Broken>>>>,
                             <<<<Hollow>>>>, <<<<Thick>>>>, <<<<Manual, ControlNca>>>>,
                             <<<<Archive("Meta", <<>>)>>>>, <<<<Broken>>>>}}
         \cup {CardTitle([Card(<<<<Program>>>>) EXCEPT !.header = h]) : h \in {"short", "magic", "capacity"}}

Nro == [header |-> TRUE, large |-> TRUE, magic |-> TRUE, size |-> 100, image |-> 40, asset |-> TRUE,
        assetFits |-> TRUE, assets |-> 4, sections |-> TRUE]
Nros == {Nro, [Nro EXCEPT !.header = FALSE], [Nro EXCEPT !.magic = FALSE], [Nro EXCEPT !.asset = FALSE],
         [Nro EXCEPT !.assetFits = FALSE], [Nro EXCEPT !.image = 100], [Nro EXCEPT !.sections = FALSE]}

One(ext, sub, content) == [ext |-> ext, sub |-> sub, versions |-> <<content>>]
Game1 == Title(Npdms[1], Three)
Game2 == Title(Npdms[2], Damaged)
MCDisks ==
    {<<One("nsp", TRUE, title)>> : title \in Titles} \cup {<<One("xci", TRUE, card)>> : card \in Cards}
    \cup {<<One("nro", TRUE, nro)>> : nro \in Nros}
    \cup {<<One("nca", TRUE, [opens |-> end])>> : end \in {"running", "exception"}}
    \cup {<<One("nso", TRUE, nso)>> : nso \in {Even, [Even EXCEPT !.magic = FALSE], [Even EXCEPT !.whole = FALSE]}}
    \cup {<<>>}
    \cup {<<One("other", sub, <<>>), [ext |-> "nsp", sub |-> sub, versions |-> <<Game1, Game2>>], One("nca", FALSE, [opens |-> "running"])>> :
             sub \in BOOLEAN}
    \cup {<<[ext |-> "other", sub |-> FALSE, versions |-> <<"a", "b">>]>>,
          <<One("nsp", FALSE, Game2), One("nro", FALSE, Nro)>>}
=============================================================================
