----------------------------- MODULE MCDirectory -----------------------------
EXTENDS DirectoryPage
CONSTANTS none, lens, all, dome, fixed, abc, recent, position, letterA, letterB
MCTexts == {none, lens}
MCTypes == {all, dome}
MCSorts == {abc, recent, position}
MCTextOf == [c \in Cameras |-> IF c = 1 THEN lens ELSE none]
MCTypeOf == [c \in Cameras |-> IF c = 1 THEN dome ELSE fixed]
MCInitialOf == [c \in Cameras |-> IF c = 1 THEN letterA ELSE letterB]
Catalogue == [q |-> none, type |-> all, sort |-> abc, page |-> 1]
RecentDomes == [Catalogue EXCEPT !.type = dome, !.sort = recent]
MCLinks == {Catalogue, RecentDomes}
=============================================================================
