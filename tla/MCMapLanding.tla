---------------------------- MODULE MCMapLanding ----------------------------
EXTENDS MapLanding
CONSTANTS all, dome
West == {1, 2}
East == {2, 3}
World == {1, 2, 3}
MCPlace == [c \in Cameras |-> IF c = 1 THEN 1 ELSE 3]
MCKind == [c \in Cameras |-> dome]
\* The two boxes round to one cell.
MCCell == [b \in Boxes |-> IF b = World THEN "world" ELSE "cell"]
TwoBoxes == {West, East}
Panning == {<<West>>, <<East>>}
AllBoxes == {West, East, World}
\* A viewport over the antimeridian has two boxes.
MCWide == {World}
Crossing == {<<West>>, <<West, East>>, <<World>>}
=============================================================================
