---------------------------- MODULE MCGearTrips ----------------------------
EXTENDS GearTrips
Ranged == {<<1, "cape">>, <<2, "boots">>, <<3, "bow">>}
Melee == {<<1, "cape">>, <<2, "boots">>, <<3, "sword">>}
Fishing == {<<1, "hood">>, <<2, "waders">>, <<3, "rod">>}
Bare == {<<3, "rod">>}
MCSets == {{}, Ranged, Melee, Fishing, Bare}
=============================================================================
