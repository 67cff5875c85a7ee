----------------------------- MODULE MCCityLake -----------------------------
(* Two datasets; a building with a part, and a bridge; files and a package. *)
EXTENDS CityLakeService

MCObjects == {"house", "roof", "bridge"}
MCBuildings == {"house", "roof"}
MCParts == [o \in MCObjects |-> IF o = "house" THEN {"roof"} ELSE {}]
MCSources == {"houses", "bridges", "plain", "package", "nothing"}
MCPackages == {"package"}
MCPicks == {{"roof"}, {"house"}, {"house", "bridge"}}
MCExisting == {"houses"}
MCHolds == [s \in MCSources |-> CASE s \in {"houses", "package"} -> {"house", "roof"}
                                  [] s = "nothing" -> {}
                                  [] OTHER -> {"bridge"}]
MCCrsOf == [s \in MCSources |-> IF s = "plain" THEN "none" ELSE "7415"]
=============================================================================
