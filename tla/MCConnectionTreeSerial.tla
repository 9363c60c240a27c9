----------------------- MODULE MCConnectionTreeSerial -----------------------
(* The catalogues of MCConnectionTree for a single load.                    *)
EXTENDS ConnectionTreeSerial, MCConnectionTree

ASSUME SerialAssumption == OneLoad
=============================================================================
