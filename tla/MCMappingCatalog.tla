-------------------------- MODULE MCMappingCatalog --------------------------
(* Instances of MappingCatalog; the operations an instance leaves out are  *)
(* those the property at hand does not depend on.                          *)
EXTENDS MappingCatalog

CONSTANTS t1, t2

OneThread == {t1}
TwoThreads == {t1, t2}
AllOps == Operations
RacingOps == {"create", "update", "delete", "publish", "resolve", "raise"}
Activations == {"approved", "published", "deprecated"}
Actives == {"approved", "published"}
=============================================================================
