--------------------------- MODULE MCEvidenceGate ---------------------------
EXTENDS EvidenceGate
=============================================================================
