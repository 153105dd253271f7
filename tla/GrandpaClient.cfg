CONSTANTS
 Authorities = {a1, a2, a3}
 MaxBlock = 4
 MaxInFlight = 2
SPECIFICATION Spec
INVARIANT HonestProofAccepted
