SPECIFICATION Spec
CONSTANTS
    alice = alice
    bob = bob
    Clients = {alice, bob}
    MaxUsers = 2
    MaxTurns = 3
SYMMETRY Sym
INVARIANTS
    TypeOK
    SignaturesFit
    
CHECK_DEADLOCK FALSE
