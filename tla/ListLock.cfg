SPECIFICATION LockSpec
CONSTANTS
    alice = alice
    bob = bob
    tabA = tabA
    tabB = tabB
    User = {alice, bob}
    NoUser = NoUser
    Tab = {tabA, tabB}
    NoTab = NoTab
    Owner <- MCOwner
    Request = {q1, q2}
    TTL = 1
    MaxRestarts = 1
    MaxWrites = 0
    Offered = {"takeOver", "edit", "rename", "purge", "drop"}
SYMMETRY Symmetry
INVARIANTS
    LockSound
PROPERTIES
    HoldLostRightly
CHECK_DEADLOCK FALSE
