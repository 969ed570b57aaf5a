SPECIFICATION Spec
CONSTANTS
    Account = {alice, bob, carol, guild}
    Person = {alice, bob, carol}
    Request = {q1, q2}
    Nobody = Nobody
    Invitations = 1
INVARIANT ManagedByPeople
SYMMETRY Symmetry
CHECK_DEADLOCK FALSE
