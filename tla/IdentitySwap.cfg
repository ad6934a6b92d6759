\* Resets that fail, are killed or lose power between any two system calls.
CONSTANTS
    MaxKeys = 4
    MaxErrors = 2
SPECIFICATION Spec
INVARIANTS
    TypeOK
    DomainIsOwn
    IdentityKept
    ResetIsLasting
