SPECIFICATION Spec
CONSTANTS
    Accounts = {sophia, b, c}
    Staff = {b, c}
    Seeded = sophia
    Requests = {r1, r2}
    Nobody = nobody
INVARIANT AnAdministratorRemains
