SPECIFICATION FairSpec
CONSTANTS
    Txs = {t1, t2}
    Callers = {c1}
    Roles <- MCRoles
    Attempts = 2
    MaxForks = 1
    Nobody = Nobody
INVARIANTS
    TypeOK
    OutcomeTruthful

    
    
    
