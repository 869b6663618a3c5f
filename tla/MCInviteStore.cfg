\* A minter and a newcomer share two codes: quotas, evictions and
\* redemptions that come back, with limits that move.
CONSTANTS
    minter = minter
    newcomer = newcomer
    c1 = c1
    c2 = c2
    None = None
    Codes <- MCCodes
    Keys <- MCKeys
    Admins <- MCMinters
    Minters <- MCMinters
    Grants <- MCGrants
    AskedUses <- MCAskedUses
    AskedTtls <- MCAskedTtls
    Allowance = 2
    AllowanceTtl = 1
    AdminUses = 1
    AdminTtl = 1
    MaxTime = 2
    MaxRedemptions = 3
SPECIFICATION StoreSpec
SYMMETRY CodeSymmetry
INVARIANTS
    OneLiveRedemption
    AdmitsWithinCeiling
    TermsHold
PROPERTIES
    DeadCodesStayDead
