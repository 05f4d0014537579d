CONSTANTS
    Regimes <- MCRegimes
    LastView = 20
SPECIFICATION Spec
INVARIANTS
    TypeOK
    CacheTransparent
    Proportional
    PrioritiesBounded
