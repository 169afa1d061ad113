SPECIFICATION Spec
CONSTANTS
    Browsers = {b1}
    Identities = {g1}
    Tokens = {t1, t2, t3}
    Calls = {k1, k2}
    None = None
SYMMETRY Symmetry
VIEW View
INVARIANTS
    LinkedIsVerified
    RenewalIsNoReuse
    RenewalNeverStops
