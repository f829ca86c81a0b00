---------------------------- MODULE MCSigningKeys ----------------------------
EXTENDS SigningKeys, TLC
CONSTANTS p1, p2, b1, b2, r1, r2, google, github, k1, k2, x1, x2
MCSymmetry == Permutations({p1, p2}) \cup Permutations({b1, b2}) \cup Permutations({r1, r2})
                \cup Permutations({google, github})
=============================================================================
