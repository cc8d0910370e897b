\* Two callers, two contents that collide and one that does not, every bucket
\* content to start from.
CONSTANTS
    None = None
    Callers = {c1, c2}
    Contents <- MCContents
    Digests = {"d1", "d2"}
    DigestOf <- MCDigestOf
SPECIFICATION Spec
SYMMETRY Symmetry
INVARIANT AckedRetrievable ReadsAgreeWithPuts CollisionsAreReal
PROPERTY ObjectsImmutable
