SPECIFICATION Spec
CONSTANTS
    Members = {1, 2}
    Schemas <- MCSchemas
    Identified = {1}
    Binary = Binary
    Unstamped = Unstamped
    Missing = Missing
    Torn = Torn
    MaxMajor = 2
    MaxMinor = 1
    MaxReleases = 2
INVARIANTS
    VersionCoversContent
    SemverPromise
    RoundTrip
