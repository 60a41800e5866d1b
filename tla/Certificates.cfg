SPECIFICATION FairSpec
CONSTANTS
    c1 = c1
    i1 = i1
    i2 = i2
    i3 = i3
    Certs = {c1}
    Ingresses = {i1, i2, i3}
    Item <- MCItem
    Selector <- MCSelector
    MaxChanges = 2
    MaxFaults = 1
INVARIANTS
    ListedIsIssued
PROPERTIES
    StaysListed
    CertificatesSettle
