SPECIFICATION Spec
CONSTANTS
    Workers = {w1, w2, w3}
    Fields = {margin, area}
    Values = {v1}
    Default = default
    Keys = {k1, k2, k3}
    None = None
    MaxFaults = 1
SYMMETRY Symmetry
INVARIANTS
    AtMostOneKey
    RegenerateRevokes
    SavedSettingsStay
PROPERTIES
    KeyNeverDisappears
