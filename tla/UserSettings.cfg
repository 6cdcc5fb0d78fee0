SPECIFICATION Spec
CONSTANTS
    Workers = {w1, w2}
    Fields = {margin, area}
    Values = {v1}
    Default = default
    Keys = {k1}
    None = None
    MaxFaults = 0
PROPERTIES
    OnlyProvidedFieldsChange
