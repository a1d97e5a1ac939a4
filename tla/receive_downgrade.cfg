SPECIFICATION HSpec
CONSTANTS
    h1 = h1
    h2 = h2
    a1 = a1
    NoConfig = NoConfig
    Handlers = {h1, h2}
    Admins = {a1}
    Bodies = {"a", "b", "c"}
    Payloads <- ReusedVersion
SYMMETRY Symmetry
PROPERTIES
    PushNeverDowngrades
