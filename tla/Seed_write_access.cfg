\* A post and an unassign of its writer.
SPECIFICATION Spec
CONSTANTS
    Emails = {demo}
    Names = {hawks}
    Missing = missing
    Registrations = {}
    Creations = {}
    Seeds = {s1}
    Admin = admin
    Changes = {c1}
    Writes = {w1}
    DemoEmail = demo
    League = league
    Hawks = hawks
    Owls = owls
    Foxes = foxes
    Bears = bears
    MaxBusy = 2
    MaxCalls = 2
PROPERTIES
    WriterIsAssigned
