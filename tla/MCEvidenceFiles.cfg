\* Three files and three requests; uploads of every kind.
CONSTANTS
    NoFile = NoFile
    Files = {f1, f2, f3}
    Requests = {r1, r2, r3}
SPECIFICATION Spec
SYMMETRY Symmetry
INVARIANTS
    AttachmentsAreStored
    ChecklistIsServed
PROPERTIES
    AttachedEncrypted
