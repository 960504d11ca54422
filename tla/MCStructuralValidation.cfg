SPECIFICATION Spec
CONSTANTS
    Names <- MCNames
    Namespaces <- MCNamespaces
    Identifiers <- MCIdentifiers
    Digests <- MCDigests
    Documents <- MCDocuments
    NoAddress = NoAddress
INVARIANT TypeOK
INVARIANT IndexNeverPanics
INVARIANT AcceptedIsWellFormed
INVARIANT AttachmentsDescend
PROPERTY DecidesWellFormedness
CHECK_DEADLOCK FALSE
