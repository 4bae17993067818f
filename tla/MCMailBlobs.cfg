CONSTANTS
    Contents = {"a"}
    Keys = {"blobId", "partId"}
    Props = {"blobId", "bodyStructure"}
SPECIFICATION Spec
INVARIANTS
    PreparedAsFile
