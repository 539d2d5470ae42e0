CONSTANTS
    Order <- MCOrder
    Langs = {"pt", "en"}
    Default = "pt"
    NotSaved = NotSaved
    MaxReloads = 2
SPECIFICATION Spec
INVARIANTS
    PageSpeaksOneLanguage
    EverySectionIsAnswered
