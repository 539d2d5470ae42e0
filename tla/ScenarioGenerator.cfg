\* The call stops for good when it ends.
CHECK_DEADLOCK FALSE
CONSTANTS
    gold = gold
    silver = silver
    Blank = Blank
    NotAString = NotAString
    UeIds <- MCUeIds
    BlockIds <- MCBlockIds
    Configs <- MCConfigs
SPECIFICATION GeneratorSpec
INVARIANT
    GeneratedIsRunnable
