CONSTANT Configs <- MCConfigs
SPECIFICATION LiveSpec
CHECK_DEADLOCK FALSE
INVARIANTS FlagIsHonest ReadyIsServed
PROPERTIES ComesUp ShutsDown
