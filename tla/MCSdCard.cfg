SPECIFICATION SdCardSpec
CONSTANT Chunks = 2
INVARIANT SdCardTypeOK
PROPERTIES SpeedOnlyDrops Promised
