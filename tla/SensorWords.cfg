SPECIFICATION SensorSpec
INVARIANT EveryDecoderFits
CHECK_DEADLOCK FALSE
