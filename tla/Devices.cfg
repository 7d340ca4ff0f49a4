SPECIFICATION MCSpec
CONSTANT NoPolicy = NoPolicy
INVARIANTS    ImagesExact
CHECK_DEADLOCK FALSE
