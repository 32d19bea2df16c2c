CONSTANT MaxLate = 2
SPECIFICATION SilentSpec
PROPERTY TimeoutEndsWait
