SPECIFICATION SimdSpec
CONSTANT Threads = {1, 2, 3}
INVARIANTS CloneIsSupported OneClone
