\* Two ranks, two or three rounds.
CONSTANT World = 2
SPECIFICATION Spec
INVARIANTS TypeOK ReceivedExact CombinedCorrect WordsReady
PROPERTIES NothingOverwritten
