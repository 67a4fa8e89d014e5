SPECIFICATION ChordSpec
CONSTANT UserKeys <- MCUserKeys
INVARIANTS KeyboardIsTheUsers HeardAsPlanned
