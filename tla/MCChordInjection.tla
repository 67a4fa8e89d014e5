-------------------------- MODULE MCChordInjection --------------------------
\* Every chord and every prefix of a plan, with a user who touches both keys of
\* one modifier, the Windows key and the target key.
EXTENDS ChordInjection

MCUserKeys == {"lcontrol", "rcontrol", Windows, Target}

=============================================================================
