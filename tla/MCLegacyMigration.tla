------------------------- MODULE MCLegacyMigration -------------------------
\* Two historical names and marker pairs, one settings file, one profile.
EXTENDS LegacyMigration

MCNameOrder   == <<"WinTerminalPP", "WinTerminalP">>
MCTargetOrder == <<"stable">>
MCShellOrder  == <<"pwsh">>
MCPairOrder   == <<"WinTerminalPP", "WinTerminalP">>

=============================================================================
