------------------------------ MODULE MCServer ------------------------------
(* One client, one code component with two sets of parameters; the updater 
   is enabled or not.*)
EXTENDS Server

CONSTANTS app, p1, p2, k1

MCCode == {app}
MCParam == {p1, p2}
MCClient == {k1}
MCConfigurations == {{}, {"updater"}}

=============================================================================
