--------------------------- MODULE MCFlowSensitive ---------------------------
\* The SVFGs the flow-sensitive analyses are model-checked on.
EXTENDS VersionedFlowSensitive, SVFGPrograms

MCPrograms == [joined |-> Joined, loop |-> Loop, callback |-> Callback, alike |-> Alike,
               recursive |-> Recursive, optimised |-> Optimised]
=============================================================================
