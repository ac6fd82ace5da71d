------------------------------ MODULE MCSnapshot ------------------------------
\* Small instances of Snapshot.
EXTENDS Snapshot, TLC

Request(command, profile, include) ==
    [command |-> command, profile |-> profile, include_long_term_memory |-> include]

\* Both profiles, one of them published.
Mixed == {Request("publish", "specialist", TRUE), Request("pack", "personal", FALSE)}

PublishSpecialist == {Request("publish", "specialist", FALSE)}

\* Archives with different parts.
WithAndWithoutMemory == {Request("pack", "specialist", TRUE), Request("pack", "specialist", FALSE)}

Interchangeable == Permutations(Packers) \cup Permutations(Pullers)

===============================================================================
