--------------------------- MODULE MCRuntimeTransfer ---------------------------
\* A small instance: the layout that "self-nomad init" writes, and runtimes that
\* have instructions and daily notes in any of the places adapters look at.
EXTENDS RuntimeTransfer

Layout ==
    [instructions |-> <<"identity", "instructions.md">>, persona |-> <<"identity", "persona.md">>,
     identity |-> None,
     user_profile |-> None,
     long_term_memory |-> None, daily_memory |-> <<"memory", "daily">>,
     knowledge |-> <<"memory", "knowledge">>, skills |-> <<"skills">>, tool_notes |-> None,
     workflows |-> None, evaluations |-> None]

Always == (<<"identity", "instructions.md">> :> "old") @@ (<<"identity", "persona.md">> :> "old") @@ (<<"skills", ".gitkeep">> :> "keep")
          @@ (<<"memory", "knowledge", "k.md">> :> "old") @@ (<<"memory", "daily", ".gitkeep">> :> "keep")

DayNote(place) == place \o <<"2026-09-18.md">>

Repos == {Always, (DayNote(<<"memory", "daily">>) :> "old") @@ Always}

\* Where a runtime may keep its instructions, and its notes.
Instructions == {{}, {<<"AGENTS.md">>}, {<<"CLAUDE.md">>}, {CopilotFile}, {<<"AGENTS.md">>, <<"CLAUDE.md">>},
                 {<<"AGENTS.md">>, CopilotFile}}

Notes == {{}, {DayNote(<<"memory">>)}, {DayNote(<<"memory">>), <<"memory", "dump.md">>},
          {DayNote(<<"memory", "daily">>)}, {DayNote(<<"memory">>), DayNote(<<"memory", "daily">>)}}

Homes == {[f \in i \cup n |-> "old"] : i \in Instructions, n \in Notes}

Changes ==
    [home |-> {[file |-> <<"AGENTS.md">>, value |-> "new"],
               [file |-> <<"AGENTS.md">>, value |-> None],
               [file |-> DayNote(<<"memory", "daily">>), value |-> "new"],
               [file |-> <<"skills", "s", "SKILL.md">>, value |-> "new"]},
     repo |-> {[file |-> <<"identity", "instructions.md">>, value |-> "new"],
               [file |-> DayNote(<<"memory", "daily">>), value |-> None],
               [file |-> <<"skills", "s", "SKILL.md">>, value |-> "new"]}]

\* A runtime that keeps dated notes, until something else comes to lie there.
NotesOnly == {[f \in {<<"AGENTS.md">>, DayNote(<<"memory">>)} |-> "old"]}

Fresh == {Always}

DumpAppears == [home |-> {[file |-> <<"memory", "dump.md">>, value |-> "new"]}, repo |-> {}]

=============================================================================
