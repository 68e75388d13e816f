--------------------------- MODULE MCRequestSpool ---------------------------
(* Instances of RequestSpool for TLC.                                      *)
EXTENDS RequestSpool

File(command, kind, actor, role) ==
    [command |-> command, kind |-> kind, actor |-> actor, role |-> role,
     takeover |-> FALSE, readable |-> TRUE]

\* Two agents of which one runs and both abort, with and without a takeover, a script
\* that declares the roles of an analyst and of an observer, a file that is not JSON.
MCTemplates ==
    {File("run_procedure", "agent", "ann", "session"),
     File("abort_procedure", "agent", "ann", "session"),
     File("abort_procedure", "agent", "bob", "session"),
     [File("abort_procedure", "agent", "bob", "session") EXCEPT !.takeover = TRUE],
     File("submit_vi_action", "agent", "bob", "debug"),
     File("submit_global_action", "agent", "bob", "debug"),
     File("set_attendance", "system", "script", "analyst"),
     File("set_agent_gate", "system", "script", "observer"),
     File("emergency_standby", "agent", "bob", "observer"),
     [File("run_procedure", "agent", "ann", "session") EXCEPT !.readable = FALSE]}
=============================================================================
