----------------------------- MODULE MCWorkspace -----------------------------
(* A small workspace: node and python have adapters, uv has none. *)
EXTENDS WorkspaceSync

CONSTANTS v1, v2

MCEnvironment == <<"node", "python", "uv">>
MCAdapted     == {"node", "python"}
MCVersion     == {v1, v2}
MCManifests   ==
  {[node |-> v1, python |-> v1, uv |-> None],
   [node |-> v2, python |-> None, uv |-> v1]}
MCHosts         == {[node |-> v1, python |-> None, uv |-> v1]}
MCUndetected    == {{}, {"node"}}
MCProjects      == <<"web", "notes">>
MCLocalProjects == {"notes"}
=============================================================================
