--------------------------- MODULE MCAudioCache ---------------------------
(***************************************************************************)
(* Small instances of AudioCache: the poll thread and a Web thread live in *)
(* the daemon, another Web thread in a process of its own                  *)
(* (`localplaud serve`).                                                   *)
(***************************************************************************)
EXTENDS AudioCache

CONSTANTS poll, web, serve

MCPollers  == {poll}
MCVisitors == {web, serve}
MCDaemon   == {poll, web}

=============================================================================
