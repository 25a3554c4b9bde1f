---------------------------- MODULE MCMcpServer ----------------------------
(* Small instances of McpServer: a server, mounted again after an unload,  *)
(* and another whose tools may want one of its names.                      *)
EXTENDS McpServer

CONSTANTS files, web, m1, m2, m3, read, write, fetch, d1, d2

MCServerOf == [m \in Mounts |-> IF m = m3 THEN web ELSE files]
(* Tools whose definitions are all d. *)
Tools(names, d) == [n \in names |-> d]

(* The first server changes a description and drops a tool, or comes back. *)
MCOffers ==
  [m \in Mounts |->
     CASE m = m1 -> {Tools({read, write}, d1), Tools({read, write}, d2), Tools({read}, d2)}
       [] m = m2 -> {Tools({read}, d1)}
       [] m = m3 -> {Tools({fetch}, d1)}]

MCMaxNotes == [m \in Mounts |-> IF m = m1 THEN 1 ELSE 0]

MCClashing == [m \in Mounts |-> IF m = m3 THEN {Tools({write}, d1)} ELSE {}]
=============================================================================
