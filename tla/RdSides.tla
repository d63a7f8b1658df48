------------------------------- MODULE RdSides --------------------------------
(****************************************************************************)
(* The two processes that are connected by a wire.                          *)
(****************************************************************************)

\* To an entity one of them is the master.
Sides == {"master", "slave"}
Other(side) == IF side = "master" THEN "slave" ELSE "master"

\* To an extension, and to a list, they are the same.
Peers == {"server", "client"}
Opposite(side) == IF side = "server" THEN "client" ELSE "server"
=============================================================================
