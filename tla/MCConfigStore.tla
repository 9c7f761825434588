---------------------------- MODULE MCConfigStore ----------------------------
(* ConfigStore with two entries and two sets of defaults. *)
EXTENDS ConfigStore

MCWorlds == World
=============================================================================
