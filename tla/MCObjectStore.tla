---------------------------- MODULE MCObjectStore ----------------------------
(* Instances of ObjectStore for TLC. *)
EXTENDS ObjectStore

Ask(location, versioning, lifecycle) ==
    [location |-> location, versioning |-> versioning, lifecycle |-> lifecycle]
\* Every knob managed, one pinned to a place, and one switched off.
AllParams == {Ask("", "on", "r"), Ask("eu", "", ""), Ask("", "off", "")}
==============================================================================
