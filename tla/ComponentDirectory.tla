------------------------- MODULE ComponentDirectory -------------------------
(***************************************************************************)
(* What the modules of yloc and the applications above it rely on, without *)
(* graph, modules or libraries: a directory in which an identifier, once   *)
(* it has a handle, keeps it and shares it with no other, and in which     *)
(* what is known of the kind of a component only becomes more precise.     *)
(***************************************************************************)
EXTENDS Integers, ComponentTypes

CONSTANT Ids

VARIABLES handle,   \* the handle of each identifier, or NoHandle
          kind      \* the component type behind each handle given out

NoHandle == 0
Handles == DOMAIN kind

Init ==
  /\ handle = [id \in Ids |-> NoHandle]
  /\ Handles = {}

(* Identifiers keep their handles; a new one gets a handle not yet in use. *)
Register ==
  \A id \in Ids :
    \/ handle'[id] = handle[id]
    \/ handle[id] = NoHandle /\ handle'[id] \in Handles' \ Handles

Unshared ==
  \A id1, id2 \in Ids : handle'[id1] = handle'[id2] => id1 = id2 \/ handle'[id1] = NoHandle

(* A component never loses its type, except to a class derived from it.    *)
Classify ==
  \A h \in Handles :
    h \in Handles' /\ (kind[h] # "UnknownComponentType" => IsA(kind'[h], kind[h]))

Contribute == Register /\ Unshared /\ Classify

Spec == Init /\ [][Contribute]_<<handle, kind>>
==============================================================================
