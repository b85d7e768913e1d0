------------------------------ MODULE Routing ------------------------------
(***************************************************************************)
(* src/routing.rs: the RoutingTable as a value and its operations.         *)
(* container_names and host_names are names["Container"] and names["Host"] *)
(* so that the twin handlers of the two buses are one operator.  The empty *)
(* owner string of a NameOwnerChanged signal is NoOwner; a unique name the *)
(* registry does not hold is mapped to NoOwner as well.                    *)
(***************************************************************************)
EXTENDS FiniteSets

CONSTANTS WellKnown,   \* well-known names
          Unique,      \* unique names, ":..."
          NoOwner

ASSUME NamesAssumption ==
    /\ WellKnown \cap Unique = {}
    /\ NoOwner \notin WellKnown \cup Unique \cup {"Container", "Host"}

Route == {"Container", "Host"}

RoutingTable == [names            : [Route -> SUBSET (WellKnown \cup Unique)],
                 host_activatable : SUBSET WellKnown,
                 unique_names     : [Unique -> Route \cup {NoOwner}]]

NewTable == [names            |-> [r \in Route |-> {}],
             host_activatable |-> {},
             unique_names     |-> [u \in Unique |-> NoOwner]]

Unregister(registry, u) ==
    IF u = NoOwner THEN registry ELSE [registry EXCEPT ![u] = NoOwner]

\* Slips: a name with an old owner is taken for released; the old owner stays
\* registered.
OnNameChangeOldOnly(t, r, name, old_owner, new_owner) ==
    IF old_owner # NoOwner
    THEN [t EXCEPT !.names[r] = @ \ {name},
                   !.unique_names = Unregister(@, old_owner)]
    ELSE [t EXCEPT !.names[r] = @ \cup {name}, !.unique_names = [@ EXCEPT ![new_owner] = r]]
OnNameChangeKeeping(t, r, name, old_owner, new_owner) ==
    IF new_owner = NoOwner
    THEN [t EXCEPT !.names[r] = @ \ {name}]
    ELSE [t EXCEPT !.names[r] = @ \cup {name}, !.unique_names = [@ EXCEPT ![new_owner] = r]]

\* on_container_name_change and on_host_name_change.
OnNameChange(t, r, name, old_owner, new_owner) ==
    LET left == Unregister(t.unique_names, old_owner)
    IN  IF new_owner = NoOwner
        THEN [t EXCEPT !.names[r] = @ \ {name}, !.unique_names = left]
        ELSE [t EXCEPT !.names[r] = @ \cup {name},
                       !.unique_names = [left EXCEPT ![new_owner] = r]]

\* set_container_names and set_host_names.
SetNames(t, r, names) == [t EXCEPT !.names[r] = names]

SetActivatable(t, names) == [t EXCEPT !.host_activatable = names]

\* Slip: the host is asked first.
RouteForHostFirst(t, destination) ==
    IF destination \in Unique
    THEN IF t.unique_names[destination] = NoOwner THEN "Host"
         ELSE t.unique_names[destination]
    ELSE IF destination \in t.names["Container"] \ t.names["Host"] THEN "Container"
    ELSE "Host"

\* Activatable and unknown names both go to the host.
RouteFor(t, destination) ==
    IF destination \in Unique
    THEN IF t.unique_names[destination] = NoOwner THEN "Host"
         ELSE t.unique_names[destination]
    ELSE IF destination \in t.names["Container"] THEN "Container" ELSE "Host"

\* all_names: the names of both buses.  name_has_owner: on either bus.
AllNames(t) == t.names["Container"] \cup t.names["Host"]
HasOwner(t, name) == name \in AllNames(t)

\* get_name_owner_route: the bus to ask, the container first.
OwnerRoute(t, name) ==
    IF name \in t.names["Container"] THEN "Container"
    ELSE IF name \in t.names["Host"] THEN "Host" ELSE NoOwner
=============================================================================
