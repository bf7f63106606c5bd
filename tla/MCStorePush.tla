----------------------------- MODULE MCStorePush -----------------------------
(***************************************************************************)
(* Three pushes over three entity types.  The second model shares the id   *)
(* e1 with the first; the third push repeats the second, as a user does    *)
(* after an error message.  BatchSize 2 gives every push several batches.  *)
(***************************************************************************)
EXTENDS StorePush

Entity(n)    == [type |-> "NMTS_ENTITY", id |-> n]
Demand(n)    == [type |-> "PROVISIONING", id |-> n]
Beam(n)      == [type |-> "BEAM", id |-> n]

MCWipeTypes == <<"NMTS_ENTITY", "PROVISIONING", "BEAM">>
MCDerivedTypes == {"BEAM"}

OldModel == [model |-> <<Entity(1), Entity(2)>>, provisioning |-> <<Demand(1)>>]
NewModel == [model |-> <<Entity(3), Entity(1), Entity(4)>>, provisioning |-> <<Demand(1)>>]
MCModels == <<OldModel, NewModel, NewModel>>

MCDerivedKey == [e \in {Entity(1), Entity(2)} |-> Beam(e.id)]
MCWipe == {TRUE, FALSE}

ReadFaults == {"read"}
AllFaults == {"read", "request", "reply", "late"}
=============================================================================
