------------------------------ MODULE Delivery ------------------------------
(***************************************************************************)
(* The batch streams: what goes through them (BatchDelivery), and what     *)
(* processes that start move to them from the names of an older version    *)
(* (EdgeMigration).  Here they are apart: the migration hands over what it *)
(* finds, and BatchDelivery begins with streams under the new names.       *)
(***************************************************************************)
EXTENDS BatchDelivery

CONSTANTS
    Actors, Adopts, Windowed, Reads(_), Loads, Form(_),    \* of EdgeMigration
    MovePage, ScanPage, Items, Before, MaxRestarts

VARIABLES
    redis, exists, newestId, legacy, windows, at, settled, restarts, written, prices    \* of EdgeMigration

migration == <<redis, exists, newestId, legacy, windows, at, settled, restarts, written, prices>>

Migration == INSTANCE EdgeMigration WITH streams <- redis, stops <- restarts, MaxStops <- MaxRestarts

ASSUME DeliveryAssumption == Migration!MigrationAssumption

DeliveryInit == Init /\ Migration!Init

DeliveryNext ==
    \/ Next /\ UNCHANGED migration
    \/ Migration!Next /\ UNCHANGED vars

DeliverySpec == DeliveryInit /\ [][DeliveryNext]_<<vars, migration>>

(* EdgeMigration: what the old version had stored is moved, recovered and never lost. *)
Adopted == Migration!Adopted
=============================================================================
