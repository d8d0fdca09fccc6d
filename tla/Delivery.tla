------------------------------ MODULE Delivery ------------------------------
(***************************************************************************)
(* What a transaction leaves behind for others to take: the ledger row     *)
(* that answers a command sent again, and the row of the outbox that a     *)
(* worker tells Bitrix24 of.  They share the server's processes and no     *)
(* variable.                                                               *)
(***************************************************************************)
EXTENDS CommandLedger

CONSTANTS Workers, Intents, Healthy, None   \* of the outbox

VARIABLES status, due, reachable, worker, taken, lost

Outbox == INSTANCE NotificationOutbox

\* What the constants of the outbox satisfy.
OutboxAssumption == Outbox!OutboxAssumption

-----------------------------------------------------------------------------
\* What came of a message, whatever was lost on the way: no repetition without a
\* loss, no delivery without a message, nothing sent for a settled row
\* (bitrix-notification-outbox.ts:81-119).
DeliveryIsExplained == Outbox!DeliveryIsExplained
=============================================================================
