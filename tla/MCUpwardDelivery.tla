-------------------------- MODULE MCUpwardDelivery --------------------------
(***************************************************************************)
(* A small instance of UpwardDelivery for TLC.                             *)
(***************************************************************************)
EXTENDS UpwardDelivery

\* One type of each policy, one the hub counts, one it cannot read, and consents.
QueueTypes == {"heartbeat", "impressions", "unreadable", "accorde", "withdrawn"}
=============================================================================
