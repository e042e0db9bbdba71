------------------------- MODULE MCNotificationQueue -------------------------
(* Instances of NotificationQueue for TLC. *)
EXTENDS NotificationQueue

\* The code's 30s, 2m, 10m, shortened with their order kept.
Backoffs == <<1, 2, 3>>
=============================================================================
