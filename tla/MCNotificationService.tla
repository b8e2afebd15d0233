------------------------ MODULE MCNotificationService ------------------------
(* NotificationService for TLC: its instance is in Notification.cfg.       *)
EXTENDS NotificationService
=============================================================================
