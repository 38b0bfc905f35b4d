--------------------------------- MODULE Alerts ---------------------------------
(***************************************************************************)
(* What tells the staff: the events of the bus, which this module extends, *)
(* and the stored notices, an instance of their own module.  They share no *)
(* state; here is the property of the notices.                             *)
(***************************************************************************)
EXTENDS EventBus

CONSTANTS Facts, NoticeChannels, Push, Enabled, Devices, Limit, MaxPurged, None
VARIABLES job, order, row, purged, before, active, screen

noticeVars == <<job, order, row, purged, before, active, screen>>

N == INSTANCE Notices WITH Channels <- NoticeChannels

-----------------------------------------------------------------------------

\* No channel that fails keeps a notice from the others, and a screen that comes back is given
\* what was dispatched after the last notice it had.
NoticesReach == N!NoticesReach
=============================================================================
