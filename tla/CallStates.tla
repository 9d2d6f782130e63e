----------------------------- MODULE CallStates -----------------------------
(***************************************************************************)
(* The status dictionaries of the telephony core and the pure functions    *)
(* over them: how a webhook event name maps to a call status, when a       *)
(* status may be applied, and what an event does to the status of the      *)
(* callback window it names.  Shared by every telephony module.            *)
(***************************************************************************)
EXTENDS Naturals

\* CallSessionStatus and CallbackSessionStatus, the two enums of the entities.
CallStatus == {"created", "dispatching", "ringing", "answered", "bridged",
               "completed", "failed", "canceled", "expired"}

CallbackStatus == {"active", "routing", "fulfilled", "expired", "failed", "revoked"}

Direction == {"inbound", "outbound"}

\* TERMINAL_CALL_STATUSES.
TerminalCallStatus == {"completed", "failed", "canceled", "expired"}

\* CALL_STATUS_RANK: every terminal status has the top rank.
Rank == [s \in CallStatus |->
            CASE s = "created"     -> 0
              [] s = "dispatching" -> 1
              [] s = "ringing"     -> 2
              [] s = "answered"    -> 3
              [] s = "bridged"     -> 4
              [] OTHER             -> 5]

\* The names POST /webhooks/call-status accepts.
OutboundStatusEvent == {"outbound.ringing", "outbound.answered", "outbound.bridged",
                        "outbound.completed", "outbound.failed", "outbound.canceled"}

CallbackStatusEvent == {"callback.target.ringing", "callback.target.answered",
                        "callback.bridged", "callback.completed",
                        "callback.failed", "callback.canceled"}

StatusEvent == OutboundStatusEvent \union CallbackStatusEvent

RecordingEvent == {"recording.ready", "recording.failed"}

EventName == StatusEvent \union RecordingEvent
               \union {"inbound.received", "outbound.accepted"}

\* assertEventDirectionMatches: the session direction a status event must carry.
DirectionOfStatusEvent(name) ==
    IF name \in OutboundStatusEvent THEN "outbound" ELSE "inbound"

\* resolveCallStatusFromEvent: the call status a status event reports.
ReportedStatus(name) ==
    CASE name \in {"callback.target.ringing", "outbound.ringing"}   -> "ringing"
      [] name \in {"callback.target.answered", "outbound.answered"} -> "answered"
      [] name \in {"callback.bridged", "outbound.bridged"}          -> "bridged"
      [] name \in {"callback.completed", "outbound.completed"}      -> "completed"
      [] name \in {"callback.failed", "outbound.failed"}            -> "failed"
      [] name \in {"callback.canceled", "outbound.canceled"}        -> "canceled"
      [] OTHER                                                      -> "dispatching"

\* Mutants of ShouldApply: the rank is not compared; a failed call may go on.
ShouldApplyAnyRank(current, next) ==
    current # next /\ current \notin TerminalCallStatus

ShouldApplyAfterFailure(current, next) ==
    current # next /\ (current = "failed" \/ Rank[next] > Rank[current])

\* shouldApplyCallStatusTransition.
ShouldApply(current, next) ==
    /\ current # next
    /\ current \notin TerminalCallStatus
    /\ Rank[next] > Rank[current]

\* The status column of a call after a status event, computed on a loaded row.
StatusAfter(current, name) ==
    IF ShouldApply(current, ReportedStatus(name)) THEN ReportedStatus(name) ELSE current

\* Mutants of WindowAfter: a failed attempt releases the window; the status of
\* the call is written to the window.
WindowAfterReleasing(current, name) ==
    CASE name \in {"callback.target.ringing", "callback.target.answered"} -> "routing"
      [] name \in {"callback.bridged", "callback.completed"} -> "fulfilled"
      [] name = "callback.failed" -> "active"
      [] OTHER -> current

WindowAfterCallStatus(current, name) ==
    IF name \in CallbackStatusEvent THEN ReportedStatus(name) ELSE current

\* The switch of applyCallbackSessionMutation: the window status after an event.
WindowAfter(current, name) ==
    CASE name \in {"callback.target.ringing", "callback.target.answered"} ->
             IF current \in {"fulfilled", "expired"} THEN current ELSE "routing"
      [] name \in {"callback.bridged", "callback.completed"} -> "fulfilled"
      [] name = "callback.failed"   -> "failed"
      [] name = "callback.canceled" -> "revoked"
      [] OTHER -> current
=============================================================================
