---------------------------- MODULE TelemetryNotice ----------------------------
(***************************************************************************)
(* The status strip and the live card of a vehicle's page: what they say   *)
(* of a vehicle that has sent no signal, from the one enrollment row the   *)
(* page reads for both (components/owner/telemetry-view.ts,                *)
(* telemetry-status-strip.tsx, telemetry-live-state-card.tsx).             *)
(***************************************************************************)
VARIABLES
    enrollment, \* the row as the page has read it (useTelemetryEnrollment)
    streaming   \* live.observedAt: the vehicle has sent a signal

vars == <<enrollment, streaming>>

Statuses == {"requested", "configuring", "pending_sync", "active", "unsupported", "error",
             "removal_requested"}
Skips == [missing_key |-> "needs-pairing", max_configs |-> "limit-reached",
          unsupported_hardware |-> "unsupported-hardware",
          unsupported_firmware |-> "unsupported-firmware", vehicle_skipped |-> "other-error"]
Codes == DOMAIN Skips \cup {"none", "proxy_not_configured", "region_not_configured"}
NoRow == [status |-> "none", code |-> "none"]        \* null: no row, or not read
Unread == [status |-> "unread", code |-> "none"]     \* undefined: still loading
Rows == [status : Statuses, code : Codes] \cup {NoRow}

Init == enrollment = Unread /\ streaming \in BOOLEAN

\* a failed read is no row
ReadRow == /\ enrollment = Unread /\ enrollment' \in Rows
           /\ UNCHANGED streaming

\* another vehicle or workspace: the effect runs again
Leave == /\ enrollment # Unread /\ enrollment' = Unread
         /\ streaming' \in BOOLEAN

\* a refresh of the page brings the first signal; the row is not read again
Signal == ~streaming /\ streaming' = TRUE /\ UNCHANGED enrollment

Next == ReadRow \/ Leave \/ Signal

Spec == Init /\ [][Next]_vars

\* deriveTelemetryCause: Tesla's reason for a skip goes before the status
Cause(row) ==
    IF row \in {NoRow, Unread} THEN "no-enrollment"
    ELSE IF row.code \in DOMAIN Skips THEN Skips[row.code]
    ELSE CASE row.status = "unsupported"  -> "unsupported-firmware"
           [] row.status = "error"        -> IF row.code = "proxy_not_configured"
                                               THEN "deployment-config-blocked" ELSE "other-error"
           [] row.status = "pending_sync" -> "pending-sync"
           [] OTHER                       -> "setting-up"

\* deriveTelemetryStripState, and the title its "error" takes
Strip == IF enrollment = Unread THEN "loading"
         ELSE IF streaming \/ enrollment = NoRow THEN "hidden"
         ELSE IF Cause(enrollment) \in {"deployment-config-blocked", "other-error"}
           THEN IF enrollment.code = "proxy_not_configured" THEN "not configured" ELSE "failed"
         ELSE Cause(enrollment)

\* liveStateEmptyCopy: what the card says, and the notice it points to
LiveCard == IF streaming THEN "state"
            ELSE CASE Cause(enrollment) = "no-enrollment"             -> "manage"
                   [] Cause(enrollment) = "deployment-config-blocked" -> "see: not configured"
                   [] Cause(enrollment) = "other-error"               -> "see: failed"
                   [] OTHER                                           -> "see notice"

TypeOK == enrollment \in Rows \cup {Unread} /\ streaming \in BOOLEAN

\* The strip and the live card never disagree about why there is no signal: the card
\* points to a notice only when the strip shows that one, and offers the connection
\* itself only when the strip shows nothing ("so the two panels can never disagree",
\* useTelemetryEnrollment).  While the row is read, the card says what it says of none.
PanelsAgree ==
    enrollment # Unread =>
      /\ LiveCard = "manage" <=> (Strip = "hidden" /\ ~streaming)
      /\ LiveCard = "see: not configured" <=> Strip = "not configured"
      /\ LiveCard = "see: failed" <=> Strip = "failed"
      /\ LiveCard = "see notice" => Strip \notin {"hidden", "not configured", "failed"}
=============================================================================
