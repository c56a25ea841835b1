---------------------------- MODULE RetryHistory ----------------------------
(***************************************************************************)
(* TunnelGui with a history variable that counts the automatic reconnects  *)
(* since a connection last came up or the user last acted.  poll_worker    *)
(* announces at most RetryLimit of them ("{}/5", crates/gui/src/main.rs:275) *)
(* and has a message for the moment it gives up (main.rs:281).             *)
(***************************************************************************)
EXTENDS TunnelGui

VARIABLE attempts   \* stays at RetryLimit + 1 once it is there

historyVars == <<vars, attempts>>

HistoryInit == Init /\ attempts = 0

\* logic() runs connect() because the retry timer has expired.
Reconnects == gui = "logic" /\ gui' = "input" /\ retryAt = "due"

\* The series ends with a connection, a click, or the end of the program.
SeriesEnds ==
    \/ state' = "Connected"
    \/ gui = "input" /\ state' # state
    \/ gui' = "down"

HistoryNext ==
    /\ Next
    /\ attempts' = CASE Reconnects /\ attempts <= RetryLimit -> attempts + 1
                     [] SeriesEnds -> 0
                     [] OTHER -> attempts

HistorySpec == HistoryInit /\ [][HistoryNext]_historyVars

\* The client gives up after RetryLimit reconnects in a row without a connection:
\* poll_worker counts them in retry_count and compares it with the limit.
RetriesAreBounded == attempts <= RetryLimit

=============================================================================
