-------------------------- MODULE AuditRateLimiter --------------------------
(***************************************************************************)
(* createAuditRateLimiter (src/server/audit-log.ts): the bridge writes at  *)
(* most MaxEvents rejection records per window in detail and replaces the  *)
(* rest by a marker when suppression starts and a summary when the window  *)
(* closes.  The summary comes from a timer or from the first record after  *)
(* the window, whichever is first; the timer may be late.                  *)
(***************************************************************************)
EXTENDS Naturals

CONSTANTS
    MaxEvents,      \* options.maxEvents
    Window,         \* options.windowMs, in ticks
    MaxSuppressed,  \* bound on the records suppressed in one window
    NoTimer         \* summaryTimer = undefined

ASSUME LimiterAssumption ==
    /\ MaxEvents \in Nat \ {0}
    /\ Window \in Nat \ {0}
    /\ MaxSuppressed \in Nat \ {0}
    /\ NoTimer \notin Nat

VARIABLES
    elapsed,         \* ticks since windowStartedAt, saturated at Window
    eventCount,
    suppressedCount,
    timer,           \* ticks until summaryTimer is due
    unreported,      \* history: suppressed records no summary has counted yet
    announced        \* history: a marker announced the suppression of this window

limiterVars == <<elapsed, eventCount, suppressedCount, timer, unreported, announced>>

LimiterInit ==
    /\ elapsed = 0
    /\ eventCount = 0
    /\ suppressedCount = 0
    /\ timer = NoTimer
    /\ unreported = 0
    /\ announced = FALSE

\* Mutant: a whole window from now instead of the rest of this one.
RemainingWindow == Window

\* The delay of a summary timer set now.
Remaining == Window - elapsed

\* record() inside the window, below the limit.
RecordDetailed ==
    /\ elapsed < Window
    /\ eventCount < MaxEvents
    /\ eventCount' = eventCount + 1
    /\ UNCHANGED <<elapsed, suppressedCount, timer, unreported, announced>>

\* Mutant: no timer, the next window's first record has to flush.
RecordSuppressedWithoutTimer ==
    /\ elapsed < Window
    /\ eventCount = MaxEvents
    /\ suppressedCount < MaxSuppressed
    /\ suppressedCount' = suppressedCount + 1
    /\ unreported' = unreported + 1
    /\ announced' = TRUE
    /\ UNCHANGED <<elapsed, eventCount, timer>>

\* record() inside the window, at the limit: the first one announces the
\* suppression and sets the timer.
RecordSuppressed ==
    /\ elapsed < Window
    /\ eventCount = MaxEvents
    /\ suppressedCount < MaxSuppressed
    /\ suppressedCount' = suppressedCount + 1
    /\ unreported' = unreported + 1
    /\ IF suppressedCount = 0
       THEN timer' = Remaining /\ announced' = TRUE
       ELSE UNCHANGED <<timer, announced>>
    /\ UNCHANGED <<elapsed, eventCount>>

\* record() after the window: flushSummary, the reset, and its own detail.
RecordInNewWindow ==
    /\ elapsed = Window
    /\ timer' = NoTimer
    /\ unreported' = 0
    /\ announced' = FALSE
    /\ elapsed' = 0
    /\ eventCount' = 1
    /\ suppressedCount' = 0

\* flushSummary from the timer.  It resets no counter.
SummaryTimer ==
    /\ timer = 0
    /\ timer' = NoTimer
    /\ unreported' = 0
    /\ UNCHANGED <<elapsed, eventCount, suppressedCount, announced>>

LimiterTick ==
    /\ elapsed' = IF elapsed < Window THEN elapsed + 1 ELSE Window
    /\ timer' = IF timer \in Nat \ {0} THEN timer - 1 ELSE timer
    /\ UNCHANGED <<eventCount, suppressedCount, unreported, announced>>

-----------------------------------------------------------------------------
(* Properties *)

\* No record is dropped silently: while a suppressed record is in no summary
\* yet, a summary timer is running that will fire at the end of the window at
\* the latest, even if nothing is ever rejected again.
SuppressionIsAnnounced ==
    unreported > 0 => /\ timer # NoTimer
                      /\ timer <= Window - elapsed
                      /\ announced
=============================================================================
