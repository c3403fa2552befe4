----------------------------- MODULE PodRuntime -----------------------------
(***************************************************************************)
(* The runtime support of a pod: the event waiter a main loop sleeps in    *)
(* (trackone-pod-fw/src/power.rs, on targets with SEV and WFE) and the     *)
(* liveness registry that guards the hardware watchdog (watchdog.rs).      *)
(* Interrupts and tasks run between any two accesses to an atomic.         *)
(***************************************************************************)
EXTENDS Naturals, FiniteSets

CONSTANTS
    Sources,        \* contexts that signal the waiter
    MaxEvents,      \* u8::MAX
    Bits,           \* u32::BITS
    Tasks,          \* task indexes, some perhaps beyond the word
    Masks,          \* the enabled masks the application sets
    Timeout,        \* DEFAULT_WATCHDOG_MS
    CounterModulus  \* 2^32, where the reset counter wraps

VARIABLES
    events_pending,
    event,          \* the event register of the processor
    waiter,         \* working | swapping | sleeping: the caller of wait()
    signalling,     \* the sources that have counted their event but not sent it
    enabled_mask, heartbeat_mask,
    feeding,        \* idle | ready | fed: the caller of feed_if_ready()
    timer,          \* of the hardware watchdog
    hung,           \* tasks that make no progress any more
    reset_counter   \* in the store

waiterVars == <<events_pending, event, waiter, signalling>>
registryVars == <<enabled_mask, heartbeat_mask, feeding, timer, hung, reset_counter>>
vars == <<waiterVars, registryVars>>

Init ==
    /\ events_pending = 0 /\ event = FALSE
    /\ waiter = "working" /\ signalling = {}
    /\ enabled_mask \in Masks /\ heartbeat_mask = {}
    /\ feeding = "idle" /\ timer = Timeout
    /\ hung = {} /\ reset_counter = 0
-----------------------------------------------------------------------------
(* EventWaiter *)

\* The saturating addition.
Counted == IF events_pending = MaxEvents THEN MaxEvents ELSE events_pending + 1

\* Fault: the event is sent before it is counted.
SendThenCount(s) ==
    \/ /\ s \notin signalling
       /\ signalling' = signalling \cup {s} /\ event' = TRUE
       /\ UNCHANGED events_pending
    \/ /\ s \in signalling
       /\ signalling' = signalling \ {s} /\ events_pending' = Counted
       /\ UNCHANGED event

\* signal(): the count, then SEV.
CountThenSend(s) ==
    \/ /\ s \notin signalling
       /\ signalling' = signalling \cup {s} /\ events_pending' = Counted
       /\ UNCHANGED event
    \/ /\ s \in signalling
       /\ signalling' = signalling \ {s} /\ event' = TRUE
       /\ UNCHANGED events_pending

Signal(s) == CountThenSend(s) /\ UNCHANGED <<waiter, registryVars>>

CallWait ==
    /\ waiter = "working"
    /\ waiter' = "swapping"
    /\ UNCHANGED <<events_pending, event, signalling, registryVars>>

\* The swap; wait() returns the number of events, or goes to sleep.
Swap ==
    /\ waiter = "swapping"
    /\ waiter' = IF events_pending # 0 THEN "working" ELSE "sleeping"
    /\ events_pending' = 0
    /\ UNCHANGED <<event, signalling, registryVars>>

\* WFE passes at once if the register is set, and clears it.
WaitForEvent ==
    /\ waiter = "sleeping" /\ event
    /\ waiter' = "swapping" /\ event' = FALSE
    /\ UNCHANGED <<events_pending, signalling, registryVars>>
-----------------------------------------------------------------------------
(* LivenessRegistry *)

CheckIn(t) ==
    /\ t \notin hung
    /\ heartbeat_mask' = IF t < Bits THEN heartbeat_mask \cup {t} ELSE heartbeat_mask
    /\ UNCHANGED <<enabled_mask, feeding, timer, hung, reset_counter, waiterVars>>

Hang(t) ==
    /\ t \notin hung
    /\ hung' = hung \cup {t}
    /\ UNCHANGED <<enabled_mask, heartbeat_mask, feeding, timer, reset_counter, waiterVars>>

\* all_ready()
AllReady == enabled_mask \subseteq heartbeat_mask

\* feed_if_ready(): the test, the feed and the clearing are three accesses.
TestReady ==
    /\ feeding = "idle" /\ AllReady
    /\ feeding' = "ready"
    /\ UNCHANGED <<enabled_mask, heartbeat_mask, timer, hung, reset_counter, waiterVars>>

Feed ==
    /\ feeding = "ready"
    /\ feeding' = "fed" /\ timer' = Timeout
    /\ UNCHANGED <<enabled_mask, heartbeat_mask, hung, reset_counter, waiterVars>>

\* Fault: the heartbeats stay for the next interval.
ClearNothing ==
    /\ feeding = "fed"
    /\ feeding' = "idle"
    /\ UNCHANGED <<enabled_mask, heartbeat_mask, timer, hung, reset_counter, waiterVars>>

Clear ==
    /\ feeding = "fed"
    /\ feeding' = "idle" /\ heartbeat_mask' = {}
    /\ UNCHANGED <<enabled_mask, timer, hung, reset_counter, waiterVars>>

\* Takes the registry exclusively, so nothing is in feed_if_ready().
SetEnabledMask ==
    /\ feeding = "idle"
    /\ enabled_mask' \in Masks /\ heartbeat_mask' = {}
    /\ UNCHANGED <<feeding, timer, hung, reset_counter, waiterVars>>

Tick ==
    /\ timer > 0
    /\ timer' = timer - 1
    /\ UNCHANGED <<enabled_mask, heartbeat_mask, feeding, hung, reset_counter, waiterVars>>

\* A reset and the start that follows: a registry for the tasks there are, the
\* watchdog started, and record_watchdog_reset, whose store may fail.
Restart(cause) ==
    /\ events_pending' = 0 /\ event' \in BOOLEAN
    /\ waiter' = "working" /\ signalling' = {}
    /\ enabled_mask' \in Masks /\ heartbeat_mask' = {}
    /\ feeding' = "idle" /\ timer' = Timeout /\ hung' = {}
    /\ reset_counter' \in IF cause = "watchdog"
                          THEN {reset_counter, (reset_counter + 1) % CounterModulus}
                          ELSE {reset_counter}

Bite == timer = 0 /\ Restart("watchdog")

PowerLoss == Restart("power_on")
-----------------------------------------------------------------------------
Next ==
    \/ \E s \in Sources : Signal(s)
    \/ CallWait \/ Swap \/ WaitForEvent
    \/ \E t \in Tasks : CheckIn(t) \/ Hang(t)
    \/ TestReady \/ Feed \/ Clear \/ SetEnabledMask
    \/ Tick \/ Bite \/ PowerLoss

\* A context that has counted its event goes on to send it, the main loop runs
\* and returns to wait(), time passes and the hardware resets.  Nothing is
\* assumed of the tasks or of the caller of feed_if_ready().
Fairness ==
    /\ \A s \in Sources : WF_vars(s \in signalling /\ Signal(s))
    /\ WF_vars(CallWait) /\ WF_vars(Swap) /\ WF_vars(WaitForEvent)
    /\ WF_vars(Tick) /\ WF_vars(Bite)

Spec == Init /\ [][Next]_vars /\ Fairness
-----------------------------------------------------------------------------
(***************************************************************************)
(* A counted event is always taken: signal() counts and then sends, so     *)
(* wherever it falls between the swap of wait() and the transition to      *)
(* sleep, the sleeper wakes up and finds it.                               *)
(***************************************************************************)
SignalWakes == events_pending > 0 ~> events_pending = 0

(***************************************************************************)
(* An enabled task that hangs does not stay so: whenever it stops relative *)
(* to the test, the feed and the clearing of feed_if_ready(), and whatever *)
(* the other tasks report, the watchdog is not fed for ever and the pod is *)
(* reset, unless the task is disabled.                                     *)
(***************************************************************************)
HungTaskIsReset == \A t \in Tasks : t \in hung \cap enabled_mask ~> t \notin hung \cap enabled_mask
=============================================================================
