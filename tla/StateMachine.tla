---------------------------- MODULE StateMachine ----------------------------
(***************************************************************************)
(* The two transition tables of tax_auto/core/state_machine.py: the        *)
(* lifecycle of a fetch run (a row of the runs table) and the lifecycle of *)
(* a tenant's browser session (a row of the sessions table).  The worker   *)
(* never consults the tables, so they are a promise about the rows it      *)
(* writes, and FetchRun.tla checks the writes against them.                *)
(***************************************************************************)

RunTransitions ==
  [ PENDING         |-> {"AUTHENTICATING", "FAILED"},
    AUTHENTICATING  |-> {"NAVIGATING", "NEEDS_HUMAN", "FAILED"},
    NAVIGATING      |-> {"QUERYING", "VISION_FALLBACK", "NEEDS_HUMAN", "FAILED"},
    QUERYING        |-> {"DOWNLOADING", "VISION_FALLBACK", "NEEDS_HUMAN",
                         "FAILED", "DONE"},
    DOWNLOADING     |-> {"POLLING", "VISION_FALLBACK", "NEEDS_HUMAN", "FAILED"},
    POLLING         |-> {"ARCHIVING", "VISION_FALLBACK", "NEEDS_HUMAN", "FAILED"},
    ARCHIVING       |-> {"DONE", "FAILED"},
    VISION_FALLBACK |-> {"NAVIGATING", "QUERYING", "DOWNLOADING", "POLLING",
                         "NEEDS_HUMAN", "FAILED"},
    NEEDS_HUMAN     |-> {"NAVIGATING", "QUERYING", "DOWNLOADING", "POLLING",
                         "ARCHIVING", "FAILED"},
    DONE            |-> {},
    FAILED          |-> {} ]

RunState == {"PENDING", "AUTHENTICATING", "NAVIGATING", "QUERYING",
             "DOWNLOADING", "POLLING", "ARCHIVING", "VISION_FALLBACK",
             "NEEDS_HUMAN", "DONE", "FAILED"}

TerminalRunStates == {"DONE", "FAILED"}

CanTransition(src, dst) == dst \in RunTransitions[src]

SessionTransitions ==
  [ FRESH   |-> {"VALID", "LOCKED", "EXPIRED"},
    VALID   |-> {"LOCKED", "EXPIRED"},
    LOCKED  |-> {"VALID", "EXPIRED"},
    EXPIRED |-> {"FRESH"} ]

SessionState == {"FRESH", "VALID", "LOCKED", "EXPIRED"}

CanSessionTransition(src, dst) == dst \in SessionTransitions[src]
=============================================================================
