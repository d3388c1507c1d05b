--------------------------- MODULE ThreadDiagnostics ---------------------------
(***************************************************************************)
(* The Thread diagnostics (components/thread_diagnostics).                 *)
(*                                                                         *)
(* update() runs on the main loop; OpenThread runs in a task of its own    *)
(* and changes whatever it likes while it holds the OpenThread lock.       *)
(* update() waits for the lock, but not for long, reads what it shows one  *)
(* call after another, gives the lock back and publishes.                  *)
(*                                                                         *)
(* The stack is its role and the network it is in: partition, addresses,   *)
(* parent, neighbours and counters are all taken to tell which one.  It is *)
(* a full Thread device with an SRP client; a minimal one, as the packages *)
(* configure it, has fewer behaviours: it is never a router or leader.     *)
(***************************************************************************)
EXTENDS Naturals, Sequences

CONSTANTS
    Networks,
    Unavailable,
    Configured,   \* the entities that the configuration has
    LockWait      \* 100 ms, in ticks

Roles == {"disabled", "detached", "child", "router", "leader"}

Attached(role) == role \in {"child", "router", "leader"}

(***************************************************************************)
(* Each entity that may be configured, and the part of the snapshot that   *)
(* it shows.                                                               *)
(***************************************************************************)
Source ==
    [attached |-> "role", srp_client_running |-> "srp",
     role |-> "role", rloc16 |-> "address", parent_rloc16 |-> "parent",
     partition_id |-> "partition", srp_host_state |-> "srp", srp_server |-> "srp",
     router_neighbors |-> "neighbours", router_table |-> "routers",
     attach_duration |-> "link", parent_average_rssi |-> "parent",
     parent_link_quality |-> "parent", channel |-> "link", parent_changes |-> "counters",
     attach_attempts |-> "counters", ipv6_tx_failures |-> "counters",
     ipv6_rx_failures |-> "counters", mac_tx_retries |-> "counters",
     mac_cca_failures |-> "counters", mac_rx_fcs_errors |-> "counters",
     router_neighbor_count |-> "neighbours", router_neighbor_best_rssi |-> "neighbours",
     router_neighbor_worst_rssi |-> "neighbours",
     router_neighbor_min_link_quality |-> "neighbours",
     known_router_count |-> "routers", reachable_router_count |-> "routers"]

Entities == DOMAIN Source

ASSUME DiagnosticsAssumption == Configured \subseteq Entities /\ LockWait \in Nat

\* The order in which update() reads.
Fields == <<"role", "address", "link", "partition", "parent", "neighbours", "routers",
            "counters", "srp">>

VARIABLES
    stack,      \* the OpenThread instance: none, or its role and network
    lock,       \* who holds the OpenThread lock: "free", "stack", "main"
    stage,      \* how far update() is
    waited,     \* ticks it has waited
    snapshot,   \* the fields read so far
    surface,    \* the states of the configured entities
    warning,    \* the component's warning status
    moment      \* history: the stack when update() got the lock

threadVars == <<stack, lock, stage, waited, snapshot, surface, warning, moment>>

NoInstance == [role |-> "none", network |-> Unavailable]

Instance == [role : Roles, network : Networks]

-----------------------------------------------------------------------------
\* OpenThread's task.
StackTakes ==
    /\ lock = "free"
    /\ lock' = "stack"
    /\ UNCHANGED <<stack, stage, waited, snapshot, surface, warning, moment>>

StackMoves(instance) ==
    /\ lock = "stack"
    /\ stack' = instance
    /\ UNCHANGED <<lock, stage, waited, snapshot, surface, warning, moment>>

StackGives ==
    /\ lock = "stack"
    /\ lock' = "free"
    /\ UNCHANGED <<stack, stage, waited, snapshot, surface, warning, moment>>

-----------------------------------------------------------------------------
\* update(), in its steps.
Update ==
    /\ stage = "idle"
    /\ stage' = "waiting"
    /\ waited' = 0
    /\ UNCHANGED <<stack, lock, snapshot, surface, warning, moment>>

Wait ==
    /\ stage = "waiting"
    /\ waited < LockWait
    /\ waited' = waited + 1
    /\ UNCHANGED <<stack, lock, stage, snapshot, surface, warning, moment>>

\* A bug to rule out: update() waits for as long as it takes.
NeverTimesOut ==
    FALSE /\ UNCHANGED threadVars

LockTimesOut ==
    /\ stage = "waiting"
    /\ waited = LockWait
    /\ stage' = "idle"
    /\ waited' = 0
    /\ warning' = TRUE
    /\ UNCHANGED <<stack, lock, snapshot, surface, moment>>

Acquire ==
    /\ stage = "waiting"
    /\ lock = "free"
    /\ lock' = "main"
    /\ stage' = "reading"
    /\ waited' = 0
    /\ snapshot' = <<>>
    /\ moment' = stack
    /\ UNCHANGED <<stack, surface, warning>>

\* A bug to rule out: the early return keeps the lock.
GiveUpLocked ==
    /\ stage = "reading"
    /\ stack = NoInstance
    /\ stage' = "idle"
    /\ warning' = TRUE
    /\ UNCHANGED <<stack, lock, waited, snapshot, surface, moment>>

GiveUp ==
    /\ stage = "reading"
    /\ stack = NoInstance
    /\ lock' = "free"
    /\ stage' = "idle"
    /\ warning' = TRUE
    /\ UNCHANGED <<stack, waited, snapshot, surface, moment>>

\* Whether update() shows the field in this role, and whether the call that
\* reads it may fail.
Applies(field, role) ==
    CASE field \in {"address", "partition", "neighbours"} -> Attached(role)
      [] field = "parent"  -> role = "child"
      [] field = "routers" -> role \in {"router", "leader"}
      [] OTHER -> TRUE

MayFail(field) == field \in {"partition", "parent", "counters", "srp"}

\* The role itself is the first field, and decides on the others.
Readings(field) ==
    IF field = "role" THEN {stack.role}
    ELSE IF Applies(field, snapshot[1])
    THEN {stack.network} \cup (IF MayFail(field) THEN {Unavailable} ELSE {})
    ELSE {Unavailable}

Read ==
    /\ stage = "reading"
    /\ stack # NoInstance
    /\ Len(snapshot) < Len(Fields)
    /\ \E value \in Readings(Fields[Len(snapshot) + 1]) : snapshot' = Append(snapshot, value)
    /\ UNCHANGED <<stack, lock, stage, waited, surface, warning, moment>>

\* A bug to rule out: the lock is given back when the role is known.
ReleaseEarly ==
    /\ stage = "reading"
    /\ snapshot # <<>>
    /\ Len(snapshot) = Len(Fields) \/ lock = "main"
    /\ lock' = IF lock = "main" THEN "free" ELSE lock
    /\ stage' = IF Len(snapshot) = Len(Fields) THEN "publishing" ELSE "reading"
    /\ UNCHANGED <<stack, waited, snapshot, surface, warning, moment>>

Release ==
    /\ stage = "reading"
    /\ Len(snapshot) = Len(Fields)
    /\ lock' = "free"
    /\ stage' = "publishing"
    /\ UNCHANGED <<stack, waited, snapshot, surface, warning, moment>>

PositionOf(field) == CHOOSE i \in DOMAIN Fields : Fields[i] = field

Publish ==
    /\ stage = "publishing"
    /\ surface' = [entity \in Configured |-> snapshot[PositionOf(Source[entity])]]
    /\ warning' = FALSE
    /\ stage' = "idle"
    /\ snapshot' = <<>>
    /\ UNCHANGED <<stack, lock, waited, moment>>

-----------------------------------------------------------------------------
ThreadInit ==
    /\ stack = NoInstance
    /\ lock = "free"
    /\ stage = "idle"
    /\ waited = 0
    /\ snapshot = <<>>
    /\ surface = [entity \in Configured |-> Unavailable]
    /\ warning = FALSE
    /\ moment = NoInstance

UpdateNext == LockTimesOut \/ Acquire \/ GiveUp \/ Read \/ Release \/ Publish

ThreadNext ==
    \/ StackTakes
    \/ \E instance \in Instance : StackMoves(instance)
    \/ StackGives
    \/ Update
    \/ Wait
    \/ UpdateNext

\* Time passes and the main loop's task runs; the OpenThread task may keep its
\* lock for ever.
ThreadFairness == WF_threadVars(Wait) /\ WF_threadVars(UpdateNext)

ThreadSpec == ThreadInit /\ [][ThreadNext]_threadVars /\ ThreadFairness

-----------------------------------------------------------------------------
\* Between two updates the entities show the stack as it was at one moment, the
\* one at which the last update that got the lock got it, unless it warns:
\* no entity of one role or network beside one of another, and what applies to
\* that role is shown.
SurfaceOfOneMoment ==
    stage = "idle" /\ ~warning /\ moment # NoInstance =>
        \A entity \in Configured :
            LET field == Source[entity] IN
            IF field = "role" THEN surface[entity] = moment.role
            ELSE IF ~Applies(field, moment.role) THEN surface[entity] = Unavailable
            ELSE surface[entity] = moment.network
                 \/ (MayFail(field) /\ surface[entity] = Unavailable)

\* OpenThread is never locked out: on whatever path update() ends, also when
\* there is no instance, it holds the lock no longer.
LockGivenBack == lock = "main" => stage = "reading"

\* The main loop always gets on, even when OpenThread never gives its lock back.
UpdateReturns == stage # "idle" ~> stage = "idle"
=============================================================================
