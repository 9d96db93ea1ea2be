----------------------------- MODULE RunRegistry -----------------------------
(***************************************************************************)
(* The in-memory run registry of the runtime host                          *)
(* (backend/server/run_registry.py, RunHostMetadata of                     *)
(* backend/server/models.py).  The registry is a value: a function from    *)
(* runs to entries, where an entry that is not "known" stands for a run id *)
(* absent from RunRegistry._runs.  Every public method of the class is an  *)
(* operator from a registry value to a registry value, so that the callers *)
(* can compose them inside one of their own steps.                         *)
(*                                                                         *)
(* Of the host metadata the fields that any code reads are kept; the       *)
(* registration time and the last session id are only ever copied.         *)
(***************************************************************************)
EXTENDS Integers

CONSTANTS
  Runs,   \* run ids (one uuid4 per POST /api/cases/start)
  Conns,  \* websocket connection ids (one uuid4 per accepted attach)
  NoConn, \* active_session_id = None
  TTL     \* stale_run_ttl_seconds, in ticks of the model's clock

ASSUME RegistryAssumption ==
  /\ NoConn \notin Conns
  /\ TTL \in Nat \ {0}

Never == -1  \* detached_at = None
Times == Nat \cup {Never}

Entries == [known : BOOLEAN, active : Conns \cup {NoConn},
            activity : Nat, detached : Times]

Unknown == [known |-> FALSE, active |-> NoConn, activity |-> 0, detached |-> Never]

EmptyRegistry == [r \in Runs |-> Unknown]

\* Mutated form: a run that is registered without its launch instant.
FreshEntryUndated(t) == [known |-> TRUE, active |-> NoConn, activity |-> Never, detached |-> Never]

FreshEntry(t) == [known |-> TRUE, active |-> NoConn, activity |-> t, detached |-> Never]

\* The instant staleness is counted from: detached_at wins over last_activity_at.
ActivityAt(e) == IF e.detached # Never THEN e.detached ELSE e.activity

Stale(e, t) == e.known /\ e.active = NoConn /\ ActivityAt(e) + TTL <= t

\* evict_stale_runs: every other method of the registry runs it first.
Evict(reg, t) == [r \in Runs |-> IF Stale(reg[r], t) THEN Unknown ELSE reg[r]]

\* register_launched_run; a run id registered before keeps its host metadata.
Register(reg, r, t) ==
  LET swept == Evict(reg, t) IN
  [swept EXCEPT ![r] = IF @.known THEN @ ELSE FreshEntry(t)]

\* RunHostMetadata.touch, attach and detach.
Touched(e, t) == [e EXCEPT !.activity = t]

AttachedTo(e, c, t) == [e EXCEPT !.activity = t, !.active = c, !.detached = Never]

\* Whichever session asks for it.
Detached(e, t) == [e EXCEPT !.activity = t, !.active = NoConn, !.detached = t]

\* touch_activity behind the callers' exists() check.
Touch(reg, r, t) ==
  LET swept == Evict(reg, t) IN
  IF swept[r].known THEN [swept EXCEPT ![r] = Touched(@, t)] ELSE swept

\* attach_session behind the callers' exists() check.
Attach(reg, r, c, t) ==
  LET swept == Evict(reg, t) IN
  IF swept[r].known THEN [swept EXCEPT ![r] = AttachedTo(@, c, t)] ELSE swept

\* detach_session of a run that may be gone.
Detach(reg, r, t) ==
  LET swept == Evict(reg, t) IN
  IF swept[r].known THEN [swept EXCEPT ![r] = Detached(@, t)] ELSE swept
=============================================================================
