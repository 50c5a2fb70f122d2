--------------------------- MODULE AgentContainer ---------------------------
(* Which configuration a container of the agent runtime serves                *)
(* (services/agent-runtime/config_loader.py), while versions are saved and    *)
(* deployed.  The task definition pins the hash of the deployed version's     *)
(* configuration (compute.tf.j2); a container reads the version the registry  *)
(* names when it starts, and refuses to start when the hash differs.          *)
EXTENDS Integers, FiniteSets

CONSTANTS
    Containers,        \* the tasks ECS may run at once
    Configurations,    \* what a version can be configured to
    MaxSaved           \* bound on the versions saved

ASSUME ContainerAssumption == MaxSaved \in Nat \ {0}

VARIABLES
    saved,             \* [1 .. n -> Configurations]: the versions table, never overwritten
    live,              \* live_version, 0 until a deployment is marked active
    definition,        \* the version the service's task definition was rendered from, or 0
    rollout,           \* the deployments under way: version |-> stage
    lastActive,        \* did the last deployment that ended become active?
    container,         \* [Containers -> what the task runs]
    deploysOverlap     \* may deployments overlap?  fixed by the initial state

containerVars ==
    <<saved, live, definition, rollout, lastActive, container, deploysOverlap>>

----------------------------------------------------------------------------

Saved == DOMAIN saved

CurrentVersion == Cardinality(Saved)

Stages == {"approved", "applied", "healthy"}

Stopped == [state |-> "stopped", pinned |-> 0, version |-> 0]

ContainerTypeOK ==
    /\ Saved \subseteq 1 .. MaxSaved
    /\ \A v \in Saved : saved[v] \in Configurations
    /\ live \in {0} \cup Saved
    /\ definition \in {0} \cup Saved
    /\ DOMAIN rollout \subseteq Saved
    /\ \A v \in DOMAIN rollout : rollout[v] \in Stages
    /\ lastActive \in BOOLEAN
    /\ \A c \in Containers :
          container[c] \in [state : {"stopped", "serving", "refused"},
                            pinned : {0} \cup Saved, version : {0} \cup Saved]
    /\ deploysOverlap \in BOOLEAN

ContainerInit ==
    /\ \E configuration \in Configurations : saved = [v \in {1} |-> configuration]
    /\ live = 0
    /\ definition = 0
    /\ rollout = [v \in {} |-> "approved"]
    /\ lastActive = FALSE
    /\ container = [c \in Containers |-> Stopped]
    /\ deploysOverlap \in BOOLEAN

----------------------------------------------------------------------------
(* The control plane *)

SaveVersion ==
    /\ CurrentVersion < MaxSaved
    /\ \E configuration \in Configurations :
          saved' = [v \in Saved \cup {CurrentVersion + 1} |->
                       IF v \in Saved THEN saved[v] ELSE configuration]
    /\ UNCHANGED <<live, definition, rollout, lastActive, container, deploysOverlap>>

StartRollout ==
    /\ deploysOverlap \/ DOMAIN rollout = {}
    /\ \E v \in Saved \ DOMAIN rollout :
          rollout' = [w \in DOMAIN rollout \cup {v} |->
                         IF w = v THEN "approved" ELSE rollout[w]]
    /\ UNCHANGED <<saved, live, definition, lastActive, container, deploysOverlap>>

\* terraform apply registers the task definition rendered for the version and
\* does not wait for its tasks.
Apply(v) ==
    /\ v \in DOMAIN rollout
    /\ rollout[v] = "approved"
    /\ definition' = v
    /\ rollout' = [rollout EXCEPT ![v] = "applied"]
    /\ UNCHANGED <<saved, live, lastActive, container, deploysOverlap>>

Without(v) == [w \in DOMAIN rollout \ {v} |-> rollout[w]]

\* HEALTH_CHECK probes health_check_url, which nothing records: it passes
\* whether or not a task of the version serves.
PassHealthCheck(v) ==
    /\ v \in DOMAIN rollout
    /\ rollout[v] = "applied"
    /\ rollout' = [rollout EXCEPT ![v] = "healthy"]
    /\ UNCHANGED <<saved, live, definition, lastActive, container, deploysOverlap>>

\* Mutant of MarkLive: what goes live is the version current by then.
MarkCurrentLive(v) ==
    /\ v \in DOMAIN rollout
    /\ rollout[v] = "healthy"
    /\ live' = CurrentVersion
    /\ rollout' = Without(v)
    /\ lastActive' = TRUE
    /\ UNCHANGED <<saved, definition, container, deploysOverlap>>

MarkLive(v) ==
    /\ v \in DOMAIN rollout
    /\ rollout[v] = "healthy"
    /\ live' = v
    /\ rollout' = Without(v)
    /\ lastActive' = TRUE
    /\ UNCHANGED <<saved, definition, container, deploysOverlap>>

\* A task of the workflow raises: MarkFailed, which leaves the service as it is.
FailRollout(v) ==
    /\ v \in DOMAIN rollout
    /\ rollout' = Without(v)
    /\ lastActive' = FALSE
    /\ UNCHANGED <<saved, live, definition, container, deploysOverlap>>

----------------------------------------------------------------------------
(* ECS and the container *)

\* load_agent_config: the live version, or the current one before the first
\* deployment is marked active.
VersionToLoad == IF live # 0 THEN live ELSE CurrentVersion

\* compute_config_hash of the configuration, as _verify_config_hash compares it
\* with AGENT_CONFIG_HASH: equal hashes stand for equal configurations.
HashMatches(loaded, pinned) == saved[loaded] = saved[pinned]

StartContainer(c) ==
    /\ definition # 0
    /\ container[c].state # "serving"
    /\ container' = [container EXCEPT ![c] =
          [state |-> IF HashMatches(VersionToLoad, definition) THEN "serving" ELSE "refused",
           pinned |-> definition, version |-> VersionToLoad]]
    /\ UNCHANGED <<saved, live, definition, rollout, lastActive, deploysOverlap>>

\* A task dies, or is drained once a task of the new definition serves.
StopContainer(c) ==
    /\ container[c].state = "serving"
    /\ container' = [container EXCEPT ![c] = Stopped]
    /\ UNCHANGED <<saved, live, definition, rollout, lastActive, deploysOverlap>>

ContainerNext ==
    \/ SaveVersion
    \/ StartRollout
    \/ \E v \in Saved : Apply(v) \/ PassHealthCheck(v) \/ MarkLive(v) \/ FailRollout(v)
    \/ \E c \in Containers : StartContainer(c) \/ StopContainer(c)

ContainerSpec == ContainerInit /\ [][ContainerNext]_containerVars

----------------------------------------------------------------------------
(* Properties *)

\* After a deployment that became active the service can replace its task: the
\* version a container would load has the configuration the definition pins.
\* For deployments one at a time, and until the next one is applied.
ActiveCanRestart ==
    ~deploysOverlap /\ lastActive /\ (\A v \in DOMAIN rollout : rollout[v] = "approved")
    => HashMatches(VersionToLoad, definition)

\* "A config change takes effect on the NEXT deployed task": with deployments
\* one at a time and no version saved meanwhile, the task a deployment starts
\* serves.  Its configuration is compared with that of the version still live.
NextTaskTakesChange ==
    ~deploysOverlap /\ CurrentVersion = definition
    => \A c \in Containers : container[c].state = "refused" => container[c].pinned # definition

=============================================================================
