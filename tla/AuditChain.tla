----------------------------- MODULE AuditChain -----------------------------
(* The security event log of one tenant: the hash chain that write_event of   *)
(* app/modules/audit/security_log.py keeps in three separate calls (read the  *)
(* tail, put the event, advance the tail), each of which may fail, and the    *)
(* events the agent runtimes put into the same table outside of the chain     *)
(* (services/agent-runtime/audit.py).  An event stands for its hash.          *)
EXTENDS Integers, FiniteSets

CONSTANTS
    Events,            \* the events written
    NoEvent            \* no prev_hash

ASSUME NoEventAssumption == NoEvent \notin Events

VARIABLES
    tail,              \* latest_hash of the _CHAIN_TAIL_ item, or NoEvent
    logged,            \* the events ever put, with their prev_hash: expiry is left out
    writer,            \* [Events -> where its write_event is]
    chainBroken,       \* has a call failed after the event was put?
    writersOverlap     \* may two write_event calls overlap?  fixed by the initial state

auditVars == <<tail, logged, writer, chainBroken, writersOverlap>>

----------------------------------------------------------------------------

Chained == [event : Events, prev : Events \cup {NoEvent}]
Unchained == [event : Events]

AuditTypeOK ==
    /\ tail \in Events \cup {NoEvent}
    /\ logged \subseteq Chained \cup Unchained
    /\ \A e \in Events :
          /\ writer[e].at \in {"idle", "put", "advance", "done"}
          /\ writer[e].prev \in Events \cup {NoEvent}
    /\ chainBroken \in BOOLEAN
    /\ writersOverlap \in BOOLEAN

AuditInit ==
    /\ tail = NoEvent
    /\ logged = {}
    /\ writer = [e \in Events |-> [at |-> "idle", prev |-> NoEvent]]
    /\ chainBroken = FALSE
    /\ writersOverlap \in BOOLEAN

----------------------------------------------------------------------------

WriterGoes(e, state) == writer' = [writer EXCEPT ![e].at = state]

\* _get_chain_tail_hash, or its exception: the event is dropped.
ReadTail(e) ==
    /\ writer[e].at = "idle"
    /\ writersOverlap \/ \A f \in Events : writer[f].at \in {"idle", "done"}
    /\ \/ writer' = [writer EXCEPT ![e] = [at |-> "put", prev |-> tail]]
       \/ WriterGoes(e, "done")
    /\ UNCHANGED <<tail, logged, chainBroken, writersOverlap>>

\* Mutant of PutEvent: a failed put advances the tail all the same.
PutEventAnyway(e) ==
    /\ writer[e].at = "put"
    /\ logged' \in {logged, logged \cup {[event |-> e, prev |-> writer[e].prev]}}
    /\ WriterGoes(e, "advance")
    /\ UNCHANGED <<tail, chainBroken, writersOverlap>>

\* A failed put drops the event; a put that took effect and whose answer was
\* lost leaves it in the log, and the tail where it was.
PutEvent(e) ==
    /\ writer[e].at = "put"
    /\ \/ /\ logged' = logged \cup {[event |-> e, prev |-> writer[e].prev]}
          /\ \/ WriterGoes(e, "advance") /\ UNCHANGED chainBroken
             \/ WriterGoes(e, "done") /\ chainBroken' = TRUE
       \/ WriterGoes(e, "done") /\ UNCHANGED <<logged, chainBroken>>
    /\ UNCHANGED <<tail, writersOverlap>>

AdvanceTail(e) ==
    /\ writer[e].at = "advance"
    /\ \/ tail' = e /\ UNCHANGED chainBroken
       \/ chainBroken' = TRUE /\ UNCHANGED tail
    /\ WriterGoes(e, "done")
    /\ UNCHANGED <<logged, writersOverlap>>

\* write_audit_event of an agent runtime: one put, without prev_hash.
RuntimePutsEvent(e) ==
    /\ writer[e].at = "idle"
    /\ logged' = logged \cup {[event |-> e]}
    /\ WriterGoes(e, "done")
    /\ UNCHANGED <<tail, chainBroken, writersOverlap>>

AuditNext ==
    \E e \in Events : ReadTail(e) \/ PutEvent(e) \/ AdvanceTail(e) \/ RuntimePutsEvent(e)

AuditSpec == AuditInit /\ [][AuditNext]_auditVars

----------------------------------------------------------------------------
(* Properties *)

ChainedEvents == {entry \in logged : entry \in Chained}

\* Only events written at the same time fork the chain, or a call that failed
\* after its event was in the table: else no two events name the same
\* predecessor.  And, whatever overlaps or fails, an event never names one
\* that was not written: the tail follows the event it names.
ChainForksOnlyByRace ==
    /\ ~writersOverlap /\ ~chainBroken =>
          \A x, y \in ChainedEvents : x.prev = y.prev => x = y
    /\ \A x \in ChainedEvents : x.prev # NoEvent => \E y \in ChainedEvents : y.event = x.prev

=============================================================================
