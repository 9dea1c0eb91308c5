----------------------------- MODULE AgentMemory -----------------------------
(***************************************************************************)
(* The agents' memories (agents/memory/), one scope of each: the shared    *)
(* memory's entry with its version and its lock, the conversation history, *)
(* and the workspace and the scratchpad with their two storages, the base  *)
(* class's and their own.  Storage is in the process, so an operation      *)
(* waits one microtask, after it has read and before it acts; microtasks   *)
(* run in the order they were queued in.                                   *)
(***************************************************************************)
EXTENDS Integers, Sequences, FiniteSets, SequencesExt

CONSTANTS
    Operations,     \* operations on a memory, each made once
    AgentOf,        \* the agent each is made for
    Keys,           \* keys of the workspace and the scratchpad
    MaxKeys,        \* maxKeysPerWorkspace
    MaxHistory,     \* maxHistorySize
    Absent

ASSUME MemoryAssumption ==
    /\ MaxKeys \in Nat \ {0}
    /\ MaxHistory \in Nat \ {0}
    /\ Absent \notin Operations

Stores == {"workspace", "scratchpad"}

VARIABLES
    entry,          \* the shared entry: who wrote it, version, lockedBy
    lock,           \* its lock: id, agent, and whether it is still valid
    history,        \* the array that holds the conversation
    arrays,         \* what each array holds
    storage,        \* the base class's storage of each store: its keys
    scoped,         \* a store's own storage
    cleanupDue,     \* the scratchpad's timer
    ops,            \* what each operation is doing
    microtasks,     \* the operations that wait, in order
    holds,          \* history: the valid lock each operation obtained
    written,        \* history: accepted writes and their versions since the entry began
    said,           \* history: the messages a serial conversation would hold
    overlapped      \* history: has one operation begun while another waited?

memoryVars == <<entry, lock, history, arrays, storage, scoped, cleanupDue, ops, microtasks, holds,
                written, said, overlapped>>

MemoryInit ==
    /\ entry = Absent
    /\ lock = Absent
    /\ history = Absent
    /\ arrays = [o \in Operations |-> <<>>]
    /\ storage = [s \in Stores |-> {}]
    /\ scoped = [s \in Stores |-> {}]
    /\ cleanupDue = FALSE
    /\ ops = [o \in Operations |-> [at |-> "idle"]]
    /\ microtasks = <<>>
    /\ holds = [o \in Operations |-> Absent]
    /\ written = {}
    /\ said = <<>>
    /\ overlapped = FALSE

\* An operation begins: it reads, and waits for its turn.
Await(o, what, read) ==
    /\ ops[o].at = "idle"
    /\ ops' = [ops EXCEPT ![o] = [at |-> "waiting", what |-> what, read |-> read]]
    /\ microtasks' = Append(microtasks, o)
    /\ overlapped' = (overlapped \/ microtasks # <<>>)
\* It ends with this result.
Ends(o, result) ==
    /\ ops' = [ops EXCEPT ![o] = [at |-> "done", result |-> result]]
    /\ microtasks' = Tail(microtasks)
IsNext(o, op) == microtasks # <<>> /\ Head(microtasks) = o /\ ops[o].what.op = op
\* An operation with nothing to wait for.
Sync(o) ==
    /\ ops[o].at = "idle"
    /\ ops' = [ops EXCEPT ![o] = [at |-> "done", result |-> TRUE]]
    /\ overlapped' = (overlapped \/ microtasks # <<>>)

-----------------------------------------------------------------------------
(* SharedMemory *)

WriteBegin(o, expected) ==
    /\ Await(o, [op |-> "write", expected |-> expected], entry)
    /\ UNCHANGED <<entry, lock, history, arrays, storage, scoped, cleanupDue, holds, written, said>>

\* Is it another agent that holds a valid lock?
LockedByOther(o) == lock # Absent /\ lock.agent # AgentOf[o] /\ lock.valid

VersionOf(read) == IF read = Absent THEN 0 ELSE read.version

\* Mutant: the version is not looked at.
WriteAccepted_Blind(o) == ~LockedByOther(o)

\* The version is the one that was read; the lock is the present one.
WriteAccepted(o) ==
    /\ ops[o].read # Absent => ops[o].read.version = ops[o].what.expected
    /\ ~LockedByOther(o)

WriteRefused(o) ==
    /\ ~WriteAccepted(o)
    /\ Ends(o, FALSE)
    /\ UNCHANGED <<entry, lock, written>>

WriteDone(o) ==
    LET version == VersionOf(ops[o].read) + 1
    IN  /\ WriteAccepted(o)
        /\ entry' = [by |-> o, version |-> version, lockedBy |-> Absent]
        /\ lock' = IF lock # Absent /\ lock.agent # AgentOf[o] THEN Absent ELSE lock
        /\ written' = (IF entry = Absent THEN {} ELSE written) \cup {<<o, version>>}
        /\ Ends(o, TRUE)

WriteEnd(o) ==
    /\ IsNext(o, "write")
    /\ WriteRefused(o) \/ WriteDone(o)
    /\ UNCHANGED <<history, arrays, storage, scoped, cleanupDue, holds, said, overlapped>>

LockBegin(o) ==
    /\ Await(o, [op |-> "lock"], entry)
    /\ UNCHANGED <<entry, lock, history, arrays, storage, scoped, cleanupDue, holds, written, said>>

\* Mutant: the lock of another agent is not looked at.
LockFree_Always(o) == TRUE

LockFree(o) == lock # Absent => ~lock.valid

\* A new lock marks the entry, as it was when it was read.
LockTaken(o) ==
    /\ LockFree(o)
    /\ lock' = [id |-> o, agent |-> AgentOf[o], valid |-> TRUE]
    /\ entry' = IF ops[o].read = Absent THEN entry
                ELSE [ops[o].read EXCEPT !.lockedBy = AgentOf[o]]
    /\ holds' = [holds EXCEPT ![o] = o]
    /\ Ends(o, TRUE)

\* A lock of the agent's own is given again, another's is refused.
LockFound(o) ==
    /\ ~LockFree(o)
    /\ holds' = IF lock.agent = AgentOf[o] THEN [holds EXCEPT ![o] = lock.id] ELSE holds
    /\ Ends(o, lock.agent = AgentOf[o])
    /\ UNCHANGED <<lock, entry>>

LockEnd(o) ==
    /\ IsNext(o, "lock")
    /\ LockTaken(o) \/ LockFound(o)
    /\ UNCHANGED <<history, arrays, storage, scoped, cleanupDue, written, said, overlapped>>

IsLockOf(id, agent) == lock # Absent /\ lock.id = id /\ lock.agent = agent

\* unlock(), with the id some operation was given.
UnlockFails(o, id) ==
    /\ ~IsLockOf(id, AgentOf[o])
    /\ Sync(o)
    /\ UNCHANGED <<entry, lock, history, arrays, storage, scoped, cleanupDue, microtasks, holds,
                   written, said>>

\* The lock goes at once, for everyone who was given it; the entry's mark later.
UnlockBegin(o, id) ==
    /\ IsLockOf(id, AgentOf[o])
    /\ lock' = Absent
    /\ holds' = [p \in Operations |-> IF holds[p] = id THEN Absent ELSE holds[p]]
    /\ Await(o, [op |-> "unlock"], entry)
    /\ UNCHANGED <<entry, history, arrays, storage, scoped, cleanupDue, written, said>>

UnlockEnd(o) ==
    /\ IsNext(o, "unlock")
    /\ entry' = IF ops[o].read = Absent THEN entry ELSE [ops[o].read EXCEPT !.lockedBy = Absent]
    /\ Ends(o, TRUE)
    /\ UNCHANGED <<lock, history, arrays, storage, scoped, cleanupDue, holds, written, said, overlapped>>

\* Thirty seconds pass.
LockExpires ==
    /\ lock # Absent /\ lock.valid
    /\ microtasks = <<>>
    /\ lock' = [lock EXCEPT !.valid = FALSE]
    /\ holds' = [o \in Operations |-> IF holds[o] = lock.id THEN Absent ELSE holds[o]]
    /\ UNCHANGED <<entry, history, arrays, storage, scoped, cleanupDue, ops, microtasks, written,
                   said, overlapped>>

\* isLocked() forgets an expired lock.
IsLocked(o) ==
    /\ Sync(o)
    /\ lock' = IF lock # Absent /\ ~lock.valid THEN Absent ELSE lock
    /\ UNCHANGED <<entry, history, arrays, storage, scoped, cleanupDue, microtasks, holds, written, said>>

\* The timer, between tasks.
CleanupExpiredLocks ==
    /\ lock # Absent /\ ~lock.valid
    /\ microtasks = <<>>
    /\ lock' = Absent
    /\ entry' = IF entry = Absent THEN Absent ELSE [entry EXCEPT !.lockedBy = Absent]
    /\ UNCHANGED <<history, arrays, storage, scoped, cleanupDue, ops, microtasks, holds, written,
                   said, overlapped>>

\* The base class's clear(), which leaves the lock.
ClearShared(o) ==
    /\ Sync(o)
    /\ entry' = Absent
    /\ written' = {}
    /\ UNCHANGED <<lock, history, arrays, storage, scoped, cleanupDue, microtasks, holds, said>>

-----------------------------------------------------------------------------
(* ConversationMemory *)

AppendBegin(o) ==
    /\ Await(o, [op |-> "append"], history)
    /\ UNCHANGED <<entry, lock, history, arrays, storage, scoped, cleanupDue, holds, written, said>>

LastOf(messages) == SubSeq(messages, Len(messages) - MaxHistory + 1, Len(messages))
Truncated(messages) == IF Len(messages) > MaxHistory THEN LastOf(messages) ELSE messages

\* The message goes into the array that was read, which another operation may share
\* or have replaced by now, or into a new one; a full one is replaced by its end.
AppendEnd(o) ==
    LET array == IF ops[o].read = Absent THEN o ELSE ops[o].read
        grown == Append(arrays[array], o)
    IN  /\ IsNext(o, "append")
        /\ arrays' = IF Len(grown) > MaxHistory
                     THEN [arrays EXCEPT ![array] = grown, ![o] = LastOf(grown)]
                     ELSE [arrays EXCEPT ![array] = grown]
        /\ history' = IF Len(grown) > MaxHistory THEN o ELSE array
        /\ said' = Truncated(Append(said, o))
        /\ Ends(o, TRUE)
        /\ UNCHANGED <<entry, lock, storage, scoped, cleanupDue, holds, written, overlapped>>

\* clear() saves an empty array.
ClearConversation(o) ==
    /\ Sync(o)
    /\ history' = o
    /\ said' = <<>>
    /\ UNCHANGED <<entry, lock, arrays, storage, scoped, cleanupDue, microtasks, holds, written>>

-----------------------------------------------------------------------------
(* WorkspaceMemory and ScratchpadMemory: put, get, remove and clear know their *)
(* own storage, load and save the base class's.                               *)

Save(o, s, k) ==
    /\ Sync(o)
    /\ storage' = [storage EXCEPT ![s] = @ \cup {k}]
    /\ UNCHANGED <<entry, lock, history, arrays, scoped, cleanupDue, microtasks, holds, written, said>>

PutWorkspace(o, k) ==
    /\ k \in scoped["workspace"] \/ Cardinality(scoped["workspace"]) < MaxKeys
    /\ Sync(o)
    /\ scoped' = [scoped EXCEPT !["workspace"] = @ \cup {k}]
    /\ UNCHANGED <<entry, lock, history, arrays, storage, cleanupDue, microtasks, holds, written, said>>

\* The workspace is full: put throws.
PutThrows(o, k) ==
    /\ k \notin scoped["workspace"] /\ Cardinality(scoped["workspace"]) >= MaxKeys
    /\ Sync(o)
    /\ UNCHANGED <<entry, lock, history, arrays, storage, scoped, cleanupDue, microtasks, holds,
                   written, said>>

\* The first put of an execution starts the timer, no later one does.
PutScratchpad(o, k) ==
    /\ Sync(o)
    /\ scoped' = [scoped EXCEPT !["scratchpad"] = @ \cup {k}]
    /\ cleanupDue' = TRUE
    /\ UNCHANGED <<entry, lock, history, arrays, storage, microtasks, holds, written, said>>

RemoveKey(o, s, k) ==
    /\ Sync(o)
    /\ scoped' = [scoped EXCEPT ![s] = @ \ {k}]
    /\ UNCHANGED <<entry, lock, history, arrays, storage, cleanupDue, microtasks, holds, written, said>>

ClearScoped(o, s) ==
    /\ Sync(o)
    /\ scoped' = [scoped EXCEPT ![s] = {}]
    /\ UNCHANGED <<entry, lock, history, arrays, storage, cleanupDue, microtasks, holds, written, said>>

CleanupExecution ==
    /\ cleanupDue
    /\ microtasks = <<>>
    /\ cleanupDue' = FALSE
    /\ scoped' = [scoped EXCEPT !["scratchpad"] = {}]
    /\ UNCHANGED <<entry, lock, history, arrays, storage, ops, microtasks, holds, written, said,
                   overlapped>>

-----------------------------------------------------------------------------
SharedStep(o) == WriteEnd(o) \/ LockEnd(o) \/ UnlockEnd(o)
MemoryStep(o) == SharedStep(o) \/ AppendEnd(o)
MemoryTimers == LockExpires \/ CleanupExpiredLocks \/ CleanupExecution

Held == IF history = Absent THEN <<>> ELSE arrays[history]

\* The locks of the shared memory exclude each other, through expiry, cleanup,
\* isLocked, unlock and a clear of the memory they lock: two operations that were
\* given a lock that is still valid were made for one agent, and the lock they
\* hold is there.
LocksExclusive ==
    \A o \in Operations : holds[o] # Absent =>
        IsLockOf(holds[o], AgentOf[o])

\* Optimistic locking and append are safe for clients that wait for one operation
\* before they begin the next, and that is all: until operations overlap no two
\* writes are accepted for one version, and the conversation holds the last of the
\* messages since it was cleared.  The history is bounded even when they do.
SerialMemory ==
    /\ Len(Held) <= MaxHistory
    /\ ~overlapped => /\ \A w, x \in written : w[2] = x[2] => w = x
                      /\ Held = said
                      /\ entry # Absent => <<entry.by, entry.version>> \in written
=============================================================================
