---------------------------- MODULE Transactions ----------------------------
(* One caller of ConnectionResolver.transact (database/connections.py) and    *)
(* the after-commit buffer of the event dispatcher (events/dispatcher.py):    *)
(* nested blocks are savepoints, the outermost one owns the buffer, transient *)
(* errors are retried. transaction() alone is transact with one attempt.      *)
(* Helpers are tasks started inside the block: asyncio copies the context, so *)
(* they keep the block's connection and buffer for as long as they live.      *)
EXTENDS Naturals, Sequences, SequencesExt, TLC
CONSTANTS
    Work,       \* a row and the event or job dispatched about it
    Helpers,    \* tasks started inside the transaction
    Attempts,   \* transact(attempts=...)
    MaxFrames   \* bound: the outermost block and its nested savepoints
VARIABLES
    pc,         \* where the caller is
    attempt,    \* the attempt it is at
    error,      \* the exception on its way out, or the replay's first failure
    frames,     \* the rows written in each open block, outermost first
    stored,     \* the rows that are committed
    buffer,     \* _ac_buffer: the work deferred and not replayed yet
    started,    \* [Helpers -> the attempt whose context it copied, 0 before]
    log,        \* history: what was run, as <<work, attempt>>
    asked,      \* history: what was deferred in time, as <<work, attempt>>
    commits,    \* history: the attempts whose COMMIT succeeded
    late,       \* history: the attempts in whose replay something transient came up
    dropped     \* history: what was deferred when no replay could see it any more

data == <<frames, stored>>
history == <<log, asked, commits, late, dropped>>
txVars == <<pc, attempt, error, data, buffer, started, history>>

ASSUME TransactionsAssumption == Attempts \in Nat \ {0} /\ MaxFrames \in Nat \ {0}

Errors == {"transient", "permanent"}
Over == {"done", "raised", "cancelled", "dead"}
Labels == {"begin", "body", "unwind", "commit", "replay", "settle"} \cup Over

TxTypeOK ==
    /\ pc \in Labels
    /\ attempt \in 1..Attempts
    /\ error \in Errors \cup {"none"}
    /\ frames \in Seq(SUBSET Work)
    /\ stored \subseteq Work
    /\ buffer \in Seq(Work)
    /\ started \in [Helpers -> 0..Attempts]
    /\ log \in Seq(Work \X (1..Attempts)) /\ asked \in Seq(Work \X (1..Attempts))
    /\ commits \subseteq 1..Attempts /\ late \subseteq 1..Attempts
    /\ dropped \subseteq Work

TxInit ==
    /\ pc = "begin" /\ attempt = 1 /\ error = "none"
    /\ frames = <<>> /\ stored = {} /\ buffer = <<>>
    /\ started = [h \in Helpers |-> 0]
    /\ log = <<>> /\ asked = <<>> /\ commits = {} /\ late = {}
    /\ dropped = {}

Written == UNION Range(frames)

\* A list that the replay will still see: a Python for loop over the list also
\* meets what is appended while it runs.
Collecting == pc \in {"body", "unwind", "commit", "replay"}

----------------------------------------------------------------------------
(* The caller *)

\* The dispatcher's buffer is opened first, then the connection.
Begin ==
    /\ pc = "begin"
    /\ buffer' = <<>>
    /\ \/ /\ pc' = "body" /\ frames' = << {} >>
          /\ UNCHANGED error
       \/ /\ pc' = "settle" /\ error' \in Errors
          /\ UNCHANGED frames
    /\ UNCHANGED <<attempt, stored, started, history>>

WriteRow(w) ==
    frames' = [frames EXCEPT ![Len(frames)] = @ \cup {w}]

Write(w) ==
    /\ pc = "body"
    /\ w \notin Written
    /\ WriteRow(w)
    /\ UNCHANGED <<pc, attempt, error, stored, buffer, started, history>>

Append2Buffer(w) ==
    /\ <<w, attempt>> \notin Range(asked)
    /\ buffer' = Append(buffer, w)
    /\ asked' = Append(asked, <<w, attempt>>)

Defer(w) ==
    /\ pc = "body"
    /\ w \in Written
    /\ Append2Buffer(w)
    /\ UNCHANGED <<pc, attempt, error, data, started, log, commits, late, dropped>>

OpenSavepoint ==
    /\ pc = "body"
    /\ Len(frames) < MaxFrames
    /\ frames' = Append(frames, {})
    /\ UNCHANGED <<pc, attempt, error, stored, buffer, started, history>>

\* Mutant: a savepoint replays like a commit, when its block is released.
EagerSavepoint ==
    /\ pc = "body"
    /\ Len(frames) > 1
    /\ frames' = [Front(frames) EXCEPT ![Len(frames) - 1] = @ \cup Last(frames)]
    /\ log' = log \o [i \in DOMAIN buffer |-> <<buffer[i], attempt>>]
    /\ buffer' = <<>>
    /\ UNCHANGED <<pc, attempt, error, stored, started, asked, commits, late, dropped>>

ReleaseSavepoint ==
    /\ pc = "body"
    /\ Len(frames) > 1
    /\ frames' = [Front(frames) EXCEPT ![Len(frames) - 1] = @ \cup Last(frames)]
    /\ UNCHANGED <<pc, attempt, error, stored, buffer, started, history>>

\* A statement or the caller's own code raises; a cancellation is permanent.
Raise(e) ==
    /\ pc = "body"
    /\ pc' = "unwind" /\ error' = e
    /\ UNCHANGED <<attempt, data, buffer, started, history>>

\* begin_nested rolls back to the savepoint; the buffer is the outer block's.
RollbackSavepoint(caught) ==
    /\ pc = "unwind"
    /\ Len(frames) > 1
    /\ frames' = Front(frames)
    /\ IF caught THEN pc' = "body" /\ error' = "none"
                 ELSE UNCHANGED <<pc, error>>
    /\ UNCHANGED <<attempt, stored, buffer, started, history>>

Rollback ==
    /\ pc = "unwind"
    /\ Len(frames) = 1
    /\ pc' = "settle" /\ frames' = <<>> /\ buffer' = <<>>
    /\ UNCHANGED <<attempt, error, stored, started, history>>

\* The block ends: _active_conn is reset, then engine.begin() commits.
Leave ==
    /\ pc = "body"
    /\ Len(frames) = 1
    /\ pc' = "commit"
    /\ UNCHANGED <<attempt, error, data, buffer, started, history>>

Commit ==
    /\ pc = "commit"
    /\ pc' = "replay"
    /\ stored' = stored \cup frames[1]
    /\ frames' = <<>>
    /\ commits' = commits \cup {attempt}
    /\ UNCHANGED <<attempt, error, buffer, started, log, asked, late, dropped>>

CommitFails(e) ==
    /\ pc = "commit"
    /\ pc' = "settle" /\ error' = e
    /\ frames' = <<>> /\ buffer' = <<>>
    /\ UNCHANGED <<attempt, stored, started, history>>

\* Mutant: the first exception of the replay ends it.
ReplayGivesUp(outcome) ==
    /\ pc = "replay"
    /\ buffer # <<>>
    /\ log' = Append(log, <<Head(buffer), attempt>>)
    /\ buffer' = IF outcome = "none" THEN Tail(buffer) ELSE <<>>
    /\ error' = IF error = "none" THEN outcome ELSE error
    /\ late' = IF outcome = "transient" THEN late \cup {attempt} ELSE late
    /\ UNCHANGED <<pc, attempt, data, started, asked, commits, dropped>>

\* One turn of the replay; an exception is kept and the next one gets its chance.
Replay(outcome) ==
    /\ pc = "replay"
    /\ buffer # <<>>
    /\ log' = Append(log, <<Head(buffer), attempt>>)
    /\ buffer' = Tail(buffer)
    /\ error' = IF error = "none" THEN outcome ELSE error
    /\ late' = IF outcome = "transient" THEN late \cup {attempt} ELSE late
    /\ UNCHANGED <<pc, attempt, data, started, asked, commits, dropped>>

\* A cancellation is no Exception: it leaves the loop, and the rest is not run.
ReplayCancelled ==
    /\ pc = "replay"
    /\ buffer # <<>>
    /\ pc' = "cancelled"
    /\ log' = Append(log, <<Head(buffer), attempt>>)
    /\ buffer' = <<>>
    /\ UNCHANGED <<attempt, error, data, started, asked, commits, late, dropped>>

ReplayEnds ==
    /\ pc = "replay"
    /\ buffer = <<>>
    /\ pc' = IF error = "none" THEN "done" ELSE "settle"
    /\ UNCHANGED <<attempt, error, data, buffer, started, history>>

\* Mutant: any error is retried.
SettleAlways ==
    /\ pc = "settle"
    /\ IF attempt < Attempts
       THEN pc' = "begin" /\ attempt' = attempt + 1 /\ error' = "none"
       ELSE pc' = "raised" /\ UNCHANGED <<attempt, error>>
    /\ UNCHANGED <<data, buffer, started, history>>

\* transact's except clause: it cannot tell a failed transaction from a failed replay.
Settle ==
    /\ pc = "settle"
    /\ IF error = "transient" /\ attempt < Attempts
       THEN pc' = "begin" /\ attempt' = attempt + 1 /\ error' = "none"
       ELSE pc' = "raised" /\ UNCHANGED <<attempt, error>>
    /\ UNCHANGED <<data, buffer, started, history>>

\* The process dies: the database rolls back what was not committed.
Crash ==
    /\ pc \notin Over
    /\ pc' = "dead"
    /\ frames' = <<>> /\ buffer' = <<>>
    /\ UNCHANGED <<attempt, error, stored, started, history>>

----------------------------------------------------------------------------
(* Tasks started inside the block *)

Start(h) ==
    /\ pc = "body"
    /\ started[h] = 0
    /\ started' = [started EXCEPT ![h] = attempt]
    /\ UNCHANGED <<pc, attempt, error, data, buffer, history>>

Shares(h) == started[h] = attempt

\* On the block's connection: it lands in whatever savepoint is open there.
HelperWrite(h, w) ==
    /\ Shares(h)
    /\ pc \in {"body", "unwind"}
    /\ w \notin Written
    /\ WriteRow(w)
    /\ UNCHANGED <<pc, attempt, error, stored, buffer, started, history>>

HelperDefer(h, w) ==
    /\ Shares(h)
    /\ Collecting
    /\ Append2Buffer(w)
    /\ UNCHANGED <<pc, attempt, error, data, started, log, commits, late, dropped>>

\* Too late: its context still holds the list, which was replayed or discarded.
HelperDeferLate(h, w) ==
    /\ started[h] # 0
    /\ ~ (Shares(h) /\ Collecting)
    /\ dropped' = dropped \cup {w}
    /\ UNCHANGED <<pc, attempt, error, data, buffer, started, log, asked, commits, late>>

----------------------------------------------------------------------------
TxRun == Begin \/ Leave \/ Commit \/ Rollback \/ ReplayEnds \/ Settle
       \/ (\E caught \in BOOLEAN : RollbackSavepoint(caught))
       \/ (\E outcome \in Errors \cup {"none"} : Replay(outcome))
       \/ (pc = "body" /\ ReleaseSavepoint)

TxBody == \/ \E w \in Work : Write(w) \/ Defer(w)
        \/ \E e \in Errors : Raise(e) \/ CommitFails(e)
        \/ OpenSavepoint

TxStep == \/ TxRun \/ TxBody \/ ReplayCancelled \/ Crash
          \/ \E h \in Helpers :
                \/ Start(h)
                \/ \E w \in Work : HelperWrite(h, w) \/ HelperDefer(h, w) \/ HelperDeferLate(h, w)

TxSpec == TxInit /\ [][TxStep]_txVars

----------------------------------------------------------------------------
(* Properties *)

\* The buffer keeps the promise of AfterCommit: work runs only after the COMMIT of
\* the transaction it was deferred in, in order, once, and none of it after a
\* rollback, savepoints, retries and helpers notwithstanding.
Outbox == INSTANCE AfterCommit WITH
    phase <- CASE pc \in {"body", "unwind", "commit"} -> "open"
               [] pc = "replay" -> "flushing"
               [] pc \in {"cancelled", "dead"} -> "stopped"
               [] OTHER -> "idle",
    pending <- buffer,
    delivered <- [i \in DOMAIN log |-> log[i][1]]
ImplementsAfterCommit == Outbox!Spec

\* Work deferred before the end of a committed transaction's replay is to run, whatever
\* the work before it raised, unless the caller is cancelled or dies.
Owed == {wa \in Range(asked) \ Range(log) : wa[2] \in commits}
Abandoned == pc \in {"cancelled", "dead"}

\* The retries of transact commit the caller's block a second time only when the first
\* COMMIT had succeeded and work replayed after it raised a transient error.
CommitsAgainOnlyAfterLateError == \A a \in commits : a = attempt \/ a \in late
=============================================================================
