------------------------------ MODULE ProxyPool ------------------------------
(***************************************************************************)
(* The proxies table and every coroutine that writes it.                   *)
(*                                                                         *)
(* All coroutines share one aiosqlite connection (SQLiteStore._get_db):    *)
(* its thread runs one statement at a time, each statement is awaited, and *)
(* between two awaits any other coroutine may run.  DML opens a            *)
(* transaction on the shared connection, so all tasks see it at once and   *)
(* the next commit, whoever issues it, makes it durable.  An action is one *)
(* statement with the synchronous code around it.                          *)
(*                                                                         *)
(* Tasks: validation jobs (scheduled or requested, serialised by           *)
(* _validate_lock), the validate_proxy coroutines a job gathers, API calls *)
(* (report, delete), feeds (the fetch job, URL imports) and the start-up   *)
(* geo enrichment.  Tasks are reused: there is no bound on the number of   *)
(* jobs, calls and fetches, only on how many run at once.                  *)
(***************************************************************************)
EXTENDS ProxyRules, FiniteSets

CONSTANTS
    ProxyId,      \* proxy ids, the primary key of the table
    Jobs,         \* validation runs that can be under way or waiting
    Clients,      \* API calls that can be under way
    Feeds,        \* fetch jobs and imports that can be under way
    Enrichers,    \* {} when GEO_ENABLED is off, one task when it is on
    NoId,         \* the id of a task that works on no proxy
    Batch,        \* validate_batch_size: rows a job lists from a pool
    Concurrency,  \* validate_concurrency: the semaphore of a job
    StoreFaults,  \* whether a statement may raise (disk full, I/O error)
    Crashes       \* whether the process may die and restart

Workers(j) == {j} \X ProxyId
Task == (Jobs \X ProxyId) \cup Jobs \cup Clients \cup Feeds \cup Enrichers
Looper == Jobs \cup Feeds \cup Enrichers

ASSUME PoolAssumption ==
    /\ NoId \notin ProxyId
    /\ StoreFaults \in BOOLEAN
    /\ Crashes \in BOOLEAN
    /\ Batch \in Nat \ {0}
    /\ Concurrency \in Nat \ {0}

\* A job, a client, a feed, an enricher and a worker are different coroutines.
ASSUME DisjointAssumption ==
    /\ (Jobs \X ProxyId) \cap (Jobs \cup Clients \cup Feeds \cup Enrichers) = {}
    /\ Jobs \cap (Clients \cup Feeds \cup Enrichers) = {}
    /\ Clients \cap (Feeds \cup Enrichers) = {}
    /\ Feeds \cap Enrichers = {}

VARIABLES
    table,   \* the rows every statement sees, committed or not
    disk,    \* the rows as of the last commit
    op,      \* the store call each task is in
    held,    \* the copies a loop over a list or a feed still has to process
    phase,   \* where the jobs and the enrichers are
    known,   \* history: ids stored and not deleted by the operator since
    lost,    \* history: ids whose row a fault or a crash took
    erased   \* history: ids whose delete was answered when no task had a copy, not fed since

vars == <<table, disk, op, held, phase, known, lost, erased>>
history == <<known, lost, erased>>

-----------------------------------------------------------------------------
\* The store calls, statement by statement.  remove_proxy is "select",
\* "delete", "commitDelete"; add_proxy and save_proxy are "upsert",
\* "commitUpsert".  A worker is "queued" at its semaphore and then "checking".

Statements == {"select", "delete", "commitDelete", "upsert", "commitUpsert"}

Idle == [pc |-> "idle", id |-> NoId, from |-> "any", row |-> Absent]

WriteOp == [pc : Statements \cup {"queued", "checking"},
            id : ProxyId,
            from : Pools \cup {"any"},       \* the pool remove_proxy asks for
            row : Row]                       \* the copy that is upserted

EraseOp == [pc : {"delete", "commitDelete"}, id : ProxyId, from : {"any"}, row : {Absent}]

Op == WriteOp \cup EraseOp \cup {Idle}

\* add_proxy or save_proxy of a row.
Save(p, row) == [pc |-> "upsert", id |-> p, from |-> "any", row |-> row]

\* remove_proxy(from, p), whose answer no caller looks at, then add_proxy.
Move(p, from, row) == [pc |-> "select", id |-> p, from |-> from, row |-> row]

\* delete_proxy after its SELECT found the row.
Erase(p) == [pc |-> "delete", id |-> p, from |-> "any", row |-> Absent]

Stored(p) == table[p] # Absent

\* No list, every copy used.
Empty == [p \in ProxyId |-> Absent]

\* Task t has a copy of p that it may still write.
Holds(t, p) ==
    \/ op[t].id = p /\ op[t].row # Absent
    \/ t \in Looper /\ held[t][p] # Absent

Quiet(t) == op[t].pc = "idle" /\ held[t] = Empty

-----------------------------------------------------------------------------
TypeOK ==
    /\ table \in [ProxyId -> Row \cup {Absent}]
    /\ disk \in [ProxyId -> Row \cup {Absent}]
    /\ op \in [Task -> Op]
    /\ held \in [Looper -> [ProxyId -> Row \cup {Absent}]]
    /\ phase \in [Jobs \cup Enrichers ->
                    {"idle", "waiting", "release", "list", "gather", "done"}]
    /\ known \subseteq ProxyId
    /\ lost \subseteq ProxyId
    /\ erased \subseteq ProxyId

\* A new database: the first proxies come from a feed.
Init ==
    /\ table = Empty
    /\ disk = Empty
    /\ op = [t \in Task |-> Idle]
    /\ held = [t \in Looper |-> Empty]
    /\ phase = [t \in Jobs \cup Enrichers |-> "idle"]
    /\ known = {}
    /\ lost = {}
    /\ erased = {}

-----------------------------------------------------------------------------
\* Statements of the store, the same for every task

\* remove_proxy: SELECT id ... WHERE id = ? AND pool = ?; no row, no DELETE.
Select(t) ==
    /\ op[t].pc = "select"
    /\ op' = [op EXCEPT ![t].pc =
                IF table[op[t].id].pool = op[t].from THEN "delete" ELSE "upsert"]
    /\ UNCHANGED <<table, disk, held, phase, history>>

\* DELETE FROM proxies WHERE id = ?: whatever the pool is by now.
Delete(t) ==
    LET p == op[t].id IN
    /\ op[t].pc = "delete"
    /\ table' = [table EXCEPT ![p] = Absent]
    /\ op' = [op EXCEPT ![t].pc = "commitDelete"]
    /\ IF op[t].row = Absent
       THEN known' = known \ {p} /\ lost' = lost \ {p}
       ELSE UNCHANGED <<known, lost>>
    /\ UNCHANGED <<disk, held, phase, erased>>

\* Mutant: the coroutine returns after remove_proxy.
MutCommitDeleteReturns(t) ==
    /\ op[t].pc = "commitDelete"
    /\ disk' = table
    /\ op' = [op EXCEPT ![t] = Idle]
    /\ UNCHANGED <<table, held, phase, history>>

\* Mutant: the DELETE is not committed.
MutCommitDeleteForgotten(t) ==
    LET p == op[t].id IN
    /\ op[t].pc = "commitDelete"
    /\ IF op[t].row = Absent
       THEN /\ op' = [op EXCEPT ![t] = Idle]
            /\ erased' = IF Stored(p) \/ (\E u \in Task : Holds(u, p))
                         THEN erased ELSE erased \cup {p}
       ELSE /\ op' = [op EXCEPT ![t].pc = "upsert"]
            /\ UNCHANGED erased
    /\ UNCHANGED <<table, disk, held, phase, known, lost>>

CommitDelete(t) ==
    LET p == op[t].id IN
    /\ op[t].pc = "commitDelete"
    /\ disk' = table
    /\ IF op[t].row = Absent
       THEN /\ op' = [op EXCEPT ![t] = Idle]
            /\ erased' = IF Stored(p) \/ (\E u \in Task : Holds(u, p))
                         THEN erased ELSE erased \cup {p}
       ELSE /\ op' = [op EXCEPT ![t].pc = "upsert"]
            /\ UNCHANGED erased
    /\ UNCHANGED <<table, held, phase, known, lost>>

\* INSERT ... ON CONFLICT(id) DO UPDATE: the row is replaced as a whole.
Upsert(t) ==
    LET p == op[t].id IN
    /\ op[t].pc = "upsert"
    /\ table' = [table EXCEPT ![p] = op[t].row]
    /\ op' = [op EXCEPT ![t].pc = "commitUpsert"]
    /\ known' = known \cup {p}
    /\ lost' = lost \ {p}
    /\ UNCHANGED <<disk, held, phase, erased>>

\* Mutant: the upsert is not committed.
MutCommitUpsertForgotten(t) ==
    /\ op[t].pc = "commitUpsert"
    /\ op' = [op EXCEPT ![t] = Idle]
    /\ UNCHANGED <<table, disk, held, phase, history>>

CommitUpsert(t) ==
    /\ op[t].pc = "commitUpsert"
    /\ disk' = table
    /\ op' = [op EXCEPT ![t] = Idle]
    /\ UNCHANGED <<table, held, phase, history>>

Statement(t) ==
    \/ Select(t)
    \/ Delete(t)
    \/ CommitDelete(t)
    \/ Upsert(t)
    \/ CommitUpsert(t)

-----------------------------------------------------------------------------
\* Feeds: FetchService and ProxyUrlImportService

\* The providers have answered with the ids of found, deduplicated.
FeedStart(f, found) ==
    /\ found # {}
    /\ Quiet(f)
    /\ held' = [held EXCEPT ![f] = [p \in ProxyId |-> IF p \in found THEN FreshRow ELSE Absent]]
    /\ erased' = erased \ found
    /\ UNCHANGED <<table, disk, op, phase, known, lost>>

\* add_proxy("raw", proxy) for the next one.
FeedNext(f, p) ==
    /\ op[f].pc = "idle"
    /\ held[f][p] # Absent
    /\ op' = [op EXCEPT ![f] = Save(p, held[f][p])]
    /\ held' = [held EXCEPT ![f][p] = Absent]
    /\ UNCHANGED <<table, disk, phase, history>>

-----------------------------------------------------------------------------
\* API calls: the read is the first statement of the call

\* Mutant: a report does not look whether the record exists.
MutReportUnchecked(c, p, ok) ==
    LET row == Reported(table[p], ok) IN
    /\ op[c].pc = "idle"
    /\ op' = [op EXCEPT ![c] = IF row.pool = table[p].pool
                               THEN Save(p, row) ELSE Move(p, table[p].pool, row)]
    /\ UNCHANGED <<table, disk, held, phase, history>>

Report(c, p, ok) ==
    LET row == Reported(table[p], ok) IN
    /\ op[c].pc = "idle"
    /\ Stored(p)
    /\ op' = [op EXCEPT ![c] = IF row.pool = table[p].pool
                               THEN Save(p, row) ELSE Move(p, table[p].pool, row)]
    /\ UNCHANGED <<table, disk, held, phase, history>>

DeleteProxy(c, p) ==
    /\ op[c].pc = "idle"
    /\ Stored(p)
    /\ op' = [op EXCEPT ![c] = Erase(p)]
    /\ UNCHANGED <<table, disk, held, phase, history>>

-----------------------------------------------------------------------------
\* The validation job

InPool(pool) == {p \in ProxyId : table[p].pool = pool}

\* list_proxies(pool, limit): the best-scored rows, at most Batch of them.
Listings(pool) ==
    {S \in SUBSET InPool(pool) :
        Cardinality(S) = IF Cardinality(InPool(pool)) < Batch
                         THEN Cardinality(InPool(pool)) ELSE Batch}

Running(j) == phase[j] \in {"release", "list", "gather"}

\* The interval trigger fires or the operator asks for a run.  A job whose
\* gather was left early is not reused before its coroutines have ended.
RequestJob(j) ==
    /\ phase[j] = "idle"
    /\ \A w \in Workers(j) : op[w].pc = "idle"
    /\ phase' = [phase EXCEPT ![j] = "waiting"]
    /\ UNCHANGED <<table, disk, op, held, history>>

\* Mutant: scheduled and requested runs share no lock.
MutStartJobUnlocked(j, listed) ==
    /\ phase[j] = "waiting"
    /\ listed \in Listings("cooldown")
    /\ held' = [held EXCEPT ![j] = [p \in ProxyId |-> IF p \in listed THEN table[p] ELSE Absent]]
    /\ phase' = [phase EXCEPT ![j] = "release"]
    /\ UNCHANGED <<table, disk, op, history>>

\* The lock is acquired and release_expired lists the cooldown pool.
StartJob(j, listed) ==
    /\ phase[j] = "waiting"
    /\ \A k \in Jobs : ~Running(k)
    /\ listed \in Listings("cooldown")
    /\ held' = [held EXCEPT ![j] = [p \in ProxyId |-> IF p \in listed THEN table[p] ELSE Absent]]
    /\ phase' = [phase EXCEPT ![j] = "release"]
    /\ UNCHANGED <<table, disk, op, history>>

\* The next listed row: expired (always, when it has no deadline) or kept.
ReleaseNext(j, p, expired) ==
    /\ phase[j] = "release"
    /\ op[j].pc = "idle"
    /\ held[j][p] # Absent
    /\ held[j][p].cooldown_until = "set" \/ expired
    /\ held' = [held EXCEPT ![j][p] = Absent]
    /\ op' = IF expired
             THEN [op EXCEPT ![j] = Move(p, "cooldown", Released(held[j][p]))]
             ELSE op
    /\ UNCHANGED <<table, disk, phase, history>>

ReleaseDone(j) ==
    /\ phase[j] = "release"
    /\ Quiet(j)
    /\ phase' = [phase EXCEPT ![j] = "list"]
    /\ UNCHANGED <<table, disk, op, held, history>>

\* validate_pool: list raw, then gather one coroutine per row.
StartWorkers(j, listed) ==
    /\ phase[j] = "list"
    /\ listed \in Listings("raw")
    /\ op' = [t \in Task |->
                IF t \in {j} \X listed
                THEN [pc |-> "queued", id |-> t[2], from |-> "raw", row |-> table[t[2]]]
                ELSE op[t]]
    /\ phase' = [phase EXCEPT ![j] = "gather"]
    /\ UNCHANGED <<table, disk, held, history>>

\* The coroutines of job j that are inside "async with self._semaphore".
Inside(j) == {w \in Workers(j) : op[w].pc \notin {"idle", "queued"}}

EnterSemaphore(j, p) ==
    /\ op[<<j, p>>].pc = "queued"
    /\ Cardinality(Inside(j)) < Concurrency
    /\ op' = [op EXCEPT ![<<j, p>>].pc = "checking"]
    /\ UNCHANGED <<table, disk, held, phase, history>>

\* The validators have answered; they read and write no row.
Checked(j, p, outcome) ==
    LET w == <<j, p>> IN
    /\ op[w].pc = "checking"
    /\ op' = [op EXCEPT ![w] = Move(p, "raw", Validated(op[w].row, outcome))]
    /\ UNCHANGED <<table, disk, held, phase, history>>

\* Mutant: the job goes on waiting while rows that came meanwhile are in raw.
MutFinishJobWhenEmpty(j) ==
    /\ phase[j] = "gather"
    /\ \A w \in Workers(j) : op[w].pc = "idle"
    /\ \A p \in ProxyId : table[p].pool # "raw"
    /\ phase' = [phase EXCEPT ![j] = "idle"]
    /\ UNCHANGED <<table, disk, op, held, history>>

FinishJob(j) ==
    /\ phase[j] = "gather"
    /\ \A w \in Workers(j) : op[w].pc = "idle"
    /\ phase' = [phase EXCEPT ![j] = "idle"]
    /\ UNCHANGED <<table, disk, op, held, history>>

-----------------------------------------------------------------------------
\* Geo enrichment of the rows found at start-up

\* list_all_proxies; located: the rows without a country that the resolver knows.
StartEnrich(g, located) ==
    /\ phase[g] = "idle"
    /\ held' = [held EXCEPT ![g] = [p \in ProxyId |-> IF p \in located THEN table[p] ELSE Absent]]
    /\ phase' = [phase EXCEPT ![g] = "done"]
    /\ UNCHANGED <<table, disk, op, history>>

\* find_proxy_pool, then save_proxy(pool, enriched) when the proxy is there.
EnrichNext(g, p) ==
    /\ op[g].pc = "idle"
    /\ held[g][p] # Absent
    /\ held' = [held EXCEPT ![g][p] = Absent]
    /\ op' = IF Stored(p)
             THEN [op EXCEPT ![g] = Save(p, SavedUnder(table[p].pool, held[g][p]))]
             ELSE op
    /\ UNCHANGED <<table, disk, phase, history>>

-----------------------------------------------------------------------------
\* Faults

\* A statement of a store call raises and the exception ends its task: a client
\* answers 500, a feed and the enrichment stop, a job gives up; a gather is left
\* at the first exception while its other coroutines go on.
StatementFails(t) ==
    LET p == op[t].id IN
    /\ StoreFaults
    /\ op[t].pc \in Statements
    /\ op' = [op EXCEPT ![t] = Idle]
    /\ held' = IF t \in Looper THEN [held EXCEPT ![t] = Empty] ELSE held
    /\ phase' = [j \in Jobs \cup Enrichers |->
                    IF j \in Jobs /\ (t = j \/ (t \in Workers(j) /\ phase[j] = "gather"))
                    THEN "idle" ELSE phase[j]]
    /\ lost' = IF op[t].row # Absent /\ ~Stored(p) /\ p \in known THEN lost \cup {p} ELSE lost
    /\ UNCHANGED <<table, disk, known, erased>>

\* The tasks at a SELECT outside a store call that writes: the two listings of a
\* job, list_all_proxies and find_proxy_pool of the enrichment.
Reading ==
    {j \in Jobs : phase[j] = "list" \/ (phase[j] = "waiting" /\ \A k \in Jobs : ~Running(k))}
        \cup {g \in Enrichers : phase[g] = "idle" \/ (op[g].pc = "idle" /\ held[g] # Empty)}

\* That SELECT raises: the job is recorded as failed and leaves the lock, the
\* enrichment is over.  (A client whose read raises answers 500, and that is all.)
ReadFails(t) ==
    /\ StoreFaults
    /\ t \in Reading
    /\ held' = [held EXCEPT ![t] = Empty]
    /\ phase' = [phase EXCEPT ![t] = IF t \in Jobs THEN "idle" ELSE "done"]
    /\ UNCHANGED <<table, disk, op, history>>

\* The process dies: the transaction is rolled back, every task is gone.
Crash ==
    /\ Crashes
    /\ table' = disk
    /\ op' = [t \in Task |-> Idle]
    /\ held' = [t \in Looper |-> Empty]
    /\ phase' = [t \in Jobs \cup Enrichers |-> "idle"]
    /\ known' = known \cup {p \in ProxyId : disk[p] # Absent}
    /\ lost' = {p \in known : disk[p] = Absent}
    /\ UNCHANGED <<disk, erased>>

-----------------------------------------------------------------------------
FeedStep(f) ==
    \/ \E found \in SUBSET ProxyId : FeedStart(f, found)
    \/ \E p \in ProxyId : FeedNext(f, p)

ClientStep(c) ==
    \E p \in ProxyId : (\E ok \in BOOLEAN : Report(c, p, ok)) \/ DeleteProxy(c, p)

\* What a job does by itself once it is requested and has the lock.
JobStep(j) ==
    \/ \E p \in ProxyId, expired \in BOOLEAN : ReleaseNext(j, p, expired)
    \/ ReleaseDone(j)
    \/ \E listed \in SUBSET ProxyId : StartWorkers(j, listed)
    \/ FinishJob(j)

AcquireLock(j) == \E listed \in SUBSET ProxyId : StartJob(j, listed)

WorkerStep(j, p) ==
    \/ EnterSemaphore(j, p)
    \/ \E outcome \in Outcomes : Checked(j, p, outcome)

EnrichStep(g) ==
    \/ \E located \in SUBSET ProxyId : StartEnrich(g, located)
    \/ \E p \in ProxyId : EnrichNext(g, p)

Next ==
    \/ \E t \in Task : Statement(t) \/ StatementFails(t)
    \/ \E f \in Feeds : FeedStep(f)
    \/ \E c \in Clients : ClientStep(c)
    \/ \E j \in Jobs : RequestJob(j) \/ AcquireLock(j) \/ JobStep(j)
    \/ \E j \in Jobs, p \in ProxyId : WorkerStep(j, p)
    \/ \E g \in Enrichers : EnrichStep(g)
    \/ \E t \in Jobs \cup Enrichers : ReadFails(t)
    \/ Crash

Spec == Init /\ [][Next]_vars

\* The event loop runs every ready coroutine and the connection's thread every
\* queued statement.  asyncio.Lock wakes its waiters in order of arrival, so a
\* waiting job gets the lock although others take it in between.  Nothing is
\* assumed of a check: the validators' timeouts bound each connect and each read,
\* not the check, and validate_proxy has no deadline of its own.
Fairness ==
    /\ \A t \in Task : WF_vars(Statement(t))
    /\ \A f \in Feeds : WF_vars(\E p \in ProxyId : FeedNext(f, p))
    /\ \A j \in Jobs : WF_vars(JobStep(j)) /\ SF_vars(AcquireLock(j))
    /\ \A j \in Jobs, p \in ProxyId : WF_vars(EnterSemaphore(j, p))
    /\ \A g \in Enrichers : WF_vars(EnrichStep(g))

FairSpec == Spec /\ Fairness

-----------------------------------------------------------------------------
\* Properties

\* Task t has taken, or is about to replace, the row of p and will write one.
InHand(t, p) ==
    /\ op[t].id = p
    /\ op[t].row # Absent
    /\ op[t].pc \in {"commitDelete", "upsert"}

\* No proxy is dropped by a move: removing and adding are two statements and
\* any task may run between them, yet a proxy that was stored and not deleted
\* by the operator is in the table, or in the hand of a task about to write
\* it, or was taken by a named fault (remove_proxy followed by add_proxy in
\* validate_service, cooldown_service and proxy_service).
Conserved ==
    \A p \in known : Stored(p) \/ p \in lost \/ (\E t \in Task : InHand(t, p))

\* What a crash can cost: without store faults a known proxy is on disk unless
\* a task is between its DELETE and the commit of its upsert.  The commit that
\* saves it may be any task's (one connection, one transaction).
DurableOrInHand ==
    ~StoreFaults =>
        \A p \in known \ lost :
            \/ disk[p] # Absent
            \/ \E t \in Task :
                  InHand(t, p) \/ (op[t].id = p /\ op[t].pc = "commitUpsert")

\* An answered DELETE /proxy/{id} that no other task held a copy across is
\* final: no later job, report or enrichment, and no crash, brings the proxy
\* back; only a feed that delivers it again does.
ErasedStaysErased ==
    \A p \in erased : ~Stored(p) /\ disk[p] = Absent

\* A proxy that can be handed out has fewer failures in a row than send it to
\* cooldown, and no deadline running, whatever stale copies reports and
\* validations write over each other.  Enrichment saves an old payload under
\* the pool of the moment, which breaks it: GEO_ENABLED is off here.
SelectableIsHealthy ==
    Enrichers = {} =>
        \A p \in ProxyId : table[p].pool \in SelectionPools =>
            /\ table[p].consecutive_fail_count < CooldownThreshold
            /\ table[p].cooldown_until = "none"

\* Without store faults no proxy is validated twice at the same time, and no
\* more than validate_concurrency validations run, however many jobs are
\* requested: the semaphore belongs to a job, the lock has to make it global.
ValidationsExclusive ==
    ~StoreFaults =>
        /\ \A p \in ProxyId : \A j, k \in Jobs :
              op[<<j, p>>].pc # "idle" /\ op[<<k, p>>].pc # "idle" => j = k
        /\ Cardinality(UNION {Inside(j) : j \in Jobs}) <= Concurrency

\* No check goes on for ever.
ChecksEnd == \A j \in Jobs, p \in ProxyId : []<>(op[<<j, p>>].pc # "checking")

\* A requested validation run ends, behind any number of others, as long as no
\* check goes on for ever: only a proxy that keeps its check waiting can hold up
\* the lock, the semaphore or the gather (scheduler.py:76, validate_service.py:48).
JobEnds == ChecksEnd => \A j \in Jobs : phase[j] = "waiting" ~> phase[j] = "idle"

\* A proxy that a move has taken out of the table comes back, unless the
\* operator deletes it.
MoveEnds == \A p \in ProxyId : p \in known /\ ~Stored(p) ~> Stored(p) \/ p \notin known

\* tests/test_api.py:221 asserts that a deleted proxy is gone: a task other
\* than a feed writes only proxies the operator has not deleted.
DeletedStaysDeleted ==
    [][\A t \in Task \ Feeds :
          op[t].pc = "upsert" /\ op'[t].pc = "commitUpsert" => op[t].id \in known]_vars
=============================================================================
