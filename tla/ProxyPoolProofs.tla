--------------------------- MODULE ProxyPoolProofs ---------------------------
(* Theorems about ProxyPool for every value of its constants. *)
EXTENDS ProxyPool, FiniteSetTheorems, TLAPS

LEMMA RulesTyped ==
    /\ FreshRow \in Row
    /\ Absent \notin Row
    /\ \A row \in Row :
          /\ \A ok \in BOOLEAN : Reported(row, ok) \in Row
          /\ Released(row) \in Row
          /\ \A pool \in Pools : SavedUnder(pool, row) \in Row
    /\ \A row \in Row \cup {Absent}, outcome \in Outcomes : Validated(row, outcome) \in Row
<1> USE ThresholdAssumption DEF Row, Absent
<1>1. FreshRow \in Row /\ Absent \notin Row
  BY DEF FreshRow, Pools
<1>2. ASSUME NEW row \in Row, NEW ok \in BOOLEAN
      PROVE  Reported(row, ok) \in Row
  <2>1. ReportedOk(row) \in Row
    <3>1. [row EXCEPT !.consecutive_fail_count = 0] \in Row
      OBVIOUS
    <3>2. [[row EXCEPT !.consecutive_fail_count = 0] EXCEPT !.cooldown_until = "none"] \in Row
      BY <3>1
    <3> QED
      BY <3>2 DEF ReportedOk
  <2>2. ReportedFailure(row) \in Row
    <3> DEFINE failures == OneMore(row.consecutive_fail_count)
               counted == [row EXCEPT !.consecutive_fail_count = failures]
    <3>1. failures \in 0..DeadThreshold
      BY DEF OneMore
    <3>2. /\ counted \in Row
          /\ [counted EXCEPT !.pool = "dead"] \in Row
          /\ [[counted EXCEPT !.pool = "cooldown"] EXCEPT !.cooldown_until = "set"] \in Row
      BY <3>1 DEF Pools
    <3> QED
      BY <3>2, Zenon DEF ReportedFailure
  <2> QED
    BY <2>1, <2>2 DEF Reported
<1>3. ASSUME NEW row \in Row
      PROVE  Released(row) \in Row
  <2>1. [row EXCEPT !.pool = "raw"] \in Row
    BY DEF Pools
  <2>2. [[row EXCEPT !.pool = "raw"] EXCEPT !.cooldown_until = "none"] \in Row
    BY <2>1
  <2> QED
    BY <2>2 DEF Released
<1>4. ASSUME NEW row \in Row, NEW pool \in Pools
      PROVE  SavedUnder(pool, row) \in Row
  BY DEF SavedUnder
<1>5. ASSUME NEW row \in Row \cup {Absent}, NEW outcome \in Outcomes
      PROVE  Validated(row, outcome) \in Row
  BY DEF Validated, TargetPool, OneMore, Outcomes, Pools
<1> QED
  BY <1>1, <1>2, <1>3, <1>4, <1>5
-----------------------------------------------------------------------------
(* Type correctness *)

\* What the steps of a store call do to the call's record.
LEMMA OpTyped ==
    /\ \A p \in ProxyId, row \in Row : Save(p, row) \in WriteOp
    /\ \A p \in ProxyId, from \in Pools, row \in Row : Move(p, from, row) \in WriteOp
    /\ \A p \in ProxyId : Erase(p) \in EraseOp
    /\ \A o \in WriteOp, pc \in Statements \cup {"queued", "checking"} :
          [o EXCEPT !.pc = pc] \in WriteOp
    /\ \A o \in EraseOp, pc \in {"delete", "commitDelete"} : [o EXCEPT !.pc = pc] \in EraseOp
    /\ \A o \in Op :
          /\ o.pc \in {"select", "upsert", "commitUpsert", "queued", "checking"} => o \in WriteOp
          /\ o.pc \in {"delete", "commitDelete"} =>
                (o \in WriteOp /\ o.row \in Row) \/ (o \in EraseOp /\ o.row = Absent)
          /\ o.pc # "idle" => o.id \in ProxyId
          /\ o.row # Absent => o \in WriteOp /\ o.row \in Row
<1>1. \A p \in ProxyId, row \in Row : Save(p, row) \in WriteOp
  BY DEF Save, WriteOp, Statements
<1>2. \A p \in ProxyId, from \in Pools, row \in Row : Move(p, from, row) \in WriteOp
  BY DEF Move, WriteOp, Statements
<1>3. \A p \in ProxyId : Erase(p) \in EraseOp
  BY DEF Erase, EraseOp
<1>4. \A o \in WriteOp, pc \in Statements \cup {"queued", "checking"} :
         [o EXCEPT !.pc = pc] \in WriteOp
  BY DEF WriteOp
<1>5. \A o \in EraseOp, pc \in {"delete", "commitDelete"} : [o EXCEPT !.pc = pc] \in EraseOp
  BY DEF EraseOp
<1>6. \A o \in Op :
          /\ o.pc \in {"select", "upsert", "commitUpsert", "queued", "checking"} => o \in WriteOp
          /\ o.pc \in {"delete", "commitDelete"} =>
                (o \in WriteOp /\ o.row \in Row) \/ (o \in EraseOp /\ o.row = Absent)
          /\ o.pc # "idle" => o.id \in ProxyId
          /\ o.row # Absent => o \in WriteOp /\ o.row \in Row
  <2> SUFFICES ASSUME NEW o \in Op
               PROVE  /\ o.pc \in {"select", "upsert", "commitUpsert", "queued", "checking"}
                           => o \in WriteOp
                      /\ o.pc \in {"delete", "commitDelete"} =>
                            (o \in WriteOp /\ o.row \in Row) \/ (o \in EraseOp /\ o.row = Absent)
                      /\ o.pc # "idle" => o.id \in ProxyId
                      /\ o.row # Absent => o \in WriteOp /\ o.row \in Row
    OBVIOUS
  <2>1. CASE o \in WriteOp
    <3>1. o.id \in ProxyId /\ o.row \in Row
      BY <2>1 DEF WriteOp
    <3> QED
      BY <2>1, <3>1
  <2>2. CASE o \in EraseOp
    <3>1. o.pc \in {"delete", "commitDelete"} /\ o.id \in ProxyId /\ o.row = Absent
      BY <2>2 DEF EraseOp
    <3> QED
      BY <2>2, <3>1
  <2>3. CASE o = Idle
    BY <2>3 DEF Idle
  <2> QED
    BY <2>1, <2>2, <2>3 DEF Op
<1> QED
  BY <1>1, <1>2, <1>3, <1>4, <1>5, <1>6

\* The same for the function of all store calls and for the lists.
LEMMA OpUpdated ==
    ASSUME op \in [Task -> Op], NEW t \in Task
    PROVE  /\ \A o \in Op : [op EXCEPT ![t] = o] \in [Task -> Op]
           /\ \A p \in ProxyId, row \in Row : [op EXCEPT ![t] = Save(p, row)] \in [Task -> Op]
           /\ \A p \in ProxyId, from \in Pools, row \in Row :
                 [op EXCEPT ![t] = Move(p, from, row)] \in [Task -> Op]
           /\ \A p \in ProxyId : [op EXCEPT ![t] = Erase(p)] \in [Task -> Op]
           /\ [op EXCEPT ![t] = Idle] \in [Task -> Op]
           /\ \A pc \in Statements \cup {"queued", "checking"} :
                 op[t] \in WriteOp => [op EXCEPT ![t].pc = pc] \in [Task -> Op]
           /\ \A pc \in {"delete", "commitDelete"} :
                 op[t] \in EraseOp => [op EXCEPT ![t].pc = pc] \in [Task -> Op]
<1>1. WriteOp \subseteq Op /\ EraseOp \subseteq Op /\ Idle \in Op
  BY DEF Op
<1>2. \A o \in Op : [op EXCEPT ![t] = o] \in [Task -> Op]
  OBVIOUS
<1>3. \A pc : [op EXCEPT ![t].pc = pc] = [op EXCEPT ![t] = [op[t] EXCEPT !.pc = pc]]
  OBVIOUS
<1> QED
  BY <1>1, <1>2, <1>3, OpTyped

LEMMA HeldUpdated ==
    ASSUME held \in [Looper -> [ProxyId -> Row \cup {Absent}]],
           table \in [ProxyId -> Row \cup {Absent}],
           NEW t \in Looper
    PROVE  /\ \A p \in ProxyId :
                 [held EXCEPT ![t][p] = Absent] \in [Looper -> [ProxyId -> Row \cup {Absent}]]
           /\ \A S \in SUBSET ProxyId :
                 [held EXCEPT ![t] = [p \in ProxyId |-> IF p \in S THEN table[p] ELSE Absent]]
                   \in [Looper -> [ProxyId -> Row \cup {Absent}]]
           /\ \A S \in SUBSET ProxyId :
                 [held EXCEPT ![t] = [p \in ProxyId |-> IF p \in S THEN FreshRow ELSE Absent]]
                   \in [Looper -> [ProxyId -> Row \cup {Absent}]]
           /\ [held EXCEPT ![t] = Empty] \in [Looper -> [ProxyId -> Row \cup {Absent}]]
  BY RulesTyped DEF Empty

\* Every action keeps every variable in its type: the rows in the table, on
\* disk, in the hands of tasks and in their lists are rows the code can build,
\* and a task at an upsert has a row to write.
THEOREM TypeCorrect == Spec => []TypeOK
<1>1. Init => TypeOK
  BY DEF Init, TypeOK, Empty, Op
<1>2. TypeOK /\ [Next]_vars => TypeOK'
  <2> SUFFICES ASSUME TypeOK, [Next]_vars PROVE TypeOK'
    OBVIOUS
  <2> USE DEF TypeOK
  <2>1. ASSUME NEW t \in Task, Statement(t)
        PROVE  TypeOK'
    <3>1. op[t] \in Op
      OBVIOUS
    <3>2. CASE Select(t)
      BY <3>2, <3>1, OpTyped, OpUpdated DEF Select, Statements, history
    <3>3. CASE Delete(t)
      <4>1. op' \in [Task -> Op]
        BY <3>3, <3>1, OpTyped, OpUpdated DEF Delete, Statements
      <4>2. table' \in [ProxyId -> Row \cup {Absent}]
        BY <3>3 DEF Delete
      <4> QED
        BY <3>3, <4>1, <4>2 DEF Delete
    <3>4. CASE CommitDelete(t)
      <4>1. op[t].row # Absent => op[t] \in WriteOp
        BY <3>1, OpTyped
      <4>2. op' \in [Task -> Op]
        <5>1. CASE op[t].row = Absent
          BY <3>4, <5>1, OpUpdated DEF CommitDelete
        <5>2. CASE op[t].row # Absent
          <6>1. op' = [op EXCEPT ![t].pc = "upsert"]
            BY <3>4, <5>2 DEF CommitDelete
          <6>2. [op EXCEPT ![t].pc = "upsert"] \in [Task -> Op]
            BY <4>1, <5>2, OpUpdated DEF Statements
          <6> QED
            BY <6>1, <6>2
        <5> QED
          BY <5>1, <5>2
      <4>3. op[t].id \in ProxyId
        BY <3>1, <3>4, OpTyped DEF CommitDelete
      <4> QED
        BY <3>4, <4>2, <4>3 DEF CommitDelete
    <3>5. CASE Upsert(t)
      <4>1. op[t] \in WriteOp /\ op[t].id \in ProxyId /\ op[t].row \in Row
        BY <3>1, <3>5, OpTyped DEF Upsert, WriteOp
      <4>2. op' \in [Task -> Op]
        BY <3>5, <4>1, OpUpdated DEF Upsert, Statements
      <4> QED
        BY <3>5, <4>1, <4>2 DEF Upsert
    <3>6. CASE CommitUpsert(t)
      BY <3>6, OpUpdated DEF CommitUpsert, history
    <3> QED
      BY <2>1, <3>2, <3>3, <3>4, <3>5, <3>6 DEF Statement
  <2>2. ASSUME NEW t \in Task, StatementFails(t)
        PROVE  TypeOK'
    <3>1. op' \in [Task -> Op]
      BY <2>2, OpUpdated DEF StatementFails
    <3>2. held' \in [Looper -> [ProxyId -> Row \cup {Absent}]]
      BY <2>2, HeldUpdated DEF StatementFails
    <3>3. phase' \in [Jobs \cup Enrichers ->
                        {"idle", "waiting", "release", "list", "gather", "done"}]
      BY <2>2 DEF StatementFails
    <3>4. lost' \subseteq ProxyId
      BY <2>2 DEF StatementFails
    <3> QED
      BY <2>2, <3>1, <3>2, <3>3, <3>4 DEF StatementFails
  <2>3. ASSUME NEW f \in Feeds, FeedStep(f)
        PROVE  TypeOK'
    <3>1. f \in Task /\ f \in Looper
      BY DEF Task, Looper
    <3>2. ASSUME NEW found \in SUBSET ProxyId, FeedStart(f, found)
          PROVE  TypeOK'
      BY <3>1, <3>2, HeldUpdated DEF FeedStart
    <3>3. ASSUME NEW p \in ProxyId, FeedNext(f, p)
          PROVE  TypeOK'
      <4>1. held[f][p] \in Row
        BY <3>1, <3>3 DEF FeedNext
      <4> QED
        BY <3>1, <3>3, <4>1, HeldUpdated, OpUpdated DEF FeedNext, history
    <3> QED
      BY <2>3, <3>2, <3>3 DEF FeedStep
  <2>4. ASSUME NEW c \in Clients, ClientStep(c)
        PROVE  TypeOK'
    <3>1. c \in Task
      BY DEF Task
    <3>2. ASSUME NEW p \in ProxyId, NEW ok \in BOOLEAN, Report(c, p, ok)
          PROVE  TypeOK'
      <4>1. table[p] \in Row
        BY <3>2 DEF Report, Stored
      <4>2. Reported(table[p], ok) \in Row /\ table[p].pool \in Pools
        BY <4>1, RulesTyped DEF Row
      <4> QED
        BY <3>1, <3>2, <4>2, OpUpdated DEF Report, history
    <3>3. ASSUME NEW p \in ProxyId, DeleteProxy(c, p)
          PROVE  TypeOK'
      BY <3>1, <3>3, OpUpdated DEF DeleteProxy, history
    <3> QED
      BY <2>4, <3>2, <3>3 DEF ClientStep
  <2>5. ASSUME NEW j \in Jobs, RequestJob(j) \/ AcquireLock(j) \/ JobStep(j)
        PROVE  TypeOK'
    <3>1. j \in Task /\ j \in Looper
      BY DEF Task, Looper
    <3>2. CASE RequestJob(j)
      BY <3>2 DEF RequestJob, history
    <3>3. ASSUME NEW listed \in SUBSET ProxyId, StartJob(j, listed)
          PROVE  TypeOK'
      BY <3>1, <3>3, HeldUpdated DEF StartJob, history
    <3>4. ASSUME NEW p \in ProxyId, NEW expired \in BOOLEAN, ReleaseNext(j, p, expired)
          PROVE  TypeOK'
      <4>1. Released(held[j][p]) \in Row /\ "cooldown" \in Pools
        BY <3>1, <3>4, RulesTyped DEF ReleaseNext, Pools
      <4> QED
        BY <3>1, <3>4, <4>1, HeldUpdated, OpUpdated DEF ReleaseNext, history
    <3>5. CASE ReleaseDone(j)
      BY <3>5 DEF ReleaseDone, history
    <3>6. ASSUME NEW listed \in SUBSET ProxyId, StartWorkers(j, listed)
          PROVE  TypeOK'
      <4> DEFINE queued(p) == [pc |-> "queued", id |-> p, from |-> "raw", row |-> table[p]]
      <4>1. \A p \in listed : queued(p) \in Op
        <5>1. ASSUME NEW p \in listed
              PROVE  table[p] \in Row
          BY <3>6 DEF StartWorkers, Listings, InPool, Absent
        <5> QED
          BY <5>1 DEF Op, WriteOp, Pools
      <4>2. op' \in [Task -> Op]
        BY <3>6, <4>1 DEF StartWorkers
      <4> QED
        BY <3>6, <4>2 DEF StartWorkers, history
    <3>7. CASE FinishJob(j)
      BY <3>7 DEF FinishJob, history
    <3> QED
      BY <2>5, <3>2, <3>3, <3>4, <3>5, <3>6, <3>7 DEF AcquireLock, JobStep
  <2>6. ASSUME NEW j \in Jobs, NEW p \in ProxyId, WorkerStep(j, p)
        PROVE  TypeOK'
    <3>1. <<j, p>> \in Task
      BY DEF Task
    <3>2. CASE EnterSemaphore(j, p)
      BY <3>1, <3>2, OpTyped, OpUpdated DEF EnterSemaphore, history
    <3>3. ASSUME NEW outcome \in Outcomes, Checked(j, p, outcome)
          PROVE  TypeOK'
      <4>1. op[<<j, p>>].row \in Row
        BY <3>1, <3>3, OpTyped DEF Checked, WriteOp
      <4>2. Validated(op[<<j, p>>].row, outcome) \in Row /\ "raw" \in Pools
        BY <4>1, RulesTyped DEF Pools
      <4> QED
        BY <3>1, <3>3, <4>2, OpUpdated DEF Checked, history
    <3> QED
      BY <2>6, <3>2, <3>3 DEF WorkerStep
  <2>7. ASSUME NEW g \in Enrichers, EnrichStep(g)
        PROVE  TypeOK'
    <3>1. g \in Task /\ g \in Looper
      BY DEF Task, Looper
    <3>2. ASSUME NEW located \in SUBSET ProxyId, StartEnrich(g, located)
          PROVE  TypeOK'
      BY <3>1, <3>2, HeldUpdated DEF StartEnrich, history
    <3>3. ASSUME NEW p \in ProxyId, EnrichNext(g, p)
          PROVE  TypeOK'
      <4>1. Stored(p) => SavedUnder(table[p].pool, held[g][p]) \in Row
        <5>1. held[g][p] \in Row
          BY <3>1, <3>3 DEF EnrichNext
        <5>2. Stored(p) => table[p].pool \in Pools
          BY DEF Stored, Row
        <5> QED
          BY <5>1, <5>2, RulesTyped
      <4> QED
        BY <3>1, <3>3, <4>1, HeldUpdated, OpUpdated DEF EnrichNext, history
    <3> QED
      BY <2>7, <3>2, <3>3 DEF EnrichStep
  <2>8. CASE Crash
    BY <2>8 DEF Crash, Empty, Op
  <2>9. CASE UNCHANGED vars
    BY <2>9 DEF vars
  <2>10. ASSUME NEW t \in Jobs \cup Enrichers, ReadFails(t)
         PROVE  TypeOK'
    <3>1. t \in Looper /\ Empty \in [ProxyId -> Row \cup {Absent}]
      BY DEF Looper, Empty
    <3>2. held' \in [Looper -> [ProxyId -> Row \cup {Absent}]]
      BY <2>10, <3>1 DEF ReadFails
    <3> QED
      BY <2>10, <3>2 DEF ReadFails, history
  <2> QED
    BY <2>1, <2>2, <2>3, <2>4, <2>5, <2>6, <2>7, <2>8, <2>9, <2>10 DEF Next
<1> QED
  BY <1>1, <1>2, PTL DEF Spec

-----------------------------------------------------------------------------
(* Which coroutine works for which proxy *)

\* A worker works for the proxy it is named after, and a job that has not yet
\* gathered has no worker left from an earlier run.
JobShape ==
    /\ \A j \in Jobs, p \in ProxyId : op[<<j, p>>].pc # "idle" => op[<<j, p>>].id = p
    /\ \A j \in Jobs : phase[j] \in {"waiting", "release", "list"} =>
          \A p \in ProxyId : op[<<j, p>>].pc = "idle"

\* JobShape is kept by a step that starts no call of a worker and moves no job
\* on to an earlier phase.
LEMMA JobShapeKept ==
    ASSUME JobShape,
           \A j \in Jobs, p \in ProxyId :
              \/ op'[<<j, p>>].pc = "idle"
              \/ op[<<j, p>>].pc # "idle" /\ op'[<<j, p>>].id = op[<<j, p>>].id,
           \A j \in Jobs :
              phase'[j] \in {"waiting", "release", "list"} =>
                 \/ phase[j] \in {"waiting", "release", "list"}
                 \/ \A p \in ProxyId : op'[<<j, p>>].pc = "idle"
    PROVE  JobShape'
  BY DEF JobShape

LEMMA JobShapeStep == TypeOK /\ JobShape /\ [Next]_vars => JobShape'
<1> SUFFICES ASSUME TypeOK, JobShape, [Next]_vars PROVE JobShape'
  OBVIOUS
<1> USE DEF TypeOK
<1>a. \A j \in Jobs, p \in ProxyId : <<j, p>> \in Task
  BY DEF Task
<1>b. \A t \in Jobs \cup Clients \cup Feeds \cup Enrichers :
         t \in Task /\ \A j \in Jobs, p \in ProxyId : t # <<j, p>>
  BY DisjointAssumption DEF Task
<1>1. ASSUME NEW t \in Task, Statement(t)
      PROVE  JobShape'
  <2>1. op[t].pc # "idle" /\ UNCHANGED phase
    BY <1>1 DEF Statement, Select, Delete, CommitDelete, Upsert, CommitUpsert
  <2>2. op'[t] = Idle \/ op'[t].id = op[t].id
    <3>1. op[t] \in Op
      OBVIOUS
    <3> QED
      BY <1>1, <3>1 DEF Statement, Select, Delete, CommitDelete, Upsert, CommitUpsert,
                        Op, WriteOp, EraseOp, Idle
  <2>3. \A u \in Task : u # t => op'[u] = op[u]
    BY <1>1 DEF Statement, Select, Delete, CommitDelete, Upsert, CommitUpsert
  <2> QED
    BY <2>1, <2>2, <2>3, <1>a, JobShapeKept DEF Idle
<1>2. ASSUME NEW t \in Task, StatementFails(t)
      PROVE  JobShape'
  <2>1. \A u \in Task : op'[u] = Idle \/ op'[u] = op[u]
    BY <1>2 DEF StatementFails
  <2>2. \A j \in Jobs : phase'[j] = "idle" \/ phase'[j] = phase[j]
    BY <1>2 DEF StatementFails
  <2> QED
    BY <2>1, <2>2, <1>a, JobShapeKept DEF Idle
<1>3. ASSUME NEW f \in Feeds, FeedStep(f)
      PROVE  JobShape'
  BY <1>3, <1>a, <1>b, JobShapeKept DEF FeedStep, FeedStart, FeedNext
<1>4. ASSUME NEW c \in Clients, ClientStep(c)
      PROVE  JobShape'
  BY <1>4, <1>a, <1>b, JobShapeKept DEF ClientStep, Report, DeleteProxy
<1>5. ASSUME NEW j \in Jobs, RequestJob(j) \/ AcquireLock(j) \/ JobStep(j)
      PROVE  JobShape'
  <2>1. CASE RequestJob(j)
    BY <2>1 DEF RequestJob, Workers, JobShape
  <2>2. CASE AcquireLock(j)
    BY <2>2 DEF AcquireLock, StartJob, JobShape
  <2>3. ASSUME NEW p \in ProxyId, NEW expired \in BOOLEAN, ReleaseNext(j, p, expired)
        PROVE  JobShape'
    BY <2>3, <1>a, <1>b, JobShapeKept DEF ReleaseNext
  <2>4. CASE ReleaseDone(j)
    BY <2>4 DEF ReleaseDone, JobShape
  <2>5. ASSUME NEW listed \in SUBSET ProxyId, StartWorkers(j, listed)
        PROVE  JobShape'
    <3>1. ASSUME NEW k \in Jobs, NEW p \in ProxyId
          PROVE  IF k = j /\ p \in listed THEN op'[<<k, p>>].id = p
                                          ELSE op'[<<k, p>>] = op[<<k, p>>]
      BY <2>5, <3>1, <1>a DEF StartWorkers
    <3>2. \A k \in Jobs : phase'[k] = IF k = j THEN "gather" ELSE phase[k]
      BY <2>5 DEF StartWorkers
    <3> QED
      BY <3>1, <3>2 DEF JobShape
  <2>6. CASE FinishJob(j)
    BY <2>6 DEF FinishJob, JobShape
  <2> QED
    BY <1>5, <2>1, <2>2, <2>3, <2>4, <2>5, <2>6 DEF JobStep
<1>6. ASSUME NEW j \in Jobs, NEW p \in ProxyId, WorkerStep(j, p)
      PROVE  JobShape'
  <2>1. op[<<j, p>>].pc # "idle" /\ UNCHANGED phase
    BY <1>6 DEF WorkerStep, EnterSemaphore, Checked
  <2>2. op'[<<j, p>>].id = op[<<j, p>>].id
    <3>1. op[<<j, p>>] \in Op /\ <<j, p>> \in Task
      BY <1>a
    <3>2. op[<<j, p>>].id = p
      BY <2>1 DEF JobShape
    <3>3. CASE EnterSemaphore(j, p)
      BY <3>1, <3>3, OpTyped DEF EnterSemaphore, WriteOp
    <3>4. CASE \E outcome \in Outcomes : Checked(j, p, outcome)
      BY <3>1, <3>2, <3>4 DEF Checked, Move
    <3> QED
      BY <1>6, <3>3, <3>4 DEF WorkerStep
  <2>3. \A u \in Task : u # <<j, p>> => op'[u] = op[u]
    BY <1>6 DEF WorkerStep, EnterSemaphore, Checked
  <2> QED
    BY <2>1, <2>2, <2>3, <1>a, JobShapeKept
<1>7. ASSUME NEW g \in Enrichers, EnrichStep(g)
      PROVE  JobShape'
  <2>1. ASSUME NEW located \in SUBSET ProxyId, StartEnrich(g, located)
        PROVE  JobShape'
    BY <2>1, DisjointAssumption DEF StartEnrich, JobShape
  <2>2. ASSUME NEW p \in ProxyId, EnrichNext(g, p)
        PROVE  JobShape'
    BY <2>2, <1>a, <1>b, JobShapeKept DEF EnrichNext
  <2> QED
    BY <1>7, <2>1, <2>2 DEF EnrichStep
<1>8. CASE Crash
  BY <1>8, <1>a DEF Crash, JobShape, Idle
<1>9. CASE UNCHANGED vars
  BY <1>9 DEF vars, JobShape
<1>10. ASSUME NEW t \in Jobs \cup Enrichers, ReadFails(t)
       PROVE  JobShape'
  <2>1. UNCHANGED op /\ \A j \in Jobs : phase'[j] = "idle" \/ phase'[j] = phase[j]
    BY <1>10 DEF ReadFails
  <2> QED
    BY <2>1, JobShapeKept
<1> QED
  BY <1>1, <1>2, <1>3, <1>4, <1>5, <1>6, <1>7, <1>8, <1>9, <1>10 DEF Next

LEMMA JobShapeInvariant == Spec => []JobShape
<1>1. Init => JobShape
  BY DEF Init, JobShape, Task, Idle
<1> QED
  BY <1>1, JobShapeStep, TypeCorrect, PTL DEF Spec

-----------------------------------------------------------------------------
(* No proxy is dropped by a move *)

Carrying == {"commitDelete", "upsert"}

\* A step that leaves the table alone and lets every task that carries a row
\* go on carrying it.
LEMMA ConservedKept ==
    ASSUME Conserved,
           UNCHANGED table, known' = known, lost \subseteq lost',
           \A u \in Task : op[u].pc \in Carrying =>
              op'[u].pc \in Carrying /\ op'[u].id = op[u].id /\ op'[u].row = op[u].row
    PROVE  Conserved'
<1> SUFFICES ASSUME NEW p \in known, p \notin lost', ~Stored(p)'
             PROVE  \E t \in Task : InHand(t, p)'
  BY DEF Conserved
<1>1. PICK t \in Task : InHand(t, p)
  BY DEF Conserved, Stored
<1>2. InHand(t, p)'
  BY <1>1 DEF InHand, Carrying
<1> QED
  BY <1>2

LEMMA ConservedStep == TypeOK /\ JobShape /\ Conserved /\ [Next]_vars => Conserved'
<1> SUFFICES ASSUME TypeOK, JobShape, Conserved, [Next]_vars PROVE Conserved'
  OBVIOUS
<1> USE DEF TypeOK
<1>a. \A j \in Jobs, p \in ProxyId : <<j, p>> \in Task
  BY DEF Task
<1>b. \A t \in Jobs \cup Clients \cup Feeds \cup Enrichers : t \in Task
  BY DEF Task
<1>1. ASSUME NEW t \in Task, Statement(t)
      PROVE  Conserved'
  <2>0. op[t] \in Op
    OBVIOUS
  <2>1. CASE Select(t)
    BY <2>1, ConservedKept DEF Select, history, Carrying
  <2>2. CASE Delete(t)
    <3> DEFINE q == op[t].id
    <3>1. q \in ProxyId /\ (op[t] \in WriteOp \/ op[t] \in EraseOp)
      BY <2>0, <2>2, OpTyped DEF Delete
    <3>2. /\ op'[t].pc = "commitDelete"
          /\ op'[t].id = q
          /\ op'[t].row = op[t].row
      BY <2>2, <3>1 DEF Delete, WriteOp, EraseOp
    <3> SUFFICES ASSUME NEW p \in known', p \notin lost', ~Stored(p)'
                 PROVE  \E u \in Task : InHand(u, p)'
      BY DEF Conserved
    <3>3. CASE p = q
      <4>1. op[t].row # Absent
        BY <2>2, <3>3 DEF Delete
      <4> QED
        BY <3>2, <3>3, <4>1 DEF InHand
    <3>4. CASE p # q
      <4>1. p \in known /\ p \notin lost /\ ~Stored(p)
        BY <2>2, <3>4 DEF Delete, Stored
      <4>2. PICK u \in Task : InHand(u, p)
        BY <4>1 DEF Conserved
      <4>3. u # t
        BY <3>4, <4>2 DEF InHand
      <4>4. op'[u] = op[u]
        BY <2>2, <4>3 DEF Delete
      <4> QED
        BY <4>2, <4>4 DEF InHand
    <3> QED
      BY <3>3, <3>4
  <2>3. CASE CommitDelete(t)
    <3>1. CASE op[t].row = Absent
      <4> SUFFICES ASSUME NEW p \in known, p \notin lost, ~Stored(p)
                   PROVE  \E u \in Task : InHand(u, p)'
        BY <2>3 DEF Conserved, CommitDelete, Stored
      <4>1. PICK u \in Task : InHand(u, p)
        BY DEF Conserved
      <4>2. u # t
        BY <3>1, <4>1 DEF InHand
      <4>3. op'[u] = op[u]
        BY <2>3, <3>1, <4>2 DEF CommitDelete
      <4> QED
        BY <4>1, <4>3 DEF InHand
    <3>2. CASE op[t].row # Absent
      <4>1. op[t] \in WriteOp
        BY <2>0, <3>2, OpTyped
      <4>2. op' = [op EXCEPT ![t].pc = "upsert"]
        BY <2>3, <3>2 DEF CommitDelete
      <4>3. op'[t].pc = "upsert" /\ op'[t].id = op[t].id /\ op'[t].row = op[t].row
        BY <4>1, <4>2 DEF WriteOp
      <4>4. \A u \in Task : u # t => op'[u] = op[u]
        BY <4>2
      <4> QED
        BY <2>3, <4>3, <4>4, ConservedKept DEF CommitDelete, Carrying
    <3> QED
      BY <3>1, <3>2
  <2>4. CASE Upsert(t)
    <3> DEFINE q == op[t].id
    <3>1. q \in ProxyId /\ op[t].row \in Row /\ op[t].row # Absent
      BY <2>0, <2>4, OpTyped, RulesTyped DEF Upsert, WriteOp
    <3> SUFFICES ASSUME NEW p \in known', p \notin lost', ~Stored(p)'
                 PROVE  \E u \in Task : InHand(u, p)'
      BY DEF Conserved
    <3>2. p # q
      BY <2>4, <3>1 DEF Upsert, Stored
    <3>3. p \in known /\ p \notin lost /\ ~Stored(p)
      BY <2>4, <3>2 DEF Upsert, Stored
    <3>4. PICK u \in Task : InHand(u, p)
      BY <3>3 DEF Conserved
    <3>5. op'[u] = op[u]
      BY <2>4, <3>2, <3>4 DEF Upsert, InHand
    <3> QED
      BY <3>4, <3>5 DEF InHand
  <2>5. CASE CommitUpsert(t)
    <3>1. \A u \in Task : op[u].pc \in Carrying => op'[u] = op[u]
      BY <2>5 DEF CommitUpsert, Carrying
    <3> QED
      BY <2>5, <3>1, ConservedKept DEF CommitUpsert, history
  <2> QED
    BY <1>1, <2>1, <2>2, <2>3, <2>4, <2>5 DEF Statement
<1>2. ASSUME NEW t \in Task, StatementFails(t)
      PROVE  Conserved'
  <2> SUFFICES ASSUME NEW p \in known, p \notin lost', ~Stored(p)
               PROVE  \E u \in Task : InHand(u, p)'
    BY <1>2 DEF Conserved, StatementFails, Stored
  <2>1. PICK u \in Task : InHand(u, p)
    BY <1>2 DEF Conserved, StatementFails
  <2>2. u # t
    BY <1>2, <2>1 DEF StatementFails, InHand
  <2>3. op'[u] = op[u]
    BY <1>2, <2>2 DEF StatementFails
  <2> QED
    BY <2>1, <2>3 DEF InHand
<1>3. ASSUME NEW f \in Feeds, FeedStep(f)
      PROVE  Conserved'
  <2>1. \A u \in Task : op[u].pc # "idle" => op'[u] = op[u]
    BY <1>3 DEF FeedStep, FeedStart, FeedNext
  <2>2. UNCHANGED <<table, known, lost>>
    BY <1>3 DEF FeedStep, FeedStart, FeedNext, history
  <2> QED
    BY <2>1, <2>2, ConservedKept DEF Carrying
<1>4. ASSUME NEW c \in Clients, ClientStep(c)
      PROVE  Conserved'
  <2>1. \A u \in Task : op[u].pc # "idle" => op'[u] = op[u]
    BY <1>4 DEF ClientStep, Report, DeleteProxy
  <2>2. UNCHANGED <<table, known, lost>>
    BY <1>4 DEF ClientStep, Report, DeleteProxy, history
  <2> QED
    BY <2>1, <2>2, ConservedKept DEF Carrying
<1>5. ASSUME NEW j \in Jobs, RequestJob(j) \/ AcquireLock(j) \/ JobStep(j)
      PROVE  Conserved'
  <2>1. \A u \in Task : op[u].pc # "idle" => op'[u] = op[u]
    <3>1. CASE \E listed \in SUBSET ProxyId : StartWorkers(j, listed)
      BY <3>1 DEF StartWorkers, Listings, InPool, JobShape
    <3> QED
      BY <1>5, <3>1 DEF RequestJob, AcquireLock, StartJob, JobStep, ReleaseNext, ReleaseDone, FinishJob
  <2>2. UNCHANGED <<table, known, lost>>
    BY <1>5 DEF RequestJob, AcquireLock, StartJob, JobStep, ReleaseNext, ReleaseDone,
                FinishJob, StartWorkers, history
  <2> QED
    BY <2>1, <2>2, ConservedKept DEF Carrying
<1>6. ASSUME NEW j \in Jobs, NEW p \in ProxyId, WorkerStep(j, p)
      PROVE  Conserved'
  <2>1. \A u \in Task : op[u].pc \in Carrying => op'[u] = op[u]
    BY <1>6 DEF WorkerStep, EnterSemaphore, Checked, Carrying
  <2>2. UNCHANGED <<table, known, lost>>
    BY <1>6 DEF WorkerStep, EnterSemaphore, Checked, history
  <2> QED
    BY <2>1, <2>2, ConservedKept
<1>7. ASSUME NEW g \in Enrichers, EnrichStep(g)
      PROVE  Conserved'
  <2>1. \A u \in Task : op[u].pc # "idle" => op'[u] = op[u]
    BY <1>7 DEF EnrichStep, StartEnrich, EnrichNext
  <2>2. UNCHANGED <<table, known, lost>>
    BY <1>7 DEF EnrichStep, StartEnrich, EnrichNext, history
  <2> QED
    BY <2>1, <2>2, ConservedKept DEF Carrying
<1>8. CASE Crash
  BY <1>8 DEF Crash, Conserved, Stored
<1>9. CASE UNCHANGED vars
  BY <1>9 DEF vars, Conserved, Stored, InHand
<1>10. ASSUME NEW t \in Jobs \cup Enrichers, ReadFails(t)
       PROVE  Conserved'
  BY <1>10, ConservedKept DEF ReadFails, history
<1> QED
  BY <1>1, <1>2, <1>3, <1>4, <1>5, <1>6, <1>7, <1>8, <1>9, <1>10 DEF Next

\* A proxy that was stored and not deleted by the operator is always in the
\* table, in the hand of a task about to write it, or taken by a fault: the
\* two-statement moves of validate_proxy, release_expired and report_result
\* drop no proxy, however they interleave.
THEOREM ProxiesConserved == Spec => []Conserved
<1>1. Init => Conserved
  BY DEF Init, Conserved
<1> QED
  BY <1>1, ConservedStep, TypeCorrect, JobShapeInvariant, PTL DEF Spec

-----------------------------------------------------------------------------
(* An answered delete without a copy in flight is final *)

\* ErasedStaysErased with what makes it inductive: no task has a copy.
ErasedInv ==
    \A p \in erased :
        /\ table[p] = Absent
        /\ disk[p] = Absent
        /\ \A t \in Task : ~Holds(t, p)

\* A step that touches neither image and hands out no copy of an erased proxy.
LEMMA ErasedKept ==
    ASSUME ErasedInv, erased' \subseteq erased,
           \A p \in erased' : table'[p] = Absent /\ disk'[p] = Absent,
           \A p \in erased', t \in Task :
              \/ op'[t] = op[t]
              \/ op'[t].row = Absent
              \/ op'[t].id # p,
           \A p \in erased', t \in Looper : held'[t][p] = held[t][p] \/ held'[t][p] = Absent
    PROVE  ErasedInv'
<1> SUFFICES ASSUME NEW p \in erased', NEW t \in Task PROVE ~Holds(t, p)'
  BY DEF ErasedInv
<1> QED
  BY DEF ErasedInv, Holds

LEMMA ErasedStep == TypeOK /\ JobShape /\ ErasedInv /\ [Next]_vars => ErasedInv'
<1> SUFFICES ASSUME TypeOK, JobShape, ErasedInv, [Next]_vars PROVE ErasedInv'
  OBVIOUS
<1> USE DEF TypeOK
<1>a. \A j \in Jobs, p \in ProxyId : <<j, p>> \in Task
  BY DEF Task
<1>b. \A t \in Looper : t \in Task
  BY DEF Task, Looper
<1>c. \A p \in erased : table[p] = Absent /\ disk[p] = Absent /\ \A t \in Task : ~Holds(t, p)
  BY DEF ErasedInv
<1>1. ASSUME NEW t \in Task, Statement(t)
      PROVE  ErasedInv'
  <2>0. op[t] \in Op
    OBVIOUS
  <2>1. CASE Select(t)
    <3>1. op[t] \in WriteOp
      BY <2>0, <2>1, OpTyped DEF Select
    <3>2. op'[t].id = op[t].id /\ op[t].row # Absent
      BY <2>1, <3>1, RulesTyped DEF Select, WriteOp
    <3>3. op[t].id \notin erased
      BY <1>c, <3>2 DEF Holds
    <3> QED
      BY <2>1, <1>c, <3>2, <3>3, ErasedKept DEF Select, history
  <2>2. CASE Delete(t)
    <3>1. op[t] \in WriteOp \/ (op[t] \in EraseOp /\ op[t].row = Absent)
      BY <2>0, <2>2, OpTyped DEF Delete
    <3>2. op'[t].id = op[t].id /\ op'[t].row = op[t].row
      BY <2>2, <3>1 DEF Delete, WriteOp, EraseOp
    <3>3. op[t].row = Absent \/ op[t].id \notin erased
      BY <1>c DEF Holds
    <3> QED
      BY <2>2, <1>c, <3>2, <3>3, ErasedKept DEF Delete
  <2>3. CASE CommitDelete(t)
    <3> DEFINE q == op[t].id
    <3>1. CASE op[t].row = Absent
      <4>1. \A u \in Task : op'[u] = op[u] \/ op'[u] = Idle
        BY <2>3, <3>1 DEF CommitDelete
      <4>2. ASSUME NEW p \in erased'
            PROVE  table[p] = Absent /\ \A u \in Task : ~Holds(u, p)
        BY <2>3, <3>1, <4>2, <1>c DEF CommitDelete, Stored
      <4>3. \A p \in erased', u \in Task : Holds(u, p)' => Holds(u, p)
        BY <2>3, <4>1 DEF CommitDelete, Holds, Idle
      <4> QED
        BY <2>3, <4>2, <4>3 DEF CommitDelete, ErasedInv
    <3>2. CASE op[t].row # Absent
      <4>1. op[t] \in WriteOp /\ q \notin erased
        BY <2>0, <3>2, <1>c, OpTyped DEF Holds
      <4>2. op' = [op EXCEPT ![t].pc = "upsert"] /\ disk' = table
            /\ UNCHANGED <<table, held, erased>>
        BY <2>3, <3>2 DEF CommitDelete
      <4>3. op'[t].id = q
        BY <4>1, <4>2 DEF WriteOp
      <4> QED
        BY <1>c, <4>1, <4>2, <4>3, ErasedKept
    <3> QED
      BY <3>1, <3>2
  <2>4. CASE Upsert(t)
    <3>1. op[t] \in WriteOp
      BY <2>0, <2>4, OpTyped DEF Upsert
    <3>2. op'[t].id = op[t].id /\ op[t].row # Absent
      BY <2>4, <3>1, RulesTyped DEF Upsert, WriteOp
    <3>3. op[t].id \notin erased
      BY <1>c, <3>2 DEF Holds
    <3> QED
      BY <2>4, <1>c, <3>2, <3>3, ErasedKept DEF Upsert
  <2>5. CASE CommitUpsert(t)
    BY <2>5, <1>c, ErasedKept DEF CommitUpsert, history, Idle
  <2> QED
    BY <1>1, <2>1, <2>2, <2>3, <2>4, <2>5 DEF Statement
<1>2. ASSUME NEW t \in Task, StatementFails(t)
      PROVE  ErasedInv'
  <2>1. \A u \in Task : op'[u] = op[u] \/ op'[u].row = Absent
    BY <1>2 DEF StatementFails, Idle
  <2>2. \A u \in Looper, p \in ProxyId : held'[u][p] = held[u][p] \/ held'[u][p] = Absent
    BY <1>2 DEF StatementFails, Empty
  <2> QED
    BY <1>2, <1>c, <2>1, <2>2, ErasedKept DEF StatementFails
<1>3. ASSUME NEW f \in Feeds, FeedStep(f)
      PROVE  ErasedInv'
  <2>1. f \in Task /\ f \in Looper
    BY DEF Task, Looper
  <2>2. ASSUME NEW found \in SUBSET ProxyId, FeedStart(f, found)
        PROVE  ErasedInv'
    BY <2>2, <1>c, <2>1, ErasedKept DEF FeedStart
  <2>3. ASSUME NEW p \in ProxyId, FeedNext(f, p)
        PROVE  ErasedInv'
    <3>1. p \notin erased
      BY <1>c, <2>1, <2>3 DEF FeedNext, Holds
    <3> QED
      BY <2>3, <1>c, <2>1, <3>1, ErasedKept DEF FeedNext, Save, history
  <2> QED
    BY <1>3, <2>2, <2>3 DEF FeedStep
<1>4. ASSUME NEW c \in Clients, ClientStep(c)
      PROVE  ErasedInv'
  <2>1. PICK p \in ProxyId : (\E ok \in BOOLEAN : Report(c, p, ok)) \/ DeleteProxy(c, p)
    BY <1>4 DEF ClientStep
  <2>2. p \notin erased
    BY <1>c, <2>1 DEF Report, DeleteProxy, Stored
  <2>3. \A t \in Task : op'[t] = op[t] \/ op'[t].id = p
    BY <2>1 DEF Report, DeleteProxy, Save, Move, Erase
  <2> QED
    BY <1>c, <2>1, <2>2, <2>3, ErasedKept DEF Report, DeleteProxy, history
<1>5. ASSUME NEW j \in Jobs, RequestJob(j) \/ AcquireLock(j) \/ JobStep(j)
      PROVE  ErasedInv'
  <2>0. j \in Task /\ j \in Looper
    BY DEF Task, Looper
  <2>1. CASE RequestJob(j) \/ ReleaseDone(j) \/ FinishJob(j)
    BY <2>1, <1>c, ErasedKept DEF RequestJob, ReleaseDone, FinishJob, history
  <2>2. ASSUME NEW listed \in SUBSET ProxyId, StartJob(j, listed)
        PROVE  ErasedInv'
    BY <2>2, <2>0, <1>c, ErasedKept DEF StartJob, history
  <2>3. ASSUME NEW p \in ProxyId, NEW expired \in BOOLEAN, ReleaseNext(j, p, expired)
        PROVE  ErasedInv'
    <3>1. p \notin erased
      BY <1>c, <2>0, <2>3 DEF ReleaseNext, Holds
    <3> QED
      BY <2>3, <1>c, <2>0, <3>1, ErasedKept DEF ReleaseNext, Move, history
  <2>4. ASSUME NEW listed \in SUBSET ProxyId, StartWorkers(j, listed)
        PROVE  ErasedInv'
    <3>1. \A p \in listed : p \notin erased
      BY <2>4, <1>c DEF StartWorkers, Listings, InPool, Absent
    <3>2. \A t \in Task : op'[t] = op[t] \/ op'[t].id \in listed
      BY <2>4 DEF StartWorkers
    <3> QED
      BY <2>4, <1>c, <3>1, <3>2, ErasedKept DEF StartWorkers, history
  <2> QED
    BY <1>5, <2>1, <2>2, <2>3, <2>4 DEF AcquireLock, JobStep
<1>6. ASSUME NEW j \in Jobs, NEW p \in ProxyId, WorkerStep(j, p)
      PROVE  ErasedInv'
  <2>1. op[<<j, p>>] \in WriteOp /\ op[<<j, p>>].id = p
    <3>1. op[<<j, p>>] \in Op
      BY <1>a
    <3> QED
      BY <1>6, <3>1, OpTyped DEF WorkerStep, EnterSemaphore, Checked, JobShape
  <2>2. p \notin erased
    BY <2>1, <1>a, <1>c, RulesTyped DEF Holds, WriteOp
  <2>3. op'[<<j, p>>].id = p
    <3>1. CASE EnterSemaphore(j, p)
      BY <3>1, <1>a, <2>1 DEF EnterSemaphore, WriteOp
    <3>2. CASE \E outcome \in Outcomes : Checked(j, p, outcome)
      BY <3>2, <1>a DEF Checked, Move
    <3> QED
      BY <1>6, <3>1, <3>2 DEF WorkerStep
  <2>4. \A t \in Task : t # <<j, p>> => op'[t] = op[t]
    BY <1>6 DEF WorkerStep, EnterSemaphore, Checked
  <2>5. UNCHANGED <<table, disk, held, erased>>
    BY <1>6 DEF WorkerStep, EnterSemaphore, Checked, history
  <2> QED
    BY <1>c, <2>2, <2>3, <2>4, <2>5, ErasedKept
<1>7. ASSUME NEW g \in Enrichers, EnrichStep(g)
      PROVE  ErasedInv'
  <2>0. g \in Task /\ g \in Looper
    BY DEF Task, Looper
  <2>1. ASSUME NEW located \in SUBSET ProxyId, StartEnrich(g, located)
        PROVE  ErasedInv'
    BY <2>1, <2>0, <1>c, ErasedKept DEF StartEnrich, history
  <2>2. ASSUME NEW p \in ProxyId, EnrichNext(g, p)
        PROVE  ErasedInv'
    <3>1. p \notin erased
      BY <1>c, <2>0, <2>2 DEF EnrichNext, Holds
    <3> QED
      BY <2>2, <1>c, <2>0, <3>1, ErasedKept DEF EnrichNext, Save, history
  <2> QED
    BY <1>7, <2>1, <2>2 DEF EnrichStep
<1>8. CASE Crash
  BY <1>8, <1>c, ErasedKept DEF Crash, Idle, Empty
<1>9. CASE UNCHANGED vars
  BY <1>9 DEF vars, ErasedInv, Holds
<1>10. ASSUME NEW t \in Jobs \cup Enrichers, ReadFails(t)
       PROVE  ErasedInv'
  <2>1. \A u \in Looper, p \in ProxyId : held'[u][p] = held[u][p] \/ held'[u][p] = Absent
    BY <1>10 DEF ReadFails, Empty
  <2> QED
    BY <1>10, <1>c, <2>1, ErasedKept DEF ReadFails, history
<1> QED
  BY <1>1, <1>2, <1>3, <1>4, <1>5, <1>6, <1>7, <1>8, <1>9, <1>10 DEF Next

\* Once DELETE /proxy/{id} is answered and no task had a copy of the proxy,
\* the proxy is in neither image again until a feed delivers it.
THEOREM ErasedFinal == Spec => []ErasedStaysErased
<1>1. Init => ErasedInv
  BY DEF Init, ErasedInv
<1>2. ErasedInv => ErasedStaysErased
  BY DEF ErasedInv, ErasedStaysErased, Stored
<1> QED
  BY <1>1, <1>2, ErasedStep, TypeCorrect, JobShapeInvariant, PTL DEF Spec

-----------------------------------------------------------------------------
(* What can be handed out has no streak and no deadline *)

Healthy(row) ==
    row.pool \in SelectionPools =>
        /\ row.consecutive_fail_count < CooldownThreshold
        /\ row.cooldown_until = "none"

LEMMA HealthyRules ==
    /\ Healthy(Absent) /\ Healthy(FreshRow)
    /\ \A row \in Row : Healthy(Released(row))
    /\ \A row \in Row, ok \in BOOLEAN : Healthy(row) => Healthy(Reported(row, ok))
    /\ \A row \in Row, outcome \in Outcomes : Healthy(Validated(row, outcome))
<1> USE ThresholdAssumption DEF Healthy, SelectionPools, Row
<1>1. Healthy(Absent) /\ Healthy(FreshRow)
  BY DEF Absent, FreshRow
<1>2. ASSUME NEW row \in Row
      PROVE  Healthy(Released(row))
  <2>1. [row EXCEPT !.pool = "raw"] \in Row
    BY DEF Pools
  <2>2. [[row EXCEPT !.pool = "raw"] EXCEPT !.cooldown_until = "none"].pool = "raw"
    BY <2>1
  <2> QED
    BY <2>2 DEF Released
<1>3. ASSUME NEW row \in Row, Healthy(row)
      PROVE  Healthy(ReportedOk(row))
  <2>1. [row EXCEPT !.consecutive_fail_count = 0] \in Row
    OBVIOUS
  <2>2. LET r == [[row EXCEPT !.consecutive_fail_count = 0] EXCEPT !.cooldown_until = "none"]
        IN  r.consecutive_fail_count = 0 /\ r.cooldown_until = "none"
    BY <2>1
  <2> QED
    BY <2>2 DEF ReportedOk
<1>4. ASSUME NEW row \in Row, Healthy(row)
      PROVE  Healthy(ReportedFailure(row))
  <2> DEFINE failures == OneMore(row.consecutive_fail_count)
             counted == [row EXCEPT !.consecutive_fail_count = failures]
             toDead == failures >= DeadThreshold /\ row.pool # "dead"
             toCooldown == failures >= CooldownThreshold /\ row.pool # "cooldown"
  <2>1. failures \in 0..DeadThreshold
    BY DEF OneMore
  <2>2. /\ counted \in Row
        /\ counted.pool = row.pool
        /\ counted.consecutive_fail_count = failures
        /\ counted.cooldown_until = row.cooldown_until
    BY <2>1
  <2>3. CASE toDead
    <3>1. [counted EXCEPT !.pool = "dead"].pool = "dead"
      BY <2>2
    <3>2. ReportedFailure(row) = [counted EXCEPT !.pool = "dead"]
      BY <2>3, Zenon DEF ReportedFailure
    <3> QED
      BY <3>1, <3>2
  <2>4. CASE ~toDead /\ toCooldown
    <3>1. [[counted EXCEPT !.pool = "cooldown"] EXCEPT !.cooldown_until = "set"].pool = "cooldown"
      BY <2>2
    <3>2. ReportedFailure(row) =
            [[counted EXCEPT !.pool = "cooldown"] EXCEPT !.cooldown_until = "set"]
      BY <2>4, Zenon DEF ReportedFailure
    <3> QED
      BY <3>1, <3>2
  <2>5. CASE ~toDead /\ ~toCooldown
    <3>1. ReportedFailure(row) = counted
      BY <2>5, Zenon DEF ReportedFailure
    <3>2. row.pool \in SelectionPools => failures < CooldownThreshold
      BY <2>1, <2>5
    <3>3. Healthy(counted)
      BY <1>4, <2>2, <3>2
    <3> QED
      BY <3>1, <3>3
  <2> QED
    BY <2>3, <2>4, <2>5
<1>5. ASSUME NEW row \in Row, NEW outcome \in Outcomes
      PROVE  Healthy(Validated(row, outcome))
  BY DEF Validated, TargetPool, OneMore, Outcomes
<1>6. ASSUME NEW row \in Row, NEW ok \in BOOLEAN, Healthy(row)
      PROVE  Healthy(Reported(row, ok))
  BY <1>3, <1>4, <1>6, Zenon DEF Reported
<1> QED
  BY <1>1, <1>2, <1>5, <1>6, Zenon

\* Every row anywhere, the copies in the hands of tasks included.
HealthyInv ==
    Enrichers = {} =>
        /\ \A p \in ProxyId : Healthy(table[p]) /\ Healthy(disk[p])
        /\ \A t \in Task : Healthy(op[t].row)
        /\ \A t \in Looper, p \in ProxyId : Healthy(held[t][p])

LEMMA HealthyStep == TypeOK /\ HealthyInv /\ [Next]_vars => HealthyInv'
<1> SUFFICES ASSUME TypeOK, HealthyInv, [Next]_vars, Enrichers = {} PROVE HealthyInv'
  BY DEF HealthyInv
<1> USE DEF TypeOK
<1>a. /\ \A p \in ProxyId : Healthy(table[p]) /\ Healthy(disk[p])
      /\ \A t \in Task : Healthy(op[t].row)
      /\ \A t \in Looper, p \in ProxyId : Healthy(held[t][p])
  BY DEF HealthyInv
\* It is enough to look at the rows that a step writes somewhere.
<1>b. ASSUME \A p \in ProxyId : Healthy(table'[p]) /\ Healthy(disk'[p]),
             \A t \in Task : op'[t] = op[t] \/ op'[t].row = op[t].row \/ Healthy(op'[t].row),
             \A t \in Looper, p \in ProxyId :
                held'[t][p] = held[t][p] \/ Healthy(held'[t][p])
      PROVE  HealthyInv'
  BY <1>a, <1>b DEF HealthyInv, Healthy
<1>c. Healthy(Absent) /\ Idle.row = Absent /\ \A p \in ProxyId : Empty[p] = Absent
  BY HealthyRules DEF Idle, Empty
<1>1. ASSUME NEW t \in Task, Statement(t)
      PROVE  HealthyInv'
  <2>0. op[t] \in WriteOp \/ op[t] \in EraseOp \/ op[t].pc = "idle"
    BY DEF Op, Idle
  <2>1. op'[t] = Idle \/ op'[t].row = op[t].row
    BY <1>1, <2>0 DEF Statement, Select, Delete, CommitDelete, Upsert, CommitUpsert,
                      WriteOp, EraseOp
  <2>2. \A u \in Task : u # t => op'[u] = op[u]
    BY <1>1 DEF Statement, Select, Delete, CommitDelete, Upsert, CommitUpsert
  <2>3. UNCHANGED held
    BY <1>1 DEF Statement, Select, Delete, CommitDelete, Upsert, CommitUpsert
  <2>4. \A p \in ProxyId : \/ table'[p] = table[p]
                           \/ table'[p] = Absent
                           \/ table'[p] = op[t].row
    BY <1>1 DEF Statement, Select, Delete, CommitDelete, Upsert, CommitUpsert
  <2>5. disk' = disk \/ disk' = table
    BY <1>1 DEF Statement, Select, Delete, CommitDelete, Upsert, CommitUpsert
  <2>6. \A p \in ProxyId : Healthy(table'[p]) /\ Healthy(disk'[p])
    BY <1>a, <1>c, <2>4, <2>5, Zenon
  <2> QED
    BY <1>b, <1>c, <2>1, <2>2, <2>3, <2>6
<1>2. ASSUME NEW t \in Task, StatementFails(t)
      PROVE  HealthyInv'
  BY <1>2, <1>a, <1>b, <1>c DEF StatementFails
<1>3. ASSUME NEW f \in Feeds, FeedStep(f)
      PROVE  HealthyInv'
  <2>1. f \in Task /\ f \in Looper
    BY DEF Task, Looper
  <2>2. ASSUME NEW found \in SUBSET ProxyId, FeedStart(f, found)
        PROVE  HealthyInv'
    BY <2>1, <2>2, <1>a, <1>b, <1>c, HealthyRules DEF FeedStart
  <2>3. ASSUME NEW p \in ProxyId, FeedNext(f, p)
        PROVE  HealthyInv'
    BY <2>1, <2>3, <1>a, <1>b, <1>c DEF FeedNext, Save, history
  <2> QED
    BY <1>3, <2>2, <2>3 DEF FeedStep
<1>4. ASSUME NEW c \in Clients, ClientStep(c)
      PROVE  HealthyInv'
  <2>1. c \in Task
    BY DEF Task
  <2>2. ASSUME NEW p \in ProxyId, NEW ok \in BOOLEAN, Report(c, p, ok)
        PROVE  HealthyInv'
    <3>1. table[p] \in Row
      BY <2>2 DEF Report, Stored
    <3>2. Healthy(Reported(table[p], ok))
      BY <1>a, <3>1, HealthyRules
    <3>3. op'[c].row = Reported(table[p], ok)
      BY <2>1, <2>2 DEF Report, Save, Move
    <3> QED
      BY <2>2, <1>a, <1>b, <3>2, <3>3 DEF Report, history
  <2>3. ASSUME NEW p \in ProxyId, DeleteProxy(c, p)
        PROVE  HealthyInv'
    BY <2>1, <2>3, <1>a, <1>b, <1>c DEF DeleteProxy, Erase, history
  <2> QED
    BY <1>4, <2>2, <2>3 DEF ClientStep
<1>5. ASSUME NEW j \in Jobs, RequestJob(j) \/ AcquireLock(j) \/ JobStep(j)
      PROVE  HealthyInv'
  <2>0. j \in Task /\ j \in Looper
    BY DEF Task, Looper
  <2>1. CASE RequestJob(j) \/ ReleaseDone(j) \/ FinishJob(j)
    BY <2>1, <1>a, <1>b DEF RequestJob, ReleaseDone, FinishJob, history
  <2>2. ASSUME NEW listed \in SUBSET ProxyId, StartJob(j, listed)
        PROVE  HealthyInv'
    BY <2>2, <2>0, <1>a, <1>b, <1>c DEF StartJob, history
  <2>3. ASSUME NEW p \in ProxyId, NEW expired \in BOOLEAN, ReleaseNext(j, p, expired)
        PROVE  HealthyInv'
    <3>1. held[j][p] \in Row
      BY <2>0, <2>3 DEF ReleaseNext
    <3>2. Healthy(Released(held[j][p]))
      BY <3>1, HealthyRules
    <3>3. \A t \in Task : op'[t] = op[t] \/ op'[t].row = Released(held[j][p])
      BY <2>3 DEF ReleaseNext, Move
    <3>4. \A t \in Looper, q \in ProxyId : held'[t][q] = held[t][q] \/ held'[t][q] = Absent
      BY <2>3 DEF ReleaseNext
    <3> QED
      BY <2>3, <1>a, <1>b, <1>c, <3>2, <3>3, <3>4 DEF ReleaseNext, history
  <2>4. ASSUME NEW listed \in SUBSET ProxyId, StartWorkers(j, listed)
        PROVE  HealthyInv'
    <3>1. \A t \in Task : op'[t] = op[t] \/ \E p \in ProxyId : op'[t].row = table[p]
      BY <2>4 DEF StartWorkers
    <3>2. \A t \in Task : op'[t] = op[t] \/ Healthy(op'[t].row)
      BY <1>a, <3>1
    <3> QED
      BY <2>4, <1>a, <1>b, <3>2 DEF StartWorkers, history
  <2> QED
    BY <1>5, <2>1, <2>2, <2>3, <2>4 DEF AcquireLock, JobStep
<1>6. ASSUME NEW j \in Jobs, NEW p \in ProxyId, WorkerStep(j, p)
      PROVE  HealthyInv'
  <2>1. <<j, p>> \in Task /\ op[<<j, p>>] \in Op
    BY DEF Task
  <2>2. op[<<j, p>>] \in WriteOp /\ op[<<j, p>>].row \in Row
    BY <1>6, <2>1, OpTyped DEF WorkerStep, EnterSemaphore, Checked, WriteOp
  <2>3. op'[<<j, p>>].row = op[<<j, p>>].row \/ Healthy(op'[<<j, p>>].row)
    <3>1. CASE EnterSemaphore(j, p)
      BY <3>1, <2>1, <2>2 DEF EnterSemaphore, WriteOp
    <3>2. ASSUME NEW outcome \in Outcomes, Checked(j, p, outcome)
          PROVE  Healthy(op'[<<j, p>>].row)
      BY <3>2, <2>1, <2>2, HealthyRules DEF Checked, Move
    <3> QED
      BY <1>6, <3>1, <3>2 DEF WorkerStep
  <2>4. \A t \in Task : t # <<j, p>> => op'[t] = op[t]
    BY <1>6 DEF WorkerStep, EnterSemaphore, Checked
  <2>5. UNCHANGED <<table, disk, held>>
    BY <1>6 DEF WorkerStep, EnterSemaphore, Checked
  <2> QED
    BY <1>a, <1>b, <2>3, <2>4, <2>5
<1>7. CASE Crash
  BY <1>7, <1>a, <1>b, <1>c DEF Crash
<1>8. CASE UNCHANGED vars
  BY <1>8, <1>a, <1>b DEF vars
<1>9. ASSUME NEW t \in Jobs \cup Enrichers, ReadFails(t)
      PROVE  HealthyInv'
  <2>1. \A u \in Looper, p \in ProxyId : held'[u][p] = held[u][p] \/ held'[u][p] = Absent
    BY <1>9 DEF ReadFails, Empty
  <2> QED
    BY <1>9, <1>a, <1>b, <1>c, <2>1 DEF ReadFails
<1> QED
  BY <1>1, <1>2, <1>3, <1>4, <1>5, <1>6, <1>7, <1>8, <1>9 DEF Next

\* While no enrichment runs, a proxy of a selection pool has fewer failures in
\* a row than send it to cooldown, and no deadline.
THEOREM SelectionHealthy == Spec => []SelectableIsHealthy
<1>1. Init => HealthyInv
  BY HealthyRules DEF Init, HealthyInv, Empty, Idle
<1>2. HealthyInv => SelectableIsHealthy
  BY DEF HealthyInv, Healthy, SelectableIsHealthy
<1> QED
  BY <1>1, <1>2, HealthyStep, TypeCorrect, PTL DEF Spec

-----------------------------------------------------------------------------
(* What a crash can cost *)

\* Task t is between its DELETE and the commit of its upsert, or at a save.
Writing(t, p) ==
    /\ op[t].id = p
    /\ op[t].row # Absent
    /\ op[t].pc \in {"commitDelete", "upsert", "commitUpsert"}

DurableInv ==
    ~StoreFaults =>
        \A p \in known \ lost : disk[p] # Absent \/ \E t \in Task : Writing(t, p)

\* A commit by anybody makes every conserved proxy durable.
LEMMA CommitDurable ==
    ASSUME Conserved', disk' = table, UNCHANGED table
    PROVE  DurableInv'
<1> SUFFICES ASSUME NEW p \in known', p \notin lost', disk'[p] = Absent
             PROVE  \E t \in Task : Writing(t, p)'
  BY DEF DurableInv
<1>1. PICK t \in Task : InHand(t, p)'
  BY DEF Conserved, Stored
<1> QED
  BY <1>1 DEF InHand, Writing

LEMMA DurableKept ==
    ASSUME DurableInv, UNCHANGED <<disk, known, lost>>,
           \A t \in Task : op[t].pc \in {"commitDelete", "upsert", "commitUpsert"} =>
              op'[t] = op[t]
    PROVE  DurableInv'
<1> SUFFICES ASSUME ~StoreFaults, NEW p \in known, p \notin lost, disk[p] = Absent
             PROVE  \E t \in Task : Writing(t, p)'
  BY DEF DurableInv
<1>1. PICK t \in Task : Writing(t, p)
  BY DEF DurableInv
<1> QED
  BY <1>1 DEF Writing

LEMMA DurableStep ==
    TypeOK /\ JobShape /\ DurableInv /\ Conserved' /\ [Next]_vars => DurableInv'
<1> SUFFICES ASSUME TypeOK, JobShape, DurableInv, Conserved', [Next]_vars PROVE DurableInv'
  OBVIOUS
<1> USE DEF TypeOK
<1>a. \A j \in Jobs, p \in ProxyId : <<j, p>> \in Task
  BY DEF Task
<1>1. ASSUME NEW t \in Task, Statement(t)
      PROVE  DurableInv'
  <2>0. op[t] \in Op
    OBVIOUS
  <2>1. CASE Select(t)
    BY <2>1, DurableKept DEF Select, history
  <2>2. CASE Delete(t) \/ Upsert(t)
    <3> DEFINE q == op[t].id
    <3>1. q \in ProxyId /\ (op[t] \in WriteOp \/ (op[t] \in EraseOp /\ op[t].row = Absent))
      BY <2>0, <2>2, OpTyped DEF Delete, Upsert
    <3>2. /\ op'[t].id = q
          /\ op'[t].row = op[t].row
          /\ op'[t].pc \in {"commitDelete", "commitUpsert"}
      BY <2>2, <3>1 DEF Delete, Upsert, WriteOp, EraseOp
    <3> SUFFICES ASSUME ~StoreFaults, NEW p \in known', p \notin lost', disk'[p] = Absent
                 PROVE  \E u \in Task : Writing(u, p)'
      BY DEF DurableInv
    <3>3. CASE p = q
      <4>1. op[t].row # Absent
        <5>1. CASE Delete(t)
          BY <3>3, <5>1 DEF Delete
        <5>2. CASE Upsert(t)
          BY <2>0, <5>2, OpTyped, RulesTyped DEF Upsert, WriteOp
        <5> QED
          BY <2>2, <5>1, <5>2
      <4> QED
        BY <3>2, <3>3, <4>1 DEF Writing
    <3>4. CASE p # q
      <4>1. p \in known /\ p \notin lost /\ disk[p] = Absent
        BY <2>2, <3>4 DEF Delete, Upsert
      <4>2. PICK u \in Task : Writing(u, p)
        BY <4>1 DEF DurableInv
      <4>3. op'[u] = op[u]
        BY <2>2, <3>4, <4>2 DEF Delete, Upsert, Writing
      <4> QED
        BY <4>2, <4>3 DEF Writing
    <3> QED
      BY <3>3, <3>4
  <2>3. CASE CommitDelete(t) \/ CommitUpsert(t)
    BY <2>3, CommitDurable DEF CommitDelete, CommitUpsert
  <2> QED
    BY <1>1, <2>1, <2>2, <2>3 DEF Statement
<1>2. ASSUME NEW t \in Task, StatementFails(t)
      PROVE  DurableInv'
  BY <1>2 DEF StatementFails, DurableInv
<1>3. ASSUME \/ \E f \in Feeds : FeedStep(f)
             \/ \E c \in Clients : ClientStep(c)
             \/ \E j \in Jobs : RequestJob(j) \/ AcquireLock(j) \/ JobStep(j)
             \/ \E j \in Jobs, p \in ProxyId : WorkerStep(j, p)
             \/ \E g \in Enrichers : EnrichStep(g)
      PROVE  DurableInv'
  <2>1. ASSUME NEW t \in Task, op[t].pc \in {"commitDelete", "upsert", "commitUpsert"}
        PROVE  op'[t] = op[t]
    <3>1. ASSUME NEW j \in Jobs, NEW listed \in SUBSET ProxyId, StartWorkers(j, listed)
          PROVE  op'[t] = op[t]
      <4>1. listed \subseteq ProxyId /\ \A p \in ProxyId : op[<<j, p>>].pc = "idle"
        BY <3>1 DEF StartWorkers, JobShape
      <4>2. t \notin {j} \X listed
        BY <2>1, <4>1
      <4> QED
        BY <3>1, <4>2 DEF StartWorkers
    <3>2. CASE \E j \in Jobs, p \in ProxyId : WorkerStep(j, p)
      BY <2>1, <3>2 DEF WorkerStep, EnterSemaphore, Checked
    <3>3. CASE \/ \E f \in Feeds : FeedStep(f)
               \/ \E c \in Clients : ClientStep(c)
               \/ \E g \in Enrichers : EnrichStep(g)
      BY <2>1, <3>3 DEF FeedStep, FeedStart, FeedNext, ClientStep, Report, DeleteProxy,
                        EnrichStep, StartEnrich, EnrichNext
    <3>4. ASSUME NEW j \in Jobs, RequestJob(j) \/ AcquireLock(j) \/ JobStep(j)
          PROVE  op'[t] = op[t]
      <4>1. CASE \E listed \in SUBSET ProxyId : StartWorkers(j, listed)
        BY <3>1, <4>1
      <4> QED
        BY <2>1, <3>4, <4>1 DEF RequestJob, AcquireLock, StartJob, JobStep, ReleaseNext,
                                ReleaseDone, FinishJob
    <3> QED
      BY <1>3, <3>2, <3>3, <3>4
  <2>2. UNCHANGED <<disk, known, lost>>
    BY <1>3 DEF FeedStep, FeedStart, FeedNext, ClientStep, Report, DeleteProxy, RequestJob,
                AcquireLock, StartJob, JobStep, ReleaseNext, ReleaseDone, StartWorkers, FinishJob,
                WorkerStep, EnterSemaphore, Checked, EnrichStep, StartEnrich, EnrichNext, history
  <2> QED
    BY <2>1, <2>2, DurableKept
<1>4. CASE Crash
  BY <1>4 DEF Crash, DurableInv
<1>5. CASE UNCHANGED vars
  BY <1>5, DurableKept DEF vars
<1>6. ASSUME NEW t \in Jobs \cup Enrichers, ReadFails(t)
      PROVE  DurableInv'
  BY <1>6, DurableKept DEF ReadFails, history
<1> QED
  BY <1>1, <1>2, <1>3, <1>4, <1>5, <1>6 DEF Next

\* Unless a statement raises, a crash costs at most the proxies whose tasks
\* are between a DELETE and the commit of the upsert that follows.
THEOREM ProxiesDurable == Spec => []DurableOrInHand
<1>1. Init => DurableInv
  BY DEF Init, DurableInv
<1>2. DurableInv => DurableOrInHand
  BY DEF DurableInv, DurableOrInHand, Writing, InHand
<1> QED
  BY <1>1, <1>2, DurableStep, TypeCorrect, JobShapeInvariant, ProxiesConserved, PTL DEF Spec

-----------------------------------------------------------------------------
(* One validation job at a time, and its semaphore *)

\* The lock admits one job; only a job that gathers has coroutines, and as many
\* of them as its semaphore admits are inside.
ExclusiveInv ==
    /\ \A j, k \in Jobs : Running(j) /\ Running(k) => j = k
    /\ \A j \in Jobs, p \in ProxyId : op[<<j, p>>].pc # "idle" => phase[j] = "gather"
    /\ \A j \in Jobs : IsFiniteSet(Inside(j)) /\ Cardinality(Inside(j)) <= Concurrency

\* A set inside one within the semaphore's bound is within it.
LEMMA Shrunk ==
    ASSUME NEW S, IsFiniteSet(S), Cardinality(S) <= Concurrency, NEW T \in SUBSET S
    PROVE  IsFiniteSet(T) /\ Cardinality(T) <= Concurrency
<1>1. IsFiniteSet(T) /\ Cardinality(T) <= Cardinality(S)
  BY FS_Subset
<1>2. Cardinality(S) \in Nat /\ Cardinality(T) \in Nat
  BY <1>1, FS_CardinalityType
<1> QED
  BY <1>1, <1>2, PoolAssumption

\* ExclusiveInv is kept by a step that takes no lock, starts no coroutine and
\* lets none into the semaphore, and leaves a gather only when its coroutines
\* have ended.
LEMMA ExclusiveKept ==
    ASSUME ExclusiveInv,
           \A j \in Jobs : phase'[j] \in {"release", "list", "gather"} => Running(j),
           \A j \in Jobs, p \in ProxyId :
              /\ op'[<<j, p>>].pc # "idle" =>
                    op[<<j, p>>].pc # "idle" /\ phase'[j] = phase[j]
              /\ op[<<j, p>>].pc = "queued" => op'[<<j, p>>].pc \in {"idle", "queued"}
    PROVE  ExclusiveInv'
<1>1. \A j, k \in Jobs : Running(j)' /\ Running(k)' => j = k
  BY DEF ExclusiveInv, Running
<1>2. \A j \in Jobs, p \in ProxyId : op'[<<j, p>>].pc # "idle" => phase'[j] = "gather"
  BY DEF ExclusiveInv
<1>3. ASSUME NEW j \in Jobs
      PROVE  IsFiniteSet(Inside(j))' /\ (Cardinality(Inside(j)) <= Concurrency)'
  <2>1. Inside(j)' \in SUBSET Inside(j)
    BY DEF Inside, Workers
  <2> QED
    BY <2>1, Shrunk DEF ExclusiveInv
<1> QED
  BY <1>1, <1>2, <1>3 DEF ExclusiveInv

LEMMA ExclusiveStep == TypeOK /\ ~StoreFaults /\ ExclusiveInv /\ [Next]_vars => ExclusiveInv'
<1> SUFFICES ASSUME TypeOK, ~StoreFaults, ExclusiveInv, [Next]_vars PROVE ExclusiveInv'
  OBVIOUS
<1> USE DEF TypeOK
<1>a. \A j \in Jobs, p \in ProxyId : <<j, p>> \in Task
  BY DEF Task
<1>b. \A t \in Jobs \cup Clients \cup Feeds \cup Enrichers :
         t \in Task /\ \A j \in Jobs, p \in ProxyId : t # <<j, p>>
  BY DisjointAssumption DEF Task
<1>1. ASSUME NEW t \in Task, Statement(t)
      PROVE  ExclusiveInv'
  <2>1. op[t].pc \notin {"idle", "queued"} /\ UNCHANGED phase
    BY <1>1 DEF Statement, Select, Delete, CommitDelete, Upsert, CommitUpsert
  <2>2. \A u \in Task : u # t => op'[u] = op[u]
    BY <1>1 DEF Statement, Select, Delete, CommitDelete, Upsert, CommitUpsert
  <2> QED
    BY <2>1, <2>2, <1>a, ExclusiveKept DEF Running
<1>2. ASSUME NEW t \in Task, StatementFails(t)
      PROVE  FALSE
  BY <1>2 DEF StatementFails
<1>3. ASSUME NEW f \in Feeds, FeedStep(f)
      PROVE  ExclusiveInv'
  BY <1>3, <1>a, <1>b, ExclusiveKept DEF FeedStep, FeedStart, FeedNext, Running
<1>4. ASSUME NEW c \in Clients, ClientStep(c)
      PROVE  ExclusiveInv'
  BY <1>4, <1>a, <1>b, ExclusiveKept DEF ClientStep, Report, DeleteProxy, Running
<1>5. ASSUME NEW j \in Jobs, RequestJob(j) \/ AcquireLock(j) \/ JobStep(j)
      PROVE  ExclusiveInv'
  <2>1. CASE RequestJob(j)
    <3>1. \A k \in Jobs : phase'[k] = IF k = j THEN "waiting" ELSE phase[k]
      BY <2>1 DEF RequestJob
    <3>2. \A p \in ProxyId : op[<<j, p>>].pc = "idle"
      BY <2>1 DEF RequestJob, Workers
    <3>3. UNCHANGED op
      BY <2>1 DEF RequestJob
    <3> QED
      BY <3>1, <3>2, <3>3, ExclusiveKept DEF Running
  <2>2. ASSUME NEW listed \in SUBSET ProxyId, StartJob(j, listed)
        PROVE  ExclusiveInv'
    <3>1. \A k \in Jobs : phase'[k] = IF k = j THEN "release" ELSE phase[k]
      BY <2>2 DEF StartJob
    <3>2. phase[j] = "waiting" /\ (\A k \in Jobs : ~Running(k)) /\ UNCHANGED op
      BY <2>2 DEF StartJob
    <3>3. \A k \in Jobs : Inside(k)' = Inside(k)
      BY <3>2 DEF Inside
    <3>4. \A k, l \in Jobs : Running(k)' /\ Running(l)' => k = l
      BY <3>1, <3>2 DEF Running
    <3>5. \A k \in Jobs, p \in ProxyId : op'[<<k, p>>].pc # "idle" => phase'[k] = "gather"
      BY <3>1, <3>2 DEF ExclusiveInv
    <3> QED
      BY <3>3, <3>4, <3>5 DEF ExclusiveInv
  <2>3. ASSUME NEW p \in ProxyId, NEW expired \in BOOLEAN, ReleaseNext(j, p, expired)
        PROVE  ExclusiveInv'
    <3>1. UNCHANGED phase /\ \A k \in Jobs, q \in ProxyId : op'[<<k, q>>] = op[<<k, q>>]
      BY <2>3, <1>a, <1>b DEF ReleaseNext
    <3> QED
      BY <3>1, ExclusiveKept DEF Running
  <2>4. CASE ReleaseDone(j)
    <3>1. \A k \in Jobs : phase'[k] = IF k = j THEN "list" ELSE phase[k]
      BY <2>4 DEF ReleaseDone
    <3>2. phase[j] = "release" /\ UNCHANGED op
      BY <2>4 DEF ReleaseDone
    <3>3. \A p \in ProxyId : op[<<j, p>>].pc = "idle"
      BY <3>2 DEF ExclusiveInv
    <3> QED
      BY <3>1, <3>2, <3>3, ExclusiveKept DEF Running
  <2>5. ASSUME NEW listed \in SUBSET ProxyId, StartWorkers(j, listed)
        PROVE  ExclusiveInv'
    <3>1. \A k \in Jobs : phase'[k] = IF k = j THEN "gather" ELSE phase[k]
      BY <2>5 DEF StartWorkers
    <3>2. phase[j] = "list"
      BY <2>5 DEF StartWorkers
    <3>3. ASSUME NEW k \in Jobs, NEW p \in ProxyId
          PROVE  IF k = j /\ p \in listed THEN op'[<<k, p>>].pc = "queued"
                                          ELSE op'[<<k, p>>] = op[<<k, p>>]
      BY <2>5, <3>3, <1>a DEF StartWorkers
    <3>4. ASSUME NEW k \in Jobs
          PROVE  Inside(k)' \in SUBSET Inside(k)
      BY <3>3 DEF Inside, Workers
    <3>5. \A k, l \in Jobs : Running(k)' /\ Running(l)' => k = l
      BY <3>1, <3>2 DEF Running, ExclusiveInv
    <3>6. \A k \in Jobs, p \in ProxyId : op'[<<k, p>>].pc # "idle" => phase'[k] = "gather"
      BY <3>1, <3>3 DEF ExclusiveInv
    <3> QED
      BY <3>4, <3>5, <3>6, Shrunk DEF ExclusiveInv
  <2>6. CASE FinishJob(j)
    <3>1. \A k \in Jobs : phase'[k] = IF k = j THEN "idle" ELSE phase[k]
      BY <2>6 DEF FinishJob
    <3>2. \A p \in ProxyId : op[<<j, p>>].pc = "idle"
      BY <2>6 DEF FinishJob, Workers
    <3>3. UNCHANGED op
      BY <2>6 DEF FinishJob
    <3> QED
      BY <3>1, <3>2, <3>3, ExclusiveKept DEF Running
  <2> QED
    BY <1>5, <2>1, <2>2, <2>3, <2>4, <2>5, <2>6 DEF AcquireLock, JobStep
<1>6. ASSUME NEW j \in Jobs, NEW p \in ProxyId, WorkerStep(j, p)
      PROVE  ExclusiveInv'
  <2>1. \A u \in Task : u # <<j, p>> => op'[u] = op[u]
    BY <1>6 DEF WorkerStep, EnterSemaphore, Checked
  <2>2. op[<<j, p>>].pc # "idle" /\ UNCHANGED phase
    BY <1>6 DEF WorkerStep, EnterSemaphore, Checked
  <2>3. CASE EnterSemaphore(j, p)
    <3>1. Inside(j)' \in SUBSET (Inside(j) \cup {<<j, p>>})
      BY <2>1, <1>a DEF Inside, Workers
    <3>2. /\ IsFiniteSet(Inside(j) \cup {<<j, p>>})
          /\ Cardinality(Inside(j) \cup {<<j, p>>}) <= Concurrency
      <4>1. IsFiniteSet(Inside(j)) /\ Cardinality(Inside(j)) < Concurrency
        BY <2>3 DEF EnterSemaphore, ExclusiveInv
      <4>2. Cardinality(Inside(j)) \in Nat
        BY <4>1, FS_CardinalityType
      <4> DEFINE n == Cardinality(Inside(j))
      <4>3. /\ IsFiniteSet(Inside(j) \cup {<<j, p>>})
            /\ Cardinality(Inside(j) \cup {<<j, p>>})
                  = IF <<j, p>> \in Inside(j) THEN n ELSE n + 1
        BY <4>1, FS_AddElement
      <4>4. n \in Nat /\ n < Concurrency
        BY <4>1, <4>2
      <4> HIDE DEF n
      <4> QED
        BY <4>3, <4>4, PoolAssumption
    <3>3. \A k \in Jobs : k # j => Inside(k)' \in SUBSET Inside(k)
      BY <2>1, <1>a DEF Inside, Workers
    <3>4. \A k \in Jobs : IsFiniteSet(Inside(k))' /\ (Cardinality(Inside(k)) <= Concurrency)'
      <4>1. ASSUME NEW k \in Jobs, k # j
            PROVE  IsFiniteSet(Inside(k))' /\ (Cardinality(Inside(k)) <= Concurrency)'
        BY <3>3, <4>1, Shrunk DEF ExclusiveInv
      <4>2. IsFiniteSet(Inside(j))' /\ (Cardinality(Inside(j)) <= Concurrency)'
        BY <3>1, <3>2, Shrunk
      <4> QED
        BY <4>1, <4>2
    <3>5. \A k \in Jobs, q \in ProxyId : op'[<<k, q>>].pc # "idle" => phase'[k] = "gather"
      BY <2>1, <2>2, <1>a DEF ExclusiveInv
    <3> QED
      BY <2>2, <3>4, <3>5 DEF ExclusiveInv, Running
  <2>4. CASE \E outcome \in Outcomes : Checked(j, p, outcome)
    <3>1. op[<<j, p>>].pc = "checking"
      BY <2>4 DEF Checked
    <3> QED
      BY <3>1, <2>1, <2>2, <1>a, ExclusiveKept DEF Running
  <2> QED
    BY <1>6, <2>3, <2>4 DEF WorkerStep
<1>7. ASSUME NEW g \in Enrichers, EnrichStep(g)
      PROVE  ExclusiveInv'
  <2>1. ASSUME NEW located \in SUBSET ProxyId, StartEnrich(g, located)
        PROVE  ExclusiveInv'
    <3>1. UNCHANGED op /\ \A j \in Jobs : phase'[j] = phase[j]
      BY <2>1, DisjointAssumption DEF StartEnrich
    <3> QED
      BY <3>1, ExclusiveKept DEF Running
  <2>2. ASSUME NEW p \in ProxyId, EnrichNext(g, p)
        PROVE  ExclusiveInv'
    <3>1. UNCHANGED phase /\ \A j \in Jobs, q \in ProxyId : op'[<<j, q>>] = op[<<j, q>>]
      BY <2>2, <1>a, <1>b DEF EnrichNext
    <3> QED
      BY <3>1, ExclusiveKept DEF Running
  <2> QED
    BY <1>7, <2>1, <2>2 DEF EnrichStep
<1>8. CASE Crash
  <2>1. /\ \A j \in Jobs : phase'[j] = "idle"
        /\ \A j \in Jobs, p \in ProxyId : op'[<<j, p>>].pc = "idle"
    BY <1>8, <1>a DEF Crash, Idle
  <2> QED
    BY <2>1, ExclusiveKept
<1>9. CASE UNCHANGED vars
  BY <1>9, ExclusiveKept DEF vars, Running
<1>10. ASSUME NEW t \in Jobs \cup Enrichers, ReadFails(t)
       PROVE  FALSE
  BY <1>10 DEF ReadFails
<1> QED
  BY <1>1, <1>2, <1>3, <1>4, <1>5, <1>6, <1>7, <1>8, <1>9, <1>10 DEF Next

\* Without store faults at most one validation job runs, however many are
\* requested, and no more of its coroutines are at a validator or at the store
\* than the semaphore admits; so no proxy is validated twice at the same time,
\* and validate_concurrency bounds the whole process (_validate_lock in
\* scheduler.py and ValidateService._semaphore).
THEOREM ValidationExclusive == Spec => []ValidationsExclusive
<1>1. Init => ExclusiveInv
  <2> SUFFICES ASSUME Init PROVE ExclusiveInv
    OBVIOUS
  <2>1. /\ \A j \in Jobs : phase[j] = "idle"
        /\ \A j \in Jobs, p \in ProxyId : op[<<j, p>>].pc = "idle"
    BY DEF Init, Task, Idle
  <2>2. \A j \in Jobs : Inside(j) = {}
    BY <2>1 DEF Inside, Workers
  <2>3. IsFiniteSet({}) /\ Cardinality({}) <= Concurrency
    BY FS_EmptySet, PoolAssumption
  <2> QED
    BY <2>1, <2>2, <2>3 DEF ExclusiveInv, Running
<1>2. ExclusiveInv => ValidationsExclusive
  <2> SUFFICES ASSUME ExclusiveInv
               PROVE  /\ \A p \in ProxyId : \A j, k \in Jobs :
                            op[<<j, p>>].pc # "idle" /\ op[<<k, p>>].pc # "idle" => j = k
                      /\ Cardinality(UNION {Inside(j) : j \in Jobs}) <= Concurrency
    BY DEF ValidationsExclusive
  <2>1. \A p \in ProxyId : \A j, k \in Jobs :
           op[<<j, p>>].pc # "idle" /\ op[<<k, p>>].pc # "idle" => j = k
    BY DEF ExclusiveInv, Running
  <2>2. Cardinality(UNION {Inside(j) : j \in Jobs}) <= Concurrency
    <3>1. CASE \E j \in Jobs : phase[j] = "gather"
      <4>1. PICK j \in Jobs : phase[j] = "gather"
        BY <3>1
      <4>2. \A k \in Jobs : k # j => Inside(k) = {}
        BY <4>1 DEF ExclusiveInv, Running, Inside, Workers
      <4>3. UNION {Inside(k) : k \in Jobs} \in SUBSET Inside(j)
        BY <4>2
      <4> QED
        BY <4>3, Shrunk DEF ExclusiveInv
    <3>2. CASE ~\E j \in Jobs : phase[j] = "gather"
      <4>1. \A j \in Jobs : Inside(j) = {}
        BY <3>2 DEF ExclusiveInv, Inside, Workers
      <4>2. UNION {Inside(j) : j \in Jobs} = {}
        BY <4>1
      <4> QED
        BY <4>2, FS_EmptySet, PoolAssumption
    <3> QED
      BY <3>1, <3>2
  <2> QED
    BY <2>1, <2>2
<1>3. CASE StoreFaults
  <2>1. ValidationsExclusive /\ ValidationsExclusive'
    BY <1>3 DEF ValidationsExclusive
  <2> QED
    BY <2>1, PTL DEF Spec
<1>4. CASE ~StoreFaults
  <2>1. TypeOK /\ ExclusiveInv /\ [Next]_vars => ExclusiveInv'
    BY <1>4, ExclusiveStep
  <2> QED
    BY <1>1, <1>2, <2>1, TypeCorrect, PTL DEF Spec
<1> QED
  BY <1>3, <1>4
=============================================================================
