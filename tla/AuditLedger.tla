----------------------------- MODULE AuditLedger -----------------------------
(* The audit ledger of one organisation: an append-only table whose rows are *)
(* chained by hashes (Servers/utils/auditLedger.utils.ts), the daily job that*)
(* prunes its oldest rows behind a checkpoint (auditLedgerRetention.utils.ts *)
(* and automations/actions/dataRetentionPrune.ts), the verification that     *)
(* walks the chain, and the database triggers that guard the table.          *)
(*                                                                           *)
(* Writers are the transactions that change an entity and the runs of the    *)
(* pruning job: both append a row once their own work is committed.  Appends *)
(* and prunes take the organisation's advisory lock, each statement of theirs*)
(* sees what is committed when it starts, and what they write is seen by     *)
(* nobody before they commit.  A verification takes no lock: it reads one    *)
(* snapshot.                                                                 *)
EXTENDS Integers, FiniteSets

CONSTANTS Change,      \* transactions that change an entity
          Pruner,      \* runs of the daily retention job
          Nobody,      \* no holder of the advisory lock
          User,        \* the accounts that make changes
          System,      \* the user of rows written by jobs, and NULL
          Author,      \* the user of each change
          Leaving,     \* the accounts that may be deleted
          Shortest,    \* 12 months, the shortest period the trigger accepts
          Periods,     \* the retention periods an admin may choose
          BatchSize,   \* RETENTION_BATCH_SIZE
          MaxBatches,  \* RETENTION_MAX_BATCHES
          PageSize,    \* batchSize of verifyChain
          MaxEntries,  \* maxEntries of verifyChain
          MaxClock     \* bound: the time at which the model stops

Writer == Change \cup Pruner

ASSUME LedgerAssumption ==
    /\ Change \cap Pruner = {}
    /\ Nobody \notin Writer
    /\ System \notin User
    /\ Author \in [Change -> User \cup {System}]
    /\ Leaving \subseteq User
    /\ Shortest \in Nat
    /\ Periods \subseteq Nat
    /\ \A m \in Periods : m >= Shortest
    /\ BatchSize \in Nat \ {0}
    /\ MaxBatches \in Nat
    /\ PageSize \in Nat \ {0}
    /\ MaxEntries \in Nat
    /\ MaxClock \in Nat

VARIABLES ledger,       \* audit_ledger: the committed rows by id
          checkpoints,  \* audit_ledger_retention_checkpoints
          nextId,       \* the sequence of audit_ledger.id
          lock,         \* who holds the organisation's advisory lock
          accounts,     \* the accounts that exist
          undone,       \* the changes that were rolled back
          clock,        \* now()
          work,         \* what each writer does
          prune,        \* what each run of the retention job knows
          check         \* the verification under way

tables == <<ledger, checkpoints, nextId, lock>>
vars == <<ledger, checkpoints, nextId, lock, accounts, undone, clock, work, prune, check>>

-----------------------------------------------------------------------------
(* Rows and hashes                                                           *)

Genesis == <<>>

\* computeEntryHash, injective: the digest is the canonical payload itself.
EntryHash(i, user, at, what, prev) == <<i, user, at, what, prev>>

Ids == DOMAIN ledger

\* i follows j in the chain.
Follows(i, j, ids) == j < i /\ \A k \in ids : ~(j < k /\ k < i)

IsFirst(i, ids) == \A k \in ids : i <= k

IsLast(i, ids) == \A k \in ids : k <= i

\* getLatestLedgerCheckpoint: the one that reaches furthest.
Latest(cs) == CHOOSE c \in cs : \A d \in cs : d.through <= c.through

Anchor(cs) == IF cs = {} THEN Genesis ELSE Latest(cs).anchor

PrunedThrough(cs) == IF cs = {} THEN 0 ELSE Latest(cs).through

\* prev_hash of the next row: the entry_hash of the newest row, or GENESIS_HASH.
LastHash ==
    IF Ids = {} THEN Genesis ELSE ledger[CHOOSE i \in Ids : IsLast(i, Ids)].hash

By(w) == IF w \in Change THEN Author[w] ELSE System

-----------------------------------------------------------------------------
(* Values                                                                    *)

Phases == {"open",                                      \* a change
           "idle", "draining", "choosing", "bounded",   \* a run of the job
           "due", "waiting", "locked", "read", "inserted", "done"}  \* an append

\* The phases that hold the advisory lock.
Holding == {"choosing", "bounded", "locked", "read", "inserted"}

Verdicts == {"none", "intact", "compromised", "empty", "partial"}

\* at, prev, id: of the row an append is writing.
NoRow(phase) == [phase |-> phase, at |-> 0, prev |-> Genesis, id |-> 0]

NotBegun == [phase |-> "idle", rows |-> [i \in {} |-> NoRow("done")], prev |-> Genesis,
             after |-> 0, total |-> 0, verdict |-> "none"]

\* Digests (prev, hash, anchor) are whatever EntryHash makes of a row.
TypeOK ==
    /\ Ids \subseteq 1 .. (nextId - 1)
    /\ \A i \in Ids : /\ ledger[i].user \in User \cup {System}
                      /\ ledger[i].at \in 0 .. clock
                      /\ ledger[i].what \in Writer
    /\ \A c \in checkpoints : c.through \in 1 .. (nextId - 1) /\ c.cutoff \in Int
    /\ nextId \in Nat \ {0}
    /\ lock \in Writer \cup {Nobody}
    /\ accounts \subseteq User
    /\ undone \subseteq Change
    /\ clock \in 0 .. MaxClock
    /\ DOMAIN work = Writer
    /\ \A w \in Writer : /\ work[w].phase \in Phases
                         /\ work[w].at \in 0 .. clock
                         /\ work[w].id \in 0 .. (nextId - 1)
                         /\ work[w].phase = "inserted" => work[w].id > 0
    /\ prune \in [Pruner -> [cutoff : Int, bound : Nat, batches : Nat, deleted : Nat]]
    /\ check.phase \in {"idle", "walking", "done"}
    /\ DOMAIN check.rows \subseteq 1 .. (nextId - 1)
    /\ check.after \in Nat /\ check.total \in Nat
    /\ check.verdict \in Verdicts

Init ==
    /\ ledger = [i \in {} |-> NoRow("done")]
    /\ checkpoints = {}
    /\ nextId = 1
    /\ lock = Nobody
    /\ accounts = User
    /\ undone = {}
    /\ clock = 0
    /\ work = [w \in Writer |-> NoRow(IF w \in Change THEN "open" ELSE "idle")]
    /\ prune = [p \in Pruner |-> [cutoff |-> 0, bound |-> 0, batches |-> 0, deleted |-> 0]]
    /\ check = NotBegun
-----------------------------------------------------------------------------
(* A change, and the append that follows its commit                          *)

\* Only these change a writer's place; the lock is given back by Release.
Goes(w, phase) == work' = [work EXCEPT ![w] = NoRow(phase)]

Release(w) == lock' = IF lock = w THEN Nobody ELSE lock

\* recordEntityChange: the append waits for the commit of the transaction ...
Commit(c) ==
    /\ work[c].phase = "open"
    /\ Goes(c, "due")
    /\ UNCHANGED <<tables, accounts, undone, clock, prune, check>>

\* ... and is not made when it rolls back.
\* (AppendsAnyway is a mutant: the append waits for the end of the transaction.)
AppendsAnyway == "due"

AfterRollBack == "done"

RollBack(c) ==
    /\ work[c].phase = "open"
    /\ undone' = undone \cup {c}
    /\ Goes(c, AfterRollBack)
    /\ UNCHANGED <<tables, accounts, clock, prune, check>>

\* appendToAuditLedger opens its own transaction, and NOW() is the time it did.
BeginAppend(w) ==
    /\ work[w].phase = "due"
    /\ work' = [work EXCEPT ![w] = [NoRow("waiting") EXCEPT !.at = clock]]
    /\ UNCHANGED <<tables, accounts, undone, clock, prune, check>>

\* The ledger is switched off for the organisation, or the process dies
\* between the commit and the callback.
NoAppend(w) ==
    /\ work[w].phase = "due"
    /\ Goes(w, "done")
    /\ UNCHANGED <<tables, accounts, undone, clock, prune, check>>

\* (LockIsShared is a mutant: pg_advisory_xact_lock_shared.)
LockIsShared(w) == TRUE

\* pg_advisory_xact_lock.
LockIsFree(w) == lock = Nobody

TakeLock(w) ==
    /\ work[w].phase = "waiting"
    /\ LockIsFree(w)
    /\ lock' = w
    /\ work' = [work EXCEPT ![w] = [NoRow("locked") EXCEPT !.at = work[w].at]]
    /\ UNCHANGED <<ledger, checkpoints, nextId, accounts, undone, clock, prune, check>>

ReadLast(w) ==
    /\ work[w].phase = "locked"
    /\ work' = [work EXCEPT ![w] = [phase |-> "read", at |-> work[w].at,
                                    prev |-> LastHash, id |-> 0]]
    /\ UNCHANGED <<tables, accounts, undone, clock, prune, check>>

\* nextval of the id's sequence.
AfterNext == nextId + 1

\* The row is inserted with the sentinel hash: it has its id, and the foreign
\* key holds its user until the transaction ends.  Ids are not given back.
Insert(w) ==
    /\ work[w].phase = "read"
    /\ By(w) \in accounts \cup {System}
    /\ work' = [work EXCEPT ![w] = [phase |-> "inserted", at |-> work[w].at,
                                    prev |-> work[w].prev, id |-> nextId]]
    /\ nextId' = AfterNext
    /\ UNCHANGED <<ledger, checkpoints, lock, accounts, undone, clock, prune, check>>

RowOf(w) ==
    [user |-> By(w), at |-> work[w].at, what |-> w, prev |-> work[w].prev,
     hash |-> EntryHash(work[w].id, By(w), work[w].at, w, work[w].prev)]

\* The sentinel becomes the hash over the assigned id, and the row is committed.
CommitAppend(w) ==
    /\ work[w].phase = "inserted"
    /\ ledger' = [i \in Ids \cup {work[w].id} |->
                    IF i = work[w].id THEN RowOf(w) ELSE ledger[i]]
    /\ Release(w)
    /\ Goes(w, "done")
    /\ UNCHANGED <<checkpoints, nextId, accounts, undone, clock, prune, check>>

\* A statement fails or the process dies: the transaction is rolled back, the
\* error is logged by the caller and nothing is tried again.
AppendFails(w) ==
    /\ work[w].phase \in {"waiting", "locked", "read", "inserted"}
    /\ Release(w)
    /\ Goes(w, "done")
    /\ UNCHANGED <<ledger, checkpoints, nextId, accounts, undone, clock, prune, check>>

-----------------------------------------------------------------------------
(* The daily retention job                                                   *)

\* runDataRetentionPrune reads the period and computes the cutoff once.
StartPrune(p) ==
    /\ work[p].phase = "idle"
    /\ \E m \in Periods :
         prune' = [prune EXCEPT ![p] = [cutoff |-> clock - m, bound |-> 0,
                                        batches |-> 0, deleted |-> 0]]
    /\ Goes(p, "draining")
    /\ UNCHANGED <<tables, accounts, undone, clock, check>>

\* The run leaves the ledger for the other audit tables, and appends a row
\* about itself when it removed anything, of the ledger or of those tables.
Leaves(p, deleted) ==
    \E phase \in IF deleted > 0 THEN {"due"} ELSE {"due", "done"} : Goes(p, phase)

PruneLock(p) ==
    /\ work[p].phase = "draining"
    /\ prune[p].batches < MaxBatches
    /\ LockIsFree(p)
    /\ lock' = p
    /\ Goes(p, "choosing")
    /\ UNCHANGED <<ledger, checkpoints, nextId, accounts, undone, clock, prune, check>>

\* RETENTION_MAX_BATCHES: the rest is left to the next day.
PruneCapped(p) ==
    /\ work[p].phase = "draining"
    /\ prune[p].batches = MaxBatches
    /\ Leaves(p, prune[p].deleted)
    /\ UNCHANGED <<tables, accounts, undone, clock, prune, check>>

Retained(cutoff) == {i \in Ids : ledger[i].at >= cutoff}

\* (BoundByTime is a mutant: the bound is behind the newest row that is old.)
BoundByTime(cutoff) ==
    IF Retained(cutoff) # Ids
    THEN 1 + CHOOSE i \in Ids \ Retained(cutoff) : IsLast(i, Ids \ Retained(cutoff))
    ELSE CHOOSE i \in Ids : IsFirst(i, Ids)

\* (BoundPastNewest is a mutant: with every row old, all of them go.)
BoundPastNewest(cutoff) ==
    IF Retained(cutoff) # {}
    THEN CHOOSE i \in Retained(cutoff) : IsFirst(i, Retained(cutoff))
    ELSE 1 + CHOOSE i \in Ids : IsLast(i, Ids)

\* The first id inside the retention period; with none, the newest id.
Bound(cutoff) ==
    IF Retained(cutoff) # {}
    THEN CHOOSE i \in Retained(cutoff) : IsFirst(i, Retained(cutoff))
    ELSE CHOOSE i \in Ids : IsLast(i, Ids)

PruneBound(p) ==
    /\ work[p].phase = "choosing"
    /\ \/ /\ Ids # {}
          /\ prune' = [prune EXCEPT ![p] = [cutoff |-> prune[p].cutoff,
                                            bound |-> Bound(prune[p].cutoff),
                                            batches |-> prune[p].batches,
                                            deleted |-> prune[p].deleted]]
          /\ Goes(p, "bounded")
          /\ UNCHANGED lock
       \/ /\ Ids = {}
          /\ Release(p)
          /\ Leaves(p, prune[p].deleted)
          /\ UNCHANGED prune
    /\ UNCHANGED <<ledger, checkpoints, nextId, accounts, undone, clock, check>>

\* The ids of one batch: the BatchSize oldest below the bound.
Batch(bound) ==
    {i \in Ids : i < bound /\ Cardinality({k \in Ids : k <= i}) <= BatchSize}

\* The delete trigger's condition for the rows the checkpoint covers.
TriggerAccepts(through, cutoff) ==
    /\ \A i \in Ids : i <= through => ledger[i].at < cutoff
    /\ cutoff <= clock - Shortest

Kept(through) == {i \in Ids : i > through}

\* The checkpoint and the deletion, in one transaction.
PruneBatch(p) ==
    /\ work[p].phase = "bounded"
    /\ \E last \in Batch(prune[p].bound) :
         /\ IsLast(last, Batch(prune[p].bound))
         /\ TriggerAccepts(last, prune[p].cutoff)
         /\ checkpoints' = checkpoints \cup {[through |-> last,
                                              anchor |-> ledger[last].hash,
                                              cutoff |-> prune[p].cutoff]}
         /\ ledger' = [i \in Kept(last) |-> ledger[i]]
         /\ LET n == Cardinality(Ids \ Kept(last))
            IN  /\ prune' = [prune EXCEPT ![p] = [cutoff |-> prune[p].cutoff, bound |-> 0,
                                                  batches |-> prune[p].batches + 1,
                                                  deleted |-> prune[p].deleted + n]]
                /\ IF n < BatchSize THEN Leaves(p, prune[p].deleted + n)
                                    ELSE Goes(p, "draining")
    /\ Release(p)
    /\ UNCHANGED <<nextId, accounts, undone, clock, check>>

\* Nothing is left below the bound.
PruneNothing(p) ==
    /\ work[p].phase = "bounded"
    /\ Batch(prune[p].bound) = {}
    /\ Release(p)
    /\ Leaves(p, prune[p].deleted)
    /\ UNCHANGED <<ledger, checkpoints, nextId, accounts, undone, clock, prune, check>>

\* A statement fails, the run goes on with the other tables; or the process dies.
PruneFails(p) ==
    /\ work[p].phase \in {"draining", "choosing", "bounded"}
    /\ Release(p)
    /\ Leaves(p, prune[p].deleted) \/ Goes(p, "done")
    /\ UNCHANGED <<ledger, checkpoints, nextId, accounts, undone, clock, prune, check>>

-----------------------------------------------------------------------------
(* Verification                                                              *)

\* (SeenLive is a mutant: the pages are read at READ COMMITTED.)
SeenLive == ledger

\* The snapshot of the REPEATABLE READ transaction.
Seen == check.rows

\* verifyChain takes its snapshot: a row at or below the latest checkpoint is
\* a forged checkpoint; otherwise the walk starts behind it.
StartCheck ==
    /\ check.phase = "idle"
    /\ LET through == PrunedThrough(checkpoints)
           forged == \E i \in Ids : i <= through
       IN  check' = [phase |-> IF forged THEN "done" ELSE "walking",
                     rows |-> ledger, prev |-> Anchor(checkpoints), after |-> through,
                     total |-> 0, verdict |-> IF forged THEN "compromised" ELSE "none"]
    /\ UNCHANGED <<tables, accounts, undone, clock, work, prune>>

\* (PageByRange is a mutant: the pages are ranges of ids.)
PageByRange(rows, after) == {i \in DOMAIN rows : i > after /\ i <= after + PageSize}

\* The next PageSize rows by id.
Page(rows, after) ==
    {i \in DOMAIN rows :
       i > after /\ Cardinality({k \in DOMAIN rows : after < k /\ k <= i}) <= PageSize}

\* A row does not link to the one before it, or is not what its hash was made of.
Broken(rows, page, prev) ==
    \E i \in page :
      \/ IsFirst(i, page) /\ rows[i].prev # prev
      \/ \E j \in page : Follows(i, j, page) /\ rows[i].prev # rows[j].hash
      \/ rows[i].hash # EntryHash(i, rows[i].user, rows[i].at, rows[i].what, rows[i].prev)

Concludes(verdict, total) ==
    check' = [NotBegun EXCEPT !.phase = "done", !.verdict = verdict, !.total = total,
                              !.rows = check.rows]

CheckPage ==
    /\ check.phase = "walking"
    /\ LET rows == Seen
           page == Page(rows, check.after)
           total == check.total + Cardinality(page)
       IN  \/ /\ page = {}
              /\ Concludes(IF check.total = 0 THEN "empty" ELSE "intact", check.total)
           \/ /\ page # {}
              /\ Broken(rows, page, check.prev)
              /\ Concludes("compromised", total)
           \/ /\ page # {}
              /\ ~Broken(rows, page, check.prev)
              /\ total >= MaxEntries
              /\ Concludes("partial", total)
           \/ /\ page # {}
              /\ ~Broken(rows, page, check.prev)
              /\ total < MaxEntries
              /\ \E last \in page :
                   /\ IsLast(last, page)
                   /\ check' = [phase |-> "walking", rows |-> check.rows,
                                prev |-> rows[last].hash, after |-> last,
                                total |-> total, verdict |-> "none"]
    /\ UNCHANGED <<tables, accounts, undone, clock, work, prune>>

-----------------------------------------------------------------------------
(* Accounts and time                                                         *)

\* An account is deleted: audit_ledger.user_id is ON DELETE SET NULL, and the
\* update trigger lets it be.  A row not yet committed holds its user.
DeleteAccount(u) ==
    /\ u \in Leaving \cap accounts
    /\ \A w \in Writer : work[w].phase = "inserted" => By(w) # u
    /\ accounts' = accounts \ {u}
    /\ ledger' = [i \in Ids |->
                    IF ledger[i].user = u
                    THEN [user |-> System, at |-> ledger[i].at, what |-> ledger[i].what,
                          prev |-> ledger[i].prev, hash |-> ledger[i].hash]
                    ELSE ledger[i]]
    /\ UNCHANGED <<checkpoints, nextId, lock, undone, clock, work, prune, check>>

Tick ==
    /\ clock < MaxClock
    /\ clock' = clock + 1
    /\ UNCHANGED <<tables, accounts, undone, work, prune, check>>

Appends(w) ==
    \/ BeginAppend(w) \/ NoAppend(w) \/ TakeLock(w) \/ ReadLast(w)
    \/ Insert(w) \/ CommitAppend(w) \/ AppendFails(w)

Prunes(p) ==
    \/ StartPrune(p) \/ PruneLock(p) \/ PruneCapped(p) \/ PruneBound(p)
    \/ PruneBatch(p) \/ PruneNothing(p) \/ PruneFails(p)

Next ==
    \/ \E c \in Change : Commit(c) \/ RollBack(c)
    \/ \E w \in Writer : Appends(w)
    \/ \E p \in Pruner : Prunes(p)
    \/ StartCheck \/ CheckPage
    \/ \E u \in User : DeleteAccount(u)
    \/ Tick

Spec == Init /\ [][Next]_vars

-----------------------------------------------------------------------------
(* Properties                                                                *)

\* A verification calls a ledger compromised that nobody tampered with only
\* when its snapshot has a row whose user's account is gone: not when appends
\* wait for each other and fail half way, not when a prune commits while the
\* walk is between two pages, and not behind a checkpoint.
CompromisedByDeletionOnly ==
    check.verdict = "compromised" =>
      \E i \in DOMAIN check.rows : By(check.rows[i].what) \notin accounts \cup {System}

\* The Audit ledger page reports "Tampering detected" for a compromised ledger:
\* a verification of a ledger nobody tampered with never ends so.
NeverCompromised == check.verdict # "compromised"

\* Every row links to the row before it, the oldest one to the anchor of the
\* latest checkpoint (or to the genesis hash): the chain never forks, whatever
\* appends and prunes run at once.
Chained ==
    \A i \in Ids :
      /\ IsFirst(i, Ids) => ledger[i].prev = Anchor(checkpoints)
      /\ \A j \in Ids : Follows(i, j, Ids) => ledger[i].prev = ledger[j].hash

\* "intact" is only said of a snapshot every row of which was walked, though
\* ids have gaps where appends failed.
IntactIsComplete ==
    check.verdict = "intact" => check.total = Cardinality(DOMAIN check.rows)

\* A row stands for a change that was committed, and a change has one row at
\* most: an append-only entry for a change rolled back could never be removed.
OnlyCommitted ==
    \A i \in Ids :
      /\ ledger[i].what \notin undone
      /\ \A j \in Ids : ledger[j].what = ledger[i].what => i = j

\* The delete trigger never refuses a batch of the job, though appends that
\* waited for the lock leave timestamps out of the order of the ids: every row
\* below the bound is older than the cutoff.
TriggerNeverRefuses ==
    \A p \in Pruner :
      work[p].phase = "bounded" =>
        \A last \in Batch(prune[p].bound) : TriggerAccepts(last, prune[p].cutoff)

\* What a step removes is older than the shortest retention period, is all of
\* the oldest rows up to a checkpoint written in the same step that anchors the
\* rest, and never includes the newest row, to which the next append links.
RetentionHonoured ==
    [][\A i \in Ids \ DOMAIN ledger' :
         /\ ledger[i].at < clock - Shortest
         /\ ~IsLast(i, Ids)
         /\ \E c \in checkpoints' \ checkpoints :
              /\ Ids \ DOMAIN ledger' = {k \in Ids : k <= c.through}
              /\ c.through \in Ids
              /\ c.anchor = ledger[c.through].hash]_vars

-----------------------------------------------------------------------------
(* The log that readers see                                                  *)

\* What a reader is told of a row: not its user, who may leave, and no hash.
Told == [i \in Ids |-> [what |-> ledger[i].what, at |-> ledger[i].at]]

Log == INSTANCE AppendOnlyLog WITH
         log <- Told, spent <- {w \in Writer : work[w].phase = "done"}, now <- clock,
         Entry <- Writer

\* To its readers the ledger is an append-only log that is pruned at its old
\* end: whatever appends, prunes, failures and deleted accounts interleave, a
\* step adds one row of one writer behind all the others, removes rows old
\* enough from the front, or leaves every row as it is.
ImplementsLog == Log!Spec

=============================================================================
