------------------------------- MODULE Cleanup -------------------------------
(***************************************************************************)
(* The data cleanup runner (dataCleanupService.ts, scripts/                  *)
(* cleanupPostgresData.ts, postgres/dataCleanupRepository.ts) beside the     *)
(* users of the rows it deletes: sessions and tokens that end, email changes *)
(* that are replaced, notifications that are read, and carts, whose items    *)
(* are set by four statements without a transaction                          *)
(* (PostgresCartRepository.setItem).                                         *)
(*                                                                         *)
(* A delete selects its candidates FOR UPDATE SKIP LOCKED and rechecks the   *)
(* predicate, so a batch is one action over the rows nobody has locked.      *)
(***************************************************************************)
EXTENDS Integers, FiniteSets, Sequences

CONSTANTS
    Row,        \* rows
    TableOf,    \* the table of each row
    Retention,  \* how long each target keeps a row after its timestamp
    Ttl,        \* life of sessions, tokens and email changes
    BatchSize, MaxBatches,
    MaxNow,     \* bound on the clock
    None

cleanupTargets ==
    <<"sessions", "accountTokens", "pendingEmailChanges",
      "readNotifications", "unreadNotifications", "carts">>

Target == {cleanupTargets[i] : i \in DOMAIN cleanupTargets}
Table == {"sessions", "accountTokens", "pendingEmailChanges", "notifications",
          "carts"}

ASSUME CleanupAssumption ==
    /\ IsFiniteSet(Row)
    /\ None \notin Nat
    /\ \A r \in Row : TableOf[r] \in Table
    /\ Retention \in [Target -> Nat \ {0}]
    /\ {Ttl, BatchSize, MaxBatches} \subseteq Nat \ {0}
    /\ MaxNow \in Nat

VARIABLES
    now,
    rows,     \* rows[r]: the row r of its table, or NoRow
    setting,  \* setting[r]: the setItem in progress on the cart r
    locked,   \* rows held by a transaction of a user
    run       \* the cleanup process

cleanupVars == <<now, rows, setting, locked, run>>

\* at: the timestamp that decides, which is updated_at of notifications and
\* carts and the first terminal timestamp of the others; isRead of
\* notifications.
NoRow == [at |-> None, isRead |-> FALSE]
Time == 0 .. MaxNow + Ttl
RowRecord == {NoRow} \cup [at: Time, isRead: BOOLEAN]
RowAt(time) == [at |-> time, isRead |-> FALSE]

Exists(r) == rows[r] # NoRow

\* target: index of the current target; skipped: eligible rows that were locked
\* when its last batch was taken.
Run == [pc: {"idle", "running", "reported"}, now: 0 .. MaxNow, dryRun: BOOLEAN,
        target: 1 .. Len(cleanupTargets) + 1, batches: 0 .. MaxBatches,
        rows: 0 .. BatchSize * MaxBatches, limitReached: BOOLEAN,
        skipped: SUBSET Row]
NewTarget(dryRun, target) ==
    [pc |-> "running", now |-> now, dryRun |-> dryRun, target |-> target,
     batches |-> 0, rows |-> 0, limitReached |-> FALSE, skipped |-> {}]
NoRun == [NewTarget(FALSE, 1) EXCEPT !.pc = "idle", !.now = 0]

NoSetting == [pc |-> "no", since |-> 0]

CleanupInit ==
    /\ now = 0
    /\ rows = [r \in Row |-> NoRow]
    /\ setting = [r \in Row |-> NoSetting]
    /\ locked = {}
    /\ run = NoRun

Tick ==
    /\ now < MaxNow
    /\ now' = now + 1
    /\ UNCHANGED <<rows, setting, locked, run>>

-----------------------------------------------------------------------------
(* Users *)

Change(r, row) ==
    /\ r \notin locked
    /\ rows' = [rows EXCEPT ![r] = row]
    /\ UNCHANGED <<now, setting, locked, run>>

\* A session, token, email change or notification is created. An email change
\* replaces the row of the earlier one.
create(r) ==
    /\ TableOf[r] # "carts"
    /\ Exists(r) => TableOf[r] = "pendingEmailChanges"
    /\ Change(r, RowAt(IF TableOf[r] = "notifications" THEN now ELSE now + Ttl))

\* A session is revoked, a token consumed or invalidated, before it expires.
terminate(r) ==
    /\ TableOf[r] \in {"sessions", "accountTokens"}
    /\ Exists(r)
    /\ rows[r].at > now
    /\ Change(r, RowAt(now))

updateRead(r, isRead) ==
    /\ TableOf[r] = "notifications"
    /\ Exists(r)
    /\ Change(r, [rows[r] EXCEPT !.isRead = isRead, !.at = now])

\* A transaction of a user takes the row, as checkout takes the cart and a
\* refresh the session, and ends.
LockRow(r) ==
    /\ TableOf[r] # "notifications"
    /\ Exists(r)
    /\ r \notin locked
    /\ locked' = locked \cup {r}
    /\ UNCHANGED <<now, rows, setting, run>>

UnlockRow(r) ==
    /\ r \in locked
    /\ locked' = locked \ {r}
    /\ UNCHANGED <<now, rows, setting, run>>

\* setItem takes the time and inserts the cart unless there is one.
insertCart(r) ==
    /\ TableOf[r] = "carts"
    /\ setting[r].pc = "no"
    /\ rows' = [rows EXCEPT ![r] = IF Exists(r) THEN @ ELSE RowAt(now)]
    /\ setting' = [setting EXCEPT ![r] = [pc |-> "item", since |-> now]]
    /\ UNCHANGED <<now, locked, run>>

\* The item refers to the cart: the insert waits for who holds the cart, and
\* fails if it is gone.
insertCartItem(r) ==
    /\ setting[r].pc = "item"
    /\ r \notin locked
    /\ \/ /\ Exists(r)
          /\ setting' = [setting EXCEPT ![r].pc = "touch"]
       \/ /\ ~Exists(r)
          /\ setting' = [setting EXCEPT ![r] = NoSetting]
    /\ UNCHANGED <<now, rows, locked, run>>

touchCart(r) ==
    /\ setting[r].pc = "touch"
    /\ r \notin locked
    /\ rows' = [rows EXCEPT ![r] =
                  IF Exists(r) THEN [@ EXCEPT !.at = setting[r].since] ELSE @]
    /\ setting' = [setting EXCEPT ![r] = NoSetting]
    /\ UNCHANGED <<now, locked, run>>

-----------------------------------------------------------------------------
(* The runner *)

\* One captured time for the whole run.
runDataCleanup(dryRun) ==
    /\ run.pc = "idle"
    /\ run' = NewTarget(dryRun, 1)
    /\ UNCHANGED <<now, rows, setting, locked>>

InTarget(r, target) ==
    CASE target = "readNotifications" ->
            TableOf[r] = "notifications" /\ rows[r].isRead
      [] target = "unreadNotifications" ->
            TableOf[r] = "notifications" /\ ~rows[r].isRead
      [] OTHER -> TableOf[r] = target

\* Mutant: unread notifications get the cutoff of read ones.
cutoffFor_Read(target) ==
    run.now - Retention[IF target = "unreadNotifications"
                        THEN "readNotifications" ELSE target]

cutoffFor(target) == run.now - Retention[target]

Eligible ==
    LET target == cleanupTargets[run.target]
    IN  {r \in Row : /\ Exists(r)
                     /\ InTarget(r, target)
                     /\ rows[r].at <= cutoffFor(target)}

\* previewEligible reads one row more than a batch.
previewEligible ==
    /\ run.pc = "running"
    /\ run.dryRun
    /\ run.target <= Len(cleanupTargets)
    /\ run' = [run EXCEPT
          !.pc = "reported",
          !.rows = IF Cardinality(Eligible) > BatchSize THEN BatchSize
                   ELSE Cardinality(Eligible),
          !.limitReached = Cardinality(Eligible) > BatchSize]
    /\ UNCHANGED <<now, rows, setting, locked>>

\* Mutant: a full batch ends the target too.
LoopEnds_FullBatch(size, batches) == size <= BatchSize \/ batches = MaxBatches

LoopEnds(size, batches) == size < BatchSize \/ batches = MaxBatches

\* The oldest eligible rows that nobody holds; the next batch follows a full one
\* up to the limit of batches.
deleteEligible ==
    /\ run.pc = "running"
    /\ ~run.dryRun
    /\ run.target <= Len(cleanupTargets)
    /\ \E batch \in SUBSET (Eligible \ locked) :
          /\ Cardinality(batch) <= BatchSize
          /\ Cardinality(batch) = BatchSize \/ batch = Eligible \ locked
          /\ \A r \in batch, s \in (Eligible \ locked) \ batch :
                rows[r].at <= rows[s].at
          /\ rows' = [r \in Row |-> IF r \in batch THEN NoRow ELSE rows[r]]
          /\ LET size == Cardinality(batch)
                 batches == run.batches + 1
             IN  run' = [run EXCEPT
                    !.pc = IF LoopEnds(size, batches) THEN "reported" ELSE @,
                    !.batches = batches,
                    !.rows = @ + size,
                    !.limitReached = batches = MaxBatches /\ size = BatchSize,
                    !.skipped = Eligible \cap locked]
    /\ UNCHANGED <<now, setting, locked>>

nextTarget ==
    /\ run.pc = "reported"
    /\ run' = [NewTarget(run.dryRun, run.target + 1) EXCEPT !.now = run.now]
    /\ UNCHANGED <<now, rows, setting, locked>>

\* Mutant: the run ends before the last target.
completed_BeforeLast ==
    /\ run.pc = "running"
    /\ run.target = Len(cleanupTargets)
    /\ run' = NoRun
    /\ UNCHANGED <<now, rows, setting, locked>>

completed ==
    /\ run.pc = "running"
    /\ run.target = Len(cleanupTargets) + 1
    /\ run' = NoRun
    /\ UNCHANGED <<now, rows, setting, locked>>

\* The database or the process fails; batches that committed stay deleted.
failRun ==
    /\ run.pc # "idle"
    /\ run' = NoRun
    /\ UNCHANGED <<now, rows, setting, locked>>

-----------------------------------------------------------------------------

Runner == previewEligible \/ deleteEligible \/ nextTarget \/ completed

User(r) ==
    \/ create(r)
    \/ terminate(r)
    \/ \E isRead \in BOOLEAN : updateRead(r, isRead)
    \/ LockRow(r)
    \/ UnlockRow(r)
    \/ insertCart(r)
    \/ insertCartItem(r)
    \/ touchCart(r)

CleanupNext ==
    \/ Tick
    \/ \E r \in Row : User(r)
    \/ \E dryRun \in BOOLEAN : runDataCleanup(dryRun)
    \/ Runner
    \/ failRun

CleanupSpec == CleanupInit /\ [][CleanupNext]_cleanupVars

-----------------------------------------------------------------------------
(* Properties *)

\* Types; a run deletes at most its batches of a target, and only notifications
\* are read.
CleanupTypeOK ==
    /\ now \in 0 .. MaxNow
    /\ rows \in [Row -> RowRecord]
    /\ \A r \in Row : rows[r].isRead => TableOf[r] = "notifications"
    /\ setting \in [Row -> [pc: {"no", "item", "touch"}, since: 0 .. MaxNow]]
    /\ locked \subseteq Row
    /\ run \in Run

\* The retention a row has now, by its read state.
RetentionOf(r) ==
    LET table == TableOf[r]
    IN  IF table # "notifications" THEN Retention[table]
        ELSE IF rows[r].isRead THEN Retention["readNotifications"]
        ELSE Retention["unreadNotifications"]

\* No row goes before its retention has passed, counted from its timestamp and
\* read state at that moment, whatever users did to it while the run was under
\* way (data-lifecycle.md, "must recheck both is_read and the applicable
\* updated_at cutoff").
RetentionKept ==
    [][\A r \in Row : Exists(r) /\ ~Exists(r)' =>
          rows[r].at + RetentionOf(r) <= now]_cleanupVars

\* A target reported without limitReached has nothing left to delete as of the
\* time of the run but rows that users held (dataCleanupService.ts lines 76-90).
BacklogReported ==
    run.pc = "reported" /\ ~run.dryRun /\ ~run.limitReached =>
        Eligible \subseteq run.skipped

\* The types, with a report that tells the truth about its run.
CleanupInv == CleanupTypeOK /\ BacklogReported

\* If deleting runs complete again and again, no row stays due and free for ever,
\* although each run takes a bounded number of the rows of a target and skips
\* those it finds locked.
Due(r) == Exists(r) /\ r \notin locked /\ rows[r].at + RetentionOf(r) <= now
DueRowsGo ==
    []<><<completed /\ ~run.dryRun>>_cleanupVars => \A r \in Row : []<>~Due(r)
=============================================================================
