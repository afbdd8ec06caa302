---------------------------- MODULE JsonDatabase ----------------------------
(***************************************************************************)
(* The JSON fallback store of lib/src/learning/json-db.ts: all data in     *)
(* memory, written to one file by a debounced asynchronous write, by       *)
(* close() and when the process is about to exit.                          *)
(*                                                                         *)
(* A write creates a temp file, serialises the memory into it at one       *)
(* moment, and renames it over the database.  Nothing orders the writes    *)
(* that are under way at the same time.                                    *)
(*                                                                         *)
(* A mutation is abstracted to the rows it adds: an update adds one row    *)
(* and saves; an exchange (saveConversationExchange) adds its parts one by *)
(* one inside transaction().  The bodies of transactions wait for nothing  *)
(* but promises that are resolved already, so from the first part of an    *)
(* exchange to its commit no timer and no file operation gets a turn; but  *)
(* other promise reactions do, and one of them may close the store.  None  *)
(* of the bodies throws, so the rollback of transaction() is not reached.  *)
(*                                                                         *)
(* A store that is closed still takes mutations and writes them: closing   *)
(* only keeps the exit from flushing it again.                             *)
(***************************************************************************)
EXTENDS Naturals

CONSTANTS Updates,       \* single mutations
          Transactions,  \* exchanges
          Parts,         \* an exchange adds the rows 1..Parts of its own
          Torn,          \* the contents of a file that does not parse
          Writers,       \* bound on the asynchronous writes under way together
          MaxRestarts    \* bound on the restarts of the process

VARIABLES memory,         \* this.data
          disk,           \* the database file
          timer,          \* writeTimeout is set
          inTransaction,
          step,           \* step[x]: the parts exchange x has added, or Idle
          writer,         \* the asynchronous writes
          phase,          \* what became of the process
          restarts,
          unsaved,        \* history: memory holds a change that no write has read,
                          \* or that a write has read and failed to write
          dropped,        \* history: a write failed, and none was scheduled or begun,
                          \* and no flush done, since then
          interrupted     \* history: exchanges that a flush by close() met half done

jsonVars == <<memory, disk, timer, inTransaction, step, writer, phase, restarts,
              unsaved, dropped, interrupted>>

Meta == <<0, 0>>  \* the counter row that every database has
Row == {Meta} \union (Updates \X {1}) \union (Transactions \X (1..Parts))
Idle == Parts + 1

ASSUME JsonAssumption == Parts \in Nat \ {0} /\ MaxRestarts \in Nat
ASSUME RowsAssumption == /\ Updates \intersect Transactions = {}
                         /\ \A rows \in SUBSET Row : rows # Torn

JsonTypeOK ==
  /\ memory \subseteq Row
  /\ disk \in (SUBSET Row) \union {Torn}
  /\ timer \in BOOLEAN /\ inTransaction \in BOOLEAN
  /\ step \in [Transactions -> 0..Idle]
  /\ writer \in [Writers -> [at : {"idle", "opening", "writing"}, snap : SUBSET Row]]
  /\ phase \in {"running", "closed", "exited"}
  /\ restarts \in 0..MaxRestarts
  /\ unsaved \in BOOLEAN /\ dropped \in BOOLEAN
  /\ interrupted \subseteq Transactions

NoWrite == [at |-> "idle", snap |-> {}]

(* load(): what the file holds, if it parses.  A database without its      *)
(* counter row gets one and saves.                                         *)
Load(file) ==
  LET data == IF file = Torn THEN {} ELSE file IN
  /\ memory' = data \union {Meta}
  /\ timer' = (Meta \notin data)
  /\ unsaved' = (Meta \notin data)

(* A new database: there is no file yet.                                   *)
JsonInit ==
  /\ memory = {Meta} /\ disk = {}
  /\ timer = TRUE /\ inTransaction = FALSE
  /\ step = [x \in Transactions |-> Idle]
  /\ writer = [w \in Writers |-> NoWrite]
  /\ phase = "running" /\ restarts = 0
  /\ unsaved = TRUE /\ dropped = FALSE /\ interrupted = {}

-----------------------------------------------------------------------------
(* Mutations.                                                              *)

(* save() re-arms the timer, unless a transaction is open.                 *)
Save == /\ timer' = (timer \/ ~inTransaction)
        /\ dropped' = (dropped /\ inTransaction)

Update(u) ==
  /\ phase # "exited"
  /\ <<u, 1>> \notin memory
  /\ memory' = memory \union {<<u, 1>>}
  /\ Save
  /\ unsaved' = TRUE
  /\ UNCHANGED <<disk, inTransaction, step, writer, phase, restarts, interrupted>>

BeginTransaction(x) ==
  /\ phase # "exited"
  /\ step[x] = Idle /\ <<x, 1>> \notin memory
  /\ step' = [step EXCEPT ![x] = 0]
  /\ inTransaction' = TRUE
  /\ UNCHANGED <<memory, disk, timer, writer, phase, restarts, unsaved, dropped, interrupted>>

AddPart(x) ==
  /\ step[x] < Parts
  /\ step' = [step EXCEPT ![x] = @ + 1]
  /\ memory' = memory \union {<<x, step[x] + 1>>}
  /\ Save
  /\ unsaved' = TRUE
  /\ UNCHANGED <<disk, inTransaction, writer, phase, restarts, interrupted>>

(* Mutation: the commit leaves it to the mutations to save.                *)
CommitSilently(x) ==
  /\ step[x] = Parts
  /\ step' = [step EXCEPT ![x] = Idle]
  /\ inTransaction' = FALSE
  /\ UNCHANGED <<memory, disk, timer, writer, phase, restarts, unsaved, dropped, interrupted>>

(* The flag is lowered, also under another transaction that is still open. *)
Commit(x) ==
  /\ step[x] = Parts
  /\ step' = [step EXCEPT ![x] = Idle]
  /\ inTransaction' = FALSE
  /\ timer' = TRUE /\ dropped' = FALSE
  /\ UNCHANGED <<memory, disk, writer, phase, restarts, unsaved, interrupted>>

-----------------------------------------------------------------------------
(* Writing.                                                                *)

(* No transaction is under way: timers and file operations get a turn.     *)
BetweenTransactions == \A x \in Transactions : step[x] = Idle

StartWrite(w) ==
  /\ writer[w].at = "idle"
  /\ writer' = [writer EXCEPT ![w].at = "opening"]
  /\ timer' = FALSE /\ dropped' = FALSE
  /\ UNCHANGED <<memory, disk, inTransaction, step, phase, restarts, unsaved, interrupted>>

TimerFires(w) == timer /\ BetweenTransactions /\ StartWrite(w)

(* flush() cancels the timer and writes at once.                           *)
Flush(w) == phase # "exited" /\ StartWrite(w)

(* Mutation: the database file itself is opened and written.               *)
SnapshotInPlace(w) ==
  /\ BetweenTransactions
  /\ writer[w].at = "opening"
  /\ writer' = [writer EXCEPT ![w] = [at |-> "writing", snap |-> memory]]
  /\ disk' = Torn
  /\ unsaved' = FALSE
  /\ UNCHANGED <<memory, timer, inTransaction, step, phase, restarts, dropped, interrupted>>

(* The temp file is open: the memory of this moment is serialised into it. *)
Snapshot(w) ==
  /\ BetweenTransactions
  /\ writer[w].at = "opening"
  /\ writer' = [writer EXCEPT ![w] = [at |-> "writing", snap |-> memory]]
  /\ unsaved' = FALSE
  /\ UNCHANGED <<memory, disk, timer, inTransaction, step, phase, restarts, dropped,
                 interrupted>>

(* The file is renamed by a thread of the runtime, whatever the process is *)
(* doing.                                                                  *)
Rename(w) ==
  /\ writer[w].at = "writing"
  /\ disk' = writer[w].snap
  /\ writer' = [writer EXCEPT ![w] = NoWrite]
  /\ UNCHANGED <<memory, timer, inTransaction, step, phase, restarts, unsaved, dropped,
                 interrupted>>

(* A directory, file, write or rename that fails is logged, and the write  *)
(* is not tried again: what it was to save stays in memory alone.          *)
WriteFails(w) ==
  /\ writer[w].at # "idle"
  /\ writer' = [writer EXCEPT ![w] = NoWrite]
  /\ unsaved' = (unsaved \/ writer[w].at = "writing")
  /\ dropped' = TRUE
  /\ UNCHANGED <<memory, disk, timer, inTransaction, step, phase, restarts, interrupted>>

(* flushSync() writes and renames in one stretch, or fails and goes on.    *)
(* The memory it writes is that of the moment, in a transaction too.       *)
FlushSync ==
  /\ timer' = FALSE
  /\ \/ /\ disk' = memory /\ unsaved' = FALSE /\ dropped' = FALSE
        /\ interrupted' = interrupted \union {x \in Transactions : step[x] \in 1..(Parts - 1)}
     \/ dropped' = TRUE /\ UNCHANGED <<disk, unsaved, interrupted>>
  /\ UNCHANGED <<memory, inTransaction, step, writer, restarts>>

(* close() flushes and takes the database off the list of those that are   *)
(* flushed at exit.  It does not look whether a transaction is open.       *)
Close ==
  /\ phase # "exited"
  /\ phase' = "closed"
  /\ FlushSync

(* Nothing is left to do: the process exits.                               *)
LoopEmpty == BetweenTransactions /\ ~timer /\ \A w \in Writers : writer[w].at = "idle"

(* Mutation: only what has changed is flushed at exit.                     *)
ExitFlushingChanges ==
  /\ phase = "running" /\ LoopEmpty
  /\ phase' = "exited"
  /\ IF unsaved THEN FlushSync
     ELSE UNCHANGED <<memory, disk, timer, inTransaction, step, writer, restarts, unsaved,
                      dropped, interrupted>>

(* beforeExit: every database that was not closed is flushed.              *)
Exit ==
  /\ phase = "running" /\ LoopEmpty
  /\ phase' = "exited"
  /\ FlushSync

(* The process is killed, or ends; load() reads the file when it starts    *)
(* again, and starts empty when the file does not parse.                   *)
Reopen ==
  /\ restarts < MaxRestarts
  /\ restarts' = restarts + 1
  /\ Load(disk)
  /\ inTransaction' = FALSE
  /\ step' = [x \in Transactions |-> Idle]
  /\ writer' = [w \in Writers |-> NoWrite]
  /\ phase' = "running"
  /\ dropped' = FALSE
  /\ UNCHANGED <<disk, interrupted>>

JsonNext ==
  \/ \E u \in Updates : Update(u)
  \/ \E x \in Transactions : BeginTransaction(x) \/ AddPart(x) \/ Commit(x)
  \/ \E w \in Writers : \/ TimerFires(w) \/ Flush(w) \/ Snapshot(w)
                        \/ Rename(w) \/ WriteFails(w)
  \/ Close \/ Exit \/ Reopen

JsonSpec == JsonInit /\ [][JsonNext]_jsonVars

-----------------------------------------------------------------------------
(* As long as the file system takes what is written, no change is          *)
(* forgotten: what no write has read yet is covered by a timer, by a write *)
(* that is about to read it, or by a transaction that will save when it    *)
(* commits, however transactions, writes and a close overlap.  A change    *)
(* whose write failed waits in memory for the next change, flush or exit   *)
(* to write it; from then on it is covered again.                          *)
UnsavedIsScheduled ==
  unsaved /\ ~dropped => \/ timer
                         \/ \E w \in Writers : writer[w].at = "opening"
                         \/ ~BetweenTransactions

(* "a crash mid-persist cannot leave the patch and its turns inconsistent" *)
(* (saveConversationExchange): at every moment the file parses, and holds  *)
(* all the parts of an exchange or none, but for an exchange that close()  *)
(* met half done: close() writes the parts it finds in memory.             *)
ExchangeWholeOnDisk ==
  /\ disk # Torn
  /\ \A x \in Transactions \ interrupted :
       {i \in 1..Parts : <<x, i>> \in disk} \in {{}, 1..Parts}

(* "flushed synchronously on process exit": whatever older snapshots the   *)
(* asynchronous writes left behind, an exiting process leaves its memory,  *)
(* unless this last write fails.                                           *)
ExitSaves == phase = "exited" /\ ~dropped => disk = memory

(* "Close the database and flush pending writes": once a closed database   *)
(* is quiet and has nothing left to write, the file is what the memory is. *)
CloseSaves ==
  phase = "closed" /\ LoopEmpty /\ ~unsaved /\ ~dropped => disk = memory
=============================================================================
