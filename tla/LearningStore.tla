---------------------------- MODULE LearningStore ----------------------------
(***************************************************************************)
(* The connection of lib/src/learning/store.ts, shared by everything a     *)
(* process of the App does.                                                *)
(*                                                                         *)
(* getRepo() resolves the promise on record; when it has been rejected and *)
(* the cool-down is over, the caller replaces it by a new connection and   *)
(* everybody after it waits for that one.  close(), which every engine     *)
(* calls when it is done, leaves the promise resolved to the closed        *)
(* connection.  Reactions to one settlement run in one drain of the        *)
(* microtask queue, so a settlement and what its waiters do next is a step.*)
(***************************************************************************)
EXTENDS Naturals, FiniteSets

CONSTANTS Users,    \* the callers of the store
          Nobody

ASSUME NobodyAssumption == Nobody \notin Users

VARIABLES conn,     \* what repoPromise is, or has resolved to
          cooling,  \* lastFailureAt is less than the cool-down ago
          starter,  \* the caller whose recovery is under way
          call,     \* call[u]: how far u's getRepo() is
          closing,  \* a close() waits for the connection
          attempts  \* history: connections being opened

storeVars == <<conn, cooling, starter, call, closing, attempts>>

StoreTypeOK ==
  /\ conn \in {"connecting", "up", "closed", "failed"}
  /\ cooling \in BOOLEAN
  /\ starter \in Users \cup {Nobody}
  /\ call \in [Users -> {"none", "waiting", "repo", "error"}]
  /\ closing \in BOOLEAN
  /\ attempts \in Nat

StoreInit ==
  /\ conn = "connecting"
  /\ cooling = FALSE
  /\ starter = Nobody
  /\ call = [u \in Users |-> "none"]
  /\ closing = FALSE
  /\ attempts = 1

Waiting == {u \in Users : call[u] = "waiting"}

Told(us, answer) == [u \in Users |-> IF u \in us THEN answer ELSE call[u]]

-----------------------------------------------------------------------------
(* getRepo(), to its first await that does not return at once.             *)
Ask(u) ==
  /\ call[u] # "waiting"
  /\ \/ /\ conn \in {"up", "closed"}
        /\ call' = Told({u}, "repo")
        /\ cooling' = FALSE
        /\ UNCHANGED <<conn, starter, attempts>>
     \/ /\ conn = "connecting"
        /\ call' = Told({u}, "waiting")
        /\ UNCHANGED <<conn, cooling, starter, attempts>>
     \/ /\ conn = "failed" /\ cooling
        /\ call' = Told({u}, "error")
        /\ UNCHANGED <<conn, cooling, starter, attempts>>
     \/ /\ conn = "failed" /\ ~cooling
        /\ call' = Told({u}, "waiting")
        /\ conn' = "connecting" /\ starter' = u /\ cooling' = TRUE
        /\ attempts' = attempts + 1
  /\ UNCHANGED closing

Connected ==
  /\ conn = "connecting"
  /\ conn' = "up"
  /\ cooling' = FALSE /\ starter' = Nobody
  /\ call' = Told(Waiting, "repo")
  /\ attempts' = attempts - 1
  /\ UNCHANGED closing

(* Mutation: the failure is noted when the recovery has ended, not when it *)
(* begins.                                                                 *)
RecoverAll(us) ==
  \E u \in us : /\ starter' = u
                /\ conn' = "connecting" /\ UNCHANGED cooling
                /\ UNCHANGED call
                /\ attempts' = attempts - 1 + Cardinality(us)

(* Of the waiters that see the rejection when no cool-down runs, the first *)
(* opens a new connection, which starts the cool-down for the others.      *)
Recover(us) ==
  \E u \in us : /\ starter' = u
                /\ conn' = "connecting" /\ cooling' = TRUE
                /\ call' = Told(Waiting \ {u}, "error")
                /\ attempts' = attempts

(* The connection, or its migrations, failed for the third time.           *)
ConnectFails ==
  /\ conn = "connecting"
  /\ closing' = FALSE
  /\ LET us == Waiting \ {starter}
     IN  IF cooling \/ us = {}
         THEN /\ conn' = "failed" /\ starter' = Nobody
              /\ call' = Told(Waiting, "error")
              /\ attempts' = attempts - 1
              /\ UNCHANGED cooling
         ELSE Recover(us)

CoolDownEnds ==
  /\ cooling
  /\ cooling' = FALSE
  /\ UNCHANGED <<conn, starter, call, closing, attempts>>

(* close() up to its await, and the rest of it.                            *)
Closes == closing' = (closing \/ conn \in {"connecting", "up"})

CloseConnection ==
  /\ closing /\ conn = "up"
  /\ conn' = "closed" /\ closing' = FALSE
  /\ UNCHANGED <<cooling, starter, call, attempts>>

(* What a statement needs: it fails on a closed connection of the SQL      *)
(* backends, and may fail on any.                                          *)
Reachable(u) == call[u] = "repo" /\ conn = "up"

(* The process is started again.                                           *)
Restarted ==
  /\ conn' = "connecting"
  /\ cooling' = FALSE
  /\ starter' = Nobody
  /\ call' = [u \in Users |-> "none"]
  /\ closing' = FALSE
  /\ attempts' = 1

StoreStep == Connected \/ ConnectFails \/ CoolDownEnds \/ CloseConnection

-----------------------------------------------------------------------------
(* Callers that all see a rejected connection open one new connection      *)
(* between them, never one each (getRepo, "instead of each opening (and    *)
(* leaking) their own connection").                                        *)
OneConnection == attempts <= 1
=============================================================================
