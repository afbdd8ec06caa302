---------------------------- MODULE Conversation ----------------------------
(***************************************************************************)
(* The conversation on one thread of a pull request: the handler of        *)
(* app/src/handlers/conversation.ts, runConversation() of the engine, the  *)
(* state manager of lib/src/conversation/state.ts, and the session row     *)
(* that is to carry the thread over a restart.                             *)
(*                                                                         *)
(* An exchange is one comment that addresses the agent.  It loads the row, *)
(* enters the thread's queue holding a STATE OBJECT, takes its turn, saves *)
(* and posts.  The objects are named after the exchange that created them. *)
(***************************************************************************)
EXTENDS LearningStore, Sequences

CONSTANTS TurnLimits,  \* the values maxTurns may have, 0 for none
          Faults,      \* whether connections and statements may fail
          MaxStarts    \* bound on restarts of the process

ASSUME TurnsAssumption == TurnLimits \subseteq Nat

Exchanges == Users

VARIABLES maxTurns,  \* config.conversation.maxTurns
          pc, reply, number,
          prior,     \* priorTurnCount of each exchange
          patch,     \* what each exchange is saving
          object,    \* the state objects
          tracked,   \* the object in the manager's map for this thread
          held,      \* the object each exchange works on
          tail,      \* the exchange whose promise is the thread's lock
          ahead,     \* the exchange each one waits for, until it releases
          row,       \* the persisted session
          saves,     \* the exchanges being saved: one connection runs them in order
          starts,
          replies, closings, forgotten  \* history

lockVars == <<tail, ahead>>
threadVars == <<object, tracked, held, lockVars>>
history == <<replies, closings, forgotten>>
answerVars == <<reply, number, prior, patch>>
rowVars == <<row, saves>>
vars == <<storeVars, maxTurns, pc, answerVars, threadVars, rowVars, starts, history>>

(* turnCount, alreadyClosed, and whether the last activity is a day ago.   *)
State == [turns : Nat, closed : {"unset", "no", "yes"}, old : BOOLEAN]
Fresh == [turns |-> 0, closed |-> "unset", old |-> FALSE]
NoRow == [turns |-> 0, closed |-> "none", old |-> FALSE]
NewRow == [turns |-> 0, closed |-> "no", old |-> FALSE]

TypeOK ==
  /\ StoreTypeOK
  /\ pc \in [Exchanges -> {"new", "open", "load", "queued", "asking", "condensing",
                           "answered", "saving", "posting", "done", "lost"}]
  /\ reply \in [Exchanges -> {"none", "silent", "text", "error", "close"}]
  /\ number \in [Exchanges -> Nat] /\ prior \in [Exchanges -> Nat]
  /\ object \in [Exchanges -> State] /\ patch \in [Exchanges -> State]
  /\ tracked \in Exchanges \cup {Nobody} /\ tail \in Exchanges \cup {Nobody}
  /\ held \in [Exchanges -> Exchanges \cup {Nobody}]
  /\ ahead \in [Exchanges -> Exchanges \cup {Nobody}]
  /\ row \in State \cup {NoRow}
  /\ saves \in Seq(Exchanges)

Init ==
  /\ StoreInit
  /\ maxTurns \in TurnLimits
  /\ pc = [e \in Exchanges |-> "new"]
  /\ reply = [e \in Exchanges |-> "none"]
  /\ number = [e \in Exchanges |-> 0]
  /\ prior = [e \in Exchanges |-> 0]
  /\ patch = [e \in Exchanges |-> Fresh]
  /\ object = [e \in Exchanges |-> Fresh]
  /\ tracked = Nobody /\ tail = Nobody
  /\ held = [e \in Exchanges |-> Nobody]
  /\ ahead = [e \in Exchanges |-> Nobody]
  /\ row = NoRow /\ saves = <<>>
  /\ starts = 0
  /\ replies = 0 /\ closings = 0 /\ forgotten = FALSE

Goto(e, place) == pc' = [pc EXCEPT ![e] = place]
Holding(o) == {e \in Exchanges : pc[e] \in {"queued", "asking", "condensing", "answered"}
                                 /\ held[e] = o}

(* From its reply to the reading of its number an exchange runs in         *)
(* microtasks: only the turn that follows may come in between.             *)
Drained == \A e \in Exchanges : pc[e] # "answered"

(* Every way out of the handler passes engine.cleanup(), which closes the  *)
(* store it was given: the App's own.                                      *)
Leave(e) == Goto(e, "done") /\ Closes

-----------------------------------------------------------------------------
(* The session is created when there is none, then read.                   *)
Begin(e) ==
  /\ pc[e] = "new" /\ Drained
  /\ Ask(e) /\ Goto(e, "open")
  /\ UNCHANGED <<maxTurns, answerVars, threadVars, rowVars, starts, history>>

Open(e) ==
  /\ pc[e] = "open" /\ Drained
  /\ Ask(e) /\ Goto(e, "load")
  /\ \/ row = NoRow /\ Reachable(e) /\ row' = NewRow
     \/ (row # NoRow \/ ~Reachable(e) \/ Faults) /\ UNCHANGED row
  /\ UNCHANGED <<saves, maxTurns, answerVars, threadVars, starts, history>>

(* restoreState(), when the thread is not tracked, and getOrCreateState(), *)
(* which forgets a state that is a day old.                                *)
Restore(found, e) ==
  IF tracked # Nobody THEN object[tracked]
  ELSE IF found # NoRow THEN found
  ELSE Fresh

Enter(e, found) ==
  LET state == Restore(found, e)
      mine  == tracked = Nobody \/ state.old
      o     == IF mine THEN e ELSE tracked
  IN  /\ object' = IF mine THEN [object EXCEPT ![e] = IF state.old THEN Fresh ELSE state]
                           ELSE object
      /\ tracked' = o
      /\ held' = [held EXCEPT ![e] = o]
      /\ forgotten' = (forgotten \/ (state.old /\ (state.turns > 0 \/ state.closed = "yes"))
                                 \/ (tracked = Nobody /\ found = NoRow
                                       /\ (row.turns > 0 \/ row.closed = "yes")))

(* The handler goes on with what it read; the engine joins the thread's    *)
(* queue in the same step.                                                 *)
LoadSession(e) ==
  /\ pc[e] = "load" /\ call[e] \in {"repo", "error"} /\ Drained
  /\ \E found \in (IF Reachable(e) THEN {row} ELSE {NoRow})
                  \cup (IF Faults THEN {NoRow} ELSE {}) :
       /\ prior' = [prior EXCEPT ![e] = found.turns]
       /\ Enter(e, found)
  /\ ahead' = [ahead EXCEPT ![e] = tail] /\ tail' = e
  /\ call' = Told({e}, "none")
  /\ Goto(e, "queued")
  /\ UNCHANGED <<conn, cooling, starter, closing, attempts, reply, number, patch, maxTurns, rowVars, starts, replies, closings>>

(* The signal was aborted while the session was read.                      *)
LoadAborted(e) ==
  /\ pc[e] = "load" /\ call[e] \in {"repo", "error"} /\ Drained
  /\ Leave(e)
  /\ tracked' = IF tracked = Nobody /\ Reachable(e) /\ row # NoRow THEN e ELSE tracked
  /\ object' = IF tracked' = tracked THEN object ELSE [object EXCEPT ![e] = row]
  /\ call' = Told({e}, "none")
  /\ UNCHANGED <<conn, cooling, starter, attempts, answerVars, held, lockVars, maxTurns,
                 rowVars, starts, history>>

-----------------------------------------------------------------------------
(* Mutation: the entry is removed although a later turn waits behind it.   *)
ReleaseForAll(e) ==
  /\ ahead' = [x \in Exchanges |-> IF ahead[x] = e THEN Nobody ELSE ahead[x]]
  /\ tail' = Nobody

(* withThreadLock()'s finally.                                             *)
Release(e) ==
  /\ ahead' = [x \in Exchanges |-> IF ahead[x] = e THEN Nobody ELSE ahead[x]]
  /\ tail' = IF tail = e THEN Nobody ELSE tail

Replied(e, r) == reply' = [reply EXCEPT ![e] = r] /\ Goto(e, "answered") /\ Release(e)

(* The turn begins: skipped on a closed thread, closing it when its turns  *)
(* are used up, and otherwise asking the model.                            *)
TakeTurn(e) ==
  LET state == object[held[e]]
  IN  /\ pc[e] = "queued" /\ ahead[e] = Nobody
      /\ \/ /\ state.closed = "yes"
            /\ Replied(e, "silent") /\ UNCHANGED object
         \/ /\ state.closed # "yes" /\ maxTurns > 0 /\ state.turns >= maxTurns
            /\ Replied(e, "close")
            /\ object' = [object EXCEPT ![held[e]].closed = "yes"]
         \/ /\ state.closed # "yes" /\ ~(maxTurns > 0 /\ state.turns >= maxTurns)
            /\ Goto(e, "asking") /\ UNCHANGED <<reply, lockVars, object>>
      /\ UNCHANGED <<storeVars, number, prior, patch, tracked, held, maxTurns, rowVars,
                     starts, history>>

(* updateState()                                                           *)
Count(e) ==
  /\ object' = [object EXCEPT ![held[e]].turns = @ + 1, ![held[e]].old = FALSE]
  /\ replies' = replies + 1

(* A reply that can be read is counted, at once or after the older         *)
(* messages have been condensed; an error is answered without counting.    *)
Answer(e) ==
  /\ pc[e] = "asking" /\ Drained
  /\ \/ Replied(e, "text") /\ Count(e)
     \/ Goto(e, "condensing") /\ UNCHANGED <<reply, lockVars, object, replies>>
     \/ Replied(e, "error") /\ UNCHANGED <<object, replies>>
  /\ UNCHANGED <<storeVars, number, prior, patch, tracked, held, maxTurns, rowVars, starts,
                 closings, forgotten>>

(* However the condensing ends, the turn counts.                           *)
Condensed(e) ==
  /\ pc[e] = "condensing" /\ Drained
  /\ Replied(e, "text") /\ Count(e)
  /\ UNCHANGED <<storeVars, number, prior, patch, tracked, held, maxTurns, rowVars, starts,
                 closings, forgotten>>

(* Mutation: the lock is given back on the way of a reply only.            *)
ThrowsHolding(e) ==
  /\ pc[e] = "asking" /\ Drained
  /\ reply' = [reply EXCEPT ![e] = "error"] /\ Goto(e, "posting")
  /\ UNCHANGED <<storeVars, number, prior, patch, threadVars, maxTurns, rowVars, starts,
                 history>>

(* The run of the model throws: the handler posts an error.                *)
Throws(e) ==
  /\ pc[e] = "asking" /\ Drained
  /\ reply' = [reply EXCEPT ![e] = "error"] /\ Goto(e, "posting") /\ Release(e)
  /\ UNCHANGED <<storeVars, number, prior, patch, object, tracked, held, maxTurns, rowVars,
                 starts, history>>

-----------------------------------------------------------------------------
(* Mutation: the exchange is numbered by the row it began from.            *)
NumberBefore(e) == prior[e] + 1

(* The turn number of an exchange is read from the state that is tracked   *)
(* when its turn is over.                                                  *)
Number(e) == IF tracked = Nobody THEN prior[e] + 1 ELSE object[tracked].turns

(* persistSessionState(), to its first await; '' is not persisted.         *)
Persist(e) ==
  /\ pc[e] = "answered" /\ reply[e] # "silent"
  /\ number' = [number EXCEPT ![e] = Number(e)]
  /\ patch' = [patch EXCEPT ![e] = [IF tracked = Nobody THEN Fresh ELSE object[tracked]
                                      EXCEPT !.turns = Number(e)]]
  /\ saves' = Append(saves, e)
  /\ held' = [held EXCEPT ![e] = Nobody] /\ prior' = [prior EXCEPT ![e] = 0]
  /\ Ask(e) /\ Goto(e, "saving")
  /\ UNCHANGED <<reply, object, tracked, lockVars, maxTurns, row, starts, history>>

(* The signal was aborted during the turn, or there is nothing to say.     *)
Withdraw(e) ==
  /\ pc[e] = "answered"
  /\ Leave(e)
  /\ UNCHANGED <<conn, cooling, starter, call, attempts, answerVars, threadVars, maxTurns,
                 rowVars, starts, history>>

(* saveConversationExchange(): only what the patch sets is written, and    *)
(* nothing when there is no row.                                           *)
SaveExchange(e) ==
  /\ pc[e] = "saving" /\ saves # <<>> /\ e = Head(saves)
  /\ call[e] \in {"repo", "error"} /\ Drained
  /\ \/ /\ Reachable(e) /\ row # NoRow
        /\ row' = [patch[e] EXCEPT !.closed = IF @ = "unset" THEN row.closed ELSE @]
     \/ (~Reachable(e) \/ row = NoRow \/ Faults) /\ UNCHANGED row
  /\ saves' = Tail(saves)
  /\ patch' = [patch EXCEPT ![e] = Fresh]
  /\ call' = Told({e}, "none")
  /\ Goto(e, "posting")
  /\ UNCHANGED <<conn, cooling, starter, closing, attempts, reply, number, prior, threadVars,
                 maxTurns, starts, history>>

(* The comment, or in place of one that failed an error message.           *)
Post(e) ==
  /\ pc[e] = "posting" /\ Drained
  /\ Leave(e)
  /\ closings' \in {closings, closings + IF reply[e] = "close" THEN 1 ELSE 0}
  /\ UNCHANGED <<conn, cooling, starter, call, attempts, answerVars, threadVars, maxTurns,
                 rowVars, starts, replies, forgotten>>

-----------------------------------------------------------------------------
(* What memory knows that the row does not.                                *)
Unsaved == \/ \E e \in Exchanges : pc[e] = "saving"
           \/ tracked # Nobody /\ \/ Holding(tracked) # {}
                                  \/ object[tracked].turns # row.turns
                                  \/ (object[tracked].closed = "yes") # (row.closed = "yes")

(* A thousand other threads push this one out of the manager.              *)
Evict ==
  /\ tracked # Nobody /\ Drained
  /\ tracked' = Nobody
  /\ forgotten' = (forgotten \/ Unsaved)
  /\ UNCHANGED <<storeVars, maxTurns, pc, answerVars, object, held, lockVars, rowVars, starts,
                 replies, closings>>

(* Nobody addresses the agent for more than a day.                         *)
DayPasses ==
  /\ \A e \in Exchanges : pc[e] \in {"new", "done", "lost"}
  /\ row # NoRow \/ tracked # Nobody
  /\ object' = [e \in Exchanges |-> [object[e] EXCEPT !.old = tracked = e \/ @]]
  /\ row' = IF row = NoRow THEN row ELSE [row EXCEPT !.old = TRUE]
  /\ UNCHANGED <<storeVars, maxTurns, pc, answerVars, tracked, held, lockVars, saves, starts,
                 history>>

(* Another handler of the process is done with its engine.                 *)
OtherCleanup ==
  /\ Closes /\ closing' # closing /\ Drained
  /\ UNCHANGED <<conn, cooling, starter, call, attempts, maxTurns, pc, answerVars, threadVars,
                 rowVars, starts, history>>

Restart ==
  /\ starts < MaxStarts
  /\ starts' = starts + 1
  /\ Restarted
  /\ pc' = [e \in Exchanges |-> IF pc[e] \in {"new", "done"} THEN pc[e] ELSE "lost"]
  /\ tracked' = Nobody /\ tail' = Nobody
  /\ saves' = <<>>
  /\ forgotten' = (forgotten \/ Unsaved)
  /\ ahead' = [e \in Exchanges |-> Nobody] /\ held' = [e \in Exchanges |-> Nobody]
  /\ UNCHANGED <<maxTurns, answerVars, object, row, replies, closings>>

Settling == (Connected \/ (Faults /\ ConnectFails)) /\ Drained
            /\ UNCHANGED <<maxTurns, pc, answerVars, threadVars, rowVars, starts, history>>

StoreAlone == (CoolDownEnds \/ CloseConnection) /\ Drained
              /\ UNCHANGED <<maxTurns, pc, answerVars, threadVars, rowVars, starts, history>>

Step(e) == \/ Open(e) \/ LoadSession(e) \/ LoadAborted(e) \/ TakeTurn(e) \/ Answer(e)
           \/ Condensed(e) \/ Throws(e) \/ Persist(e) \/ Withdraw(e) \/ SaveExchange(e)
           \/ Post(e)

Next == \/ \E e \in Exchanges : Begin(e) \/ Step(e)
        \/ Settling \/ StoreAlone \/ OtherCleanup \/ Evict \/ DayPasses \/ Restart

Spec == Init /\ [][Next]_vars

-----------------------------------------------------------------------------
(* As long as nothing of the thread has been forgotten, the model answers  *)
(* at most maxTurns times and the closing message is posted once, however  *)
(* many comments arrive at once and whether or not the process restarts    *)
(* (shouldAutoClose, alreadyClosed, withThreadLock).                       *)
TurnBudget == ~forgotten /\ maxTurns > 0 => replies <= maxTurns /\ closings <= 1

(* "two concurrent webhooks on the same thread cannot reuse the same       *)
(* numbers for different exchanges" (persistSessionState).                 *)
NumbersDistinct ==
  ~forgotten =>
    \A d, e \in Exchanges : d # e /\ reply[d] = "text" /\ reply[e] = "text"
                              /\ number[d] > 0 => number[d] # number[e]

(* No turn waits behind a lock that is never given back: whoever it waits  *)
(* for is itself in its turn, or waiting for one that is, and never in a   *)
(* circle (withThreadLock).                                                *)
InTurn == {e \in Exchanges : pc[e] \in {"queued", "asking", "condensing"}}

QueueMoves ==
  /\ tail # Nobody => tail \in InTurn
  /\ \A e \in InTurn : ahead[e] # Nobody => pc[e] = "queued" /\ ahead[e] \in InTurn
  /\ InTurn # {} => \E e \in InTurn : ahead[e] = Nobody

(* What README.md says of a thread: the turns that were answered are in    *)
(* the learning store, so that it continues after a restart.               *)
ThreadSurvivesRestart ==
  \A e \in Exchanges : pc[e] = "done" /\ number[e] > 0 => row.turns >= number[e]
=============================================================================
