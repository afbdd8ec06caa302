---------------------------- MODULE LearningProofs ----------------------------
(***************************************************************************)
(* Proofs about what the reviewer remembers: the one connection to the     *)
(* store (LearningStore), the thread of a conversation on that connection  *)
(* (Conversation), and the JSON store that a repository without an SQL     *)
(* driver keeps on disk (JsonDatabase).                                    *)
(***************************************************************************)
EXTENDS Conversation, JsonDatabase, SequenceTheorems, WellFoundedInduction, TLAPS

(***************************************************************************)
(* The connection.                                                         *)
(***************************************************************************)
(* A connection is being opened exactly while the promise on record is     *)
(* unsettled.                                                              *)
ConnectionInv ==
  /\ conn \in {"connecting", "up", "closed", "failed"}
  /\ starter \in Users \union {Nobody}
  /\ call \in [Users -> {"none", "waiting", "repo", "error"}]
  /\ conn = "connecting" => attempts = 1
  /\ conn # "connecting" => attempts = 0

FlagInv == cooling \in BOOLEAN /\ closing \in BOOLEAN

(* Telling some of the callers leaves a function of answers.               *)
LEMMA ToldType ==
  ASSUME ConnectionInv, NEW us, NEW answer \in {"none", "waiting", "repo", "error"}
  PROVE  Told(us, answer) \in [Users -> {"none", "waiting", "repo", "error"}]
  BY DEF Told, ConnectionInv

(* The two parts make the type invariant of the connection.                *)
LEMMA StoreTypes == ConnectionInv /\ FlagInv => StoreTypeOK
  <1>1. ConnectionInv => attempts \in Nat
    BY DEF ConnectionInv
  <1>2. QED
    BY <1>1 DEF ConnectionInv, FlagInv, StoreTypeOK

(* A caller that asks opens a connection only when none is being opened.   *)
LEMMA AskStep ==
  ASSUME ConnectionInv, FlagInv, NEW u \in Users, Ask(u)
  PROVE  (ConnectionInv)' /\ (FlagInv)'
  <1>1. call' \in [Users -> {"none", "waiting", "repo", "error"}]
    BY ToldType DEF Ask
  <1>2. FlagInv'
    BY DEF FlagInv, Ask
  <1>3. ConnectionInv'
    BY <1>1 DEF ConnectionInv, Ask
  <1>4. QED
    BY <1>2, <1>3

(* A connection that settles is followed by one retry at most.             *)
LEMMA SettlingStep ==
  ASSUME ConnectionInv, FlagInv, Connected \/ ConnectFails
  PROVE  (ConnectionInv)' /\ (FlagInv)'
  <1>1. FlagInv'
    BY DEF Connected, ConnectFails, Recover, FlagInv
  <1>2. CASE Connected
    <2>1. call' \in [Users -> {"none", "waiting", "repo", "error"}]
      BY <1>2, ToldType DEF Connected
    <2>2. conn' = "up" /\ starter' = Nobody /\ attempts' = 0
      BY <1>2 DEF Connected, ConnectionInv
    <2>3. QED
      BY <1>1, <2>1, <2>2 DEF ConnectionInv
  <1>3. CASE ConnectFails
    <2>1. conn = "connecting" /\ attempts = 1
      BY <1>3 DEF ConnectFails, ConnectionInv
    <2>2. CASE cooling \/ Waiting \ {starter} = {}
      <3>1. call' = Told(Waiting, "error")
        BY <1>3, <2>2 DEF ConnectFails
      <3>2. call' \in [Users -> {"none", "waiting", "repo", "error"}]
        BY <3>1, ToldType
      <3>3. conn' = "failed" /\ starter' = Nobody /\ attempts' = attempts - 1
        BY <1>3, <2>2 DEF ConnectFails
      <3>4. QED
        BY <1>1, <2>1, <3>2, <3>3 DEF ConnectionInv
    <2>3. CASE ~(cooling \/ Waiting \ {starter} = {})
      <3>1. Recover(Waiting \ {starter})
        BY <1>3, <2>3 DEF ConnectFails
      <3>2. PICK u \in Waiting \ {starter} :
              /\ starter' = u /\ conn' = "connecting"
              /\ call' = Told(Waiting \ {u}, "error")
              /\ attempts' = attempts
        BY <3>1 DEF Recover
      <3>3. u \in Users
        BY DEF Waiting
      <3>4. call' \in [Users -> {"none", "waiting", "repo", "error"}]
        BY <3>2, ToldType
      <3>5. QED
        BY <1>1, <2>1, <3>2, <3>3, <3>4 DEF ConnectionInv
    <2>4. QED
      BY <2>2, <2>3
  <1>4. QED
    BY <1>2, <1>3

(* Every step of the conversation is one of the connection, or leaves it   *)
(* alone.                                                                  *)
LEMMA ConnectionStep ==
  ConnectionInv /\ FlagInv /\ [Next]_vars => ConnectionInv' /\ FlagInv'
  <1> SUFFICES ASSUME ConnectionInv, FlagInv, [Next]_vars
               PROVE  ConnectionInv' /\ FlagInv'
    OBVIOUS
  <1>1. ASSUME NEW e \in Exchanges, Begin(e) \/ Open(e) \/ Persist(e)
        PROVE  ConnectionInv' /\ FlagInv'
    BY <1>1, AskStep DEF Begin, Open, Persist, Exchanges
  <1>2. ASSUME NEW e \in Exchanges, \/ LoadSession(e) \/ SaveExchange(e)
                                    \/ LoadAborted(e) \/ Withdraw(e) \/ Post(e)
        PROVE  ConnectionInv' /\ FlagInv'
    <2>1. UNCHANGED <<conn, cooling, starter, attempts>>
      BY <1>2 DEF LoadSession, SaveExchange, LoadAborted, Withdraw, Post
    <2>2. call' = call \/ call' = Told({e}, "none")
      BY <1>2 DEF LoadSession, SaveExchange, LoadAborted, Withdraw, Post
    <2>3. closing' = closing \/ Closes
      BY <1>2 DEF LoadSession, SaveExchange, LoadAborted, Withdraw, Post, Leave
    <2>4. call' \in [Users -> {"none", "waiting", "repo", "error"}]
      BY <2>2, ToldType DEF ConnectionInv
    <2>5. FlagInv'
      BY <2>1, <2>3 DEF FlagInv, Closes
    <2>6. QED
      BY <2>1, <2>4, <2>5 DEF ConnectionInv
  <1>3. ASSUME NEW e \in Exchanges, TakeTurn(e) \/ Answer(e) \/ Condensed(e) \/ Throws(e)
        PROVE  ConnectionInv' /\ FlagInv'
    <2>1. UNCHANGED storeVars
      BY <1>3 DEF TakeTurn, Answer, Condensed, Throws
    <2>2. QED
      BY <2>1 DEF storeVars, ConnectionInv, FlagInv
  <1>4. CASE Settling
    BY <1>4, SettlingStep DEF Settling
  <1>5. CASE StoreAlone \/ OtherCleanup
    <2>1. UNCHANGED <<starter, call, attempts>>
      BY <1>5 DEF StoreAlone, CoolDownEnds, CloseConnection, OtherCleanup
    <2>2. conn' = conn \/ (conn = "up" /\ conn' = "closed")
      BY <1>5 DEF StoreAlone, CoolDownEnds, CloseConnection, OtherCleanup
    <2>3. FlagInv'
      BY <1>5 DEF StoreAlone, CoolDownEnds, CloseConnection, OtherCleanup, Closes, FlagInv
    <2>4. QED
      BY <2>1, <2>2, <2>3 DEF ConnectionInv
  <1>6. CASE Evict \/ DayPasses \/ UNCHANGED vars
    <2>1. UNCHANGED storeVars
      BY <1>6 DEF Evict, DayPasses, vars
    <2>2. QED
      BY <2>1 DEF storeVars, ConnectionInv, FlagInv
  <1>7. CASE Restart
    <2>1. FlagInv'
      BY <1>7 DEF Restart, Restarted, FlagInv
    <2>2. QED
      BY <1>7, <2>1 DEF Restart, Restarted, ConnectionInv
  <1>8. QED
    BY <1>1, <1>2, <1>3, <1>4, <1>5, <1>6, <1>7 DEF Next, Step

(* At most one connection is being opened.                                 *)
LEMMA ConnectionAlways == Spec => [](ConnectionInv /\ FlagInv)
  <1>1. Init => ConnectionInv
    BY DEF Init, StoreInit, ConnectionInv
  <1>2. Init => FlagInv
    BY DEF Init, StoreInit, FlagInv
  <1>3. QED
    BY <1>1, <1>2, ConnectionStep, PTL DEF Spec

(* Callers that all see a rejected connection open one between them, for   *)
(* any number of callers and through restarts.                             *)
THEOREM OneConnectionHolds == Spec => []OneConnection
  <1>1. ConnectionInv => OneConnection
    BY DEF ConnectionInv, OneConnection
  <1>2. QED
    BY ConnectionAlways, <1>1, PTL

(***************************************************************************)
(* Types.  The provers want values that are Boolean apart from numbers, so *)
(* the typing comes in parts.                                              *)
(***************************************************************************)
Turn == {"queued", "asking", "condensing"}

(* The types of what places the exchanges.                                 *)
PlaceTypes ==
  /\ pc \in [Exchanges -> {"new", "open", "load", "answered", "saving", "posting", "done",
                           "lost"} \union Turn]
  /\ reply \in [Exchanges -> {"none", "silent", "text", "error", "close"}]
  /\ tracked \in Exchanges \union {Nobody} /\ tail \in Exchanges \union {Nobody}
  /\ held \in [Exchanges -> Exchanges \union {Nobody}]
  /\ ahead \in [Exchanges -> Exchanges \union {Nobody}]

(* The types of the counts.                                                *)
CountTypes ==
  /\ maxTurns \in Nat /\ replies \in Nat /\ closings \in Nat
  /\ number \in [Exchanges -> Nat] /\ prior \in [Exchanges -> Nat]

(* The types of the states of the thread, in memory and in the row.        *)
StateTypes ==
  /\ object \in [Exchanges -> State] /\ patch \in [Exchanges -> State]
  /\ row \in State \union {NoRow}
  /\ saves \in Seq(Exchanges)

(* What an exchange has and has not, up to each place.                     *)
Unanswered == {"new", "open", "load"} \union Turn

PlaceInv ==
  \A e \in Exchanges :
    /\ pc[e] \in Unanswered => reply[e] = "none"
    /\ pc[e] \in Unanswered \union {"answered"} => number[e] = 0
    /\ pc[e] \in Turn => held[e] \in Exchanges

Typing == PlaceTypes /\ CountTypes /\ StateTypes /\ PlaceInv

(* The states that are named, and the fields of any state.                 *)
LEMMA StateRecords ==
  /\ Fresh \in State /\ NewRow \in State /\ NoRow \notin State
  /\ Fresh.turns = 0 /\ NewRow.turns = 0 /\ NoRow.turns = 0
  /\ Fresh.closed = "unset" /\ NewRow.closed = "no" /\ NoRow.closed = "none"
  /\ Fresh.old = FALSE
  /\ \A s \in State : /\ s.turns \in Nat /\ s.closed \in {"unset", "no", "yes"}
                       /\ s.old \in BOOLEAN
  <1>1. \A t \in Nat, c \in {"unset", "no", "yes"}, o \in BOOLEAN :
          [turns |-> t, closed |-> c, old |-> o] \in State
    BY DEF State
  <1>2. Fresh \in State /\ NewRow \in State
    BY <1>1 DEF Fresh, NewRow
  <1>3. NoRow \notin State
    BY DEF NoRow, State
  <1>4. \A s \in State : /\ s.turns \in Nat /\ s.closed \in {"unset", "no", "yes"}
                         /\ s.old \in BOOLEAN
    BY DEF State
  <1>5. QED
    BY <1>2, <1>3, <1>4 DEF Fresh, NewRow, NoRow

(* Changing one field of a state leaves a state.                           *)
LEMMA StateUpdates ==
  ASSUME NEW s \in State
  PROVE  /\ \A t \in Nat : [s EXCEPT !.turns = t] \in State
         /\ \A c \in {"unset", "no", "yes"} : [s EXCEPT !.closed = c] \in State
         /\ \A o \in BOOLEAN : [s EXCEPT !.old = o] \in State
         /\ \A t \in Nat : [s EXCEPT !.turns = t, !.old = FALSE] \in State
  BY DEF State

(* An exchange is numbered by a number.                                    *)
LEMMA NumberType ==
  ASSUME Typing, NEW e \in Exchanges
  PROVE  Number(e) \in Nat
  BY StateRecords DEF Typing, PlaceTypes, CountTypes, StateTypes, Number

(* The typing, which every action preserves part by part.                  *)
LEMMA TypingInit == Init => Typing
  <1> SUFFICES ASSUME Init PROVE Typing
    OBVIOUS
  <1>1. PlaceTypes
    BY DEF Init, PlaceTypes
  <1>2. CountTypes
    BY TurnsAssumption DEF Init, CountTypes, TurnsAssumption
  <1>3. StateTypes
    BY StateRecords DEF Init, StateTypes
  <1>4. PlaceInv
    BY DEF Init, PlaceInv, Turn
  <1>5. QED
    BY <1>1, <1>2, <1>3, <1>4 DEF Typing

LEMMA PlaceTypesStep == Typing /\ [Next]_vars => PlaceTypes'
  <1> SUFFICES ASSUME PlaceTypes, [Next]_vars PROVE PlaceTypes'
    BY DEF Typing
  <1> USE DEF PlaceTypes, Turn, threadVars, lockVars, answerVars
  <1>1. ASSUME NEW e \in Exchanges, Begin(e) \/ Open(e) PROVE PlaceTypes'
    BY <1>1 DEF Begin, Open, Goto
  <1>2. ASSUME NEW e \in Exchanges, LoadSession(e) PROVE PlaceTypes'
    <2>1. tracked' \in Exchanges /\ held' = [held EXCEPT ![e] = tracked']
      BY <1>2 DEF LoadSession, Enter
    <2>2. reply' = reply /\ pc' = [pc EXCEPT ![e] = "queued"]
      BY <1>2 DEF LoadSession, Goto
    <2>3. ahead' = [ahead EXCEPT ![e] = tail] /\ tail' = e
      BY <1>2 DEF LoadSession
    <2>4. QED
      BY <2>1, <2>2, <2>3
  <1>3. ASSUME NEW e \in Exchanges, LoadAborted(e) PROVE PlaceTypes'
    BY <1>3 DEF LoadAborted, Leave, Goto
  <1>4. ASSUME NEW e \in Exchanges, TakeTurn(e) PROVE PlaceTypes'
    BY <1>4 DEF TakeTurn, Replied, Release, Goto
  <1>5. ASSUME NEW e \in Exchanges, Answer(e) \/ Condensed(e) PROVE PlaceTypes'
    BY <1>5 DEF Answer, Condensed, Replied, Release, Goto
  <1>6. ASSUME NEW e \in Exchanges, Throws(e) PROVE PlaceTypes'
    BY <1>6 DEF Throws, Release, Goto
  <1>7. ASSUME NEW e \in Exchanges, Persist(e) \/ SaveExchange(e) PROVE PlaceTypes'
    BY <1>7 DEF Persist, SaveExchange, Goto
  <1>8. ASSUME NEW e \in Exchanges, Withdraw(e) \/ Post(e) PROVE PlaceTypes'
    BY <1>8 DEF Withdraw, Post, Leave, Goto
  <1>9. CASE Settling \/ StoreAlone \/ OtherCleanup \/ Evict \/ DayPasses \/ UNCHANGED vars
    <2>1. UNCHANGED <<pc, reply, tail, held, ahead>> /\ (tracked' = tracked \/ tracked' = Nobody)
      BY <1>9 DEF Settling, StoreAlone, OtherCleanup, Evict, DayPasses, vars
    <2>2. QED
      BY <2>1
  <1>10. CASE Restart
    BY <1>10 DEF Restart
  <1>11. QED
    BY <1>1, <1>2, <1>3, <1>4, <1>5, <1>6, <1>7, <1>8, <1>9, <1>10 DEF Next, Step

LEMMA CountTypesStep == Typing /\ [Next]_vars => CountTypes'
  <1> SUFFICES ASSUME Typing, [Next]_vars PROVE CountTypes'
    OBVIOUS
  <1> USE DEF CountTypes, answerVars, history
  <1>1. CountTypes
    BY DEF Typing
  <1>2. ASSUME NEW e \in Exchanges, Persist(e) PROVE CountTypes'
    BY <1>1, <1>2, NumberType DEF Persist
  <1>3. ASSUME NEW e \in Exchanges, LoadSession(e) PROVE CountTypes'
    <2>1. PICK found \in {row, NoRow} : prior' = [prior EXCEPT ![e] = found.turns]
      BY <1>3 DEF LoadSession
    <2>2. found.turns \in Nat
      BY StateRecords DEF Typing, StateTypes
    <2>3. UNCHANGED <<number, maxTurns, replies, closings>>
      BY <1>3 DEF LoadSession
    <2>4. QED
      BY <1>1, <2>1, <2>2, <2>3
  <1>4. ASSUME NEW e \in Exchanges, Answer(e) \/ Condensed(e) \/ Post(e) PROVE CountTypes'
    <2>1. UNCHANGED <<number, prior, maxTurns>>
      BY <1>4 DEF Answer, Condensed, Post
    <2>2. replies' \in {replies, replies + 1} /\ closings' \in {closings, closings + 1, closings + 0}
      BY <1>4 DEF Answer, Condensed, Post, Count
    <2>3. QED
      BY <1>1, <2>1, <2>2
  <1>5. ASSUME NEW e \in Exchanges,
               \/ Begin(e) \/ Open(e) \/ LoadAborted(e) \/ TakeTurn(e) \/ Throws(e)
               \/ Withdraw(e) \/ SaveExchange(e)
        PROVE  CountTypes'
    <2>1. UNCHANGED <<number, prior, maxTurns, replies, closings>>
      BY <1>5 DEF Begin, Open, LoadAborted, TakeTurn, Throws, Withdraw, SaveExchange
    <2>2. QED
      BY <1>1, <2>1
  <1>6. CASE \/ Settling \/ StoreAlone \/ OtherCleanup \/ Evict \/ DayPasses \/ Restart
             \/ UNCHANGED vars
    <2>1. UNCHANGED <<number, prior, maxTurns, replies, closings>>
      BY <1>6 DEF Settling, StoreAlone, OtherCleanup, Evict, DayPasses, Restart, vars
    <2>2. QED
      BY <1>1, <2>1
  <1>7. QED
    BY <1>2, <1>3, <1>4, <1>5, <1>6 DEF Next, Step

LEMMA StateTypesStep == Typing /\ [Next]_vars => StateTypes'
  <1> SUFFICES ASSUME Typing, [Next]_vars PROVE StateTypes'
    OBVIOUS
  <1> USE DEF StateTypes, threadVars, answerVars, rowVars
  <1>1. StateTypes /\ PlaceTypes
    BY DEF Typing
  <1>2. ASSUME NEW e \in Exchanges, Open(e) PROVE StateTypes'
    BY <1>1, <1>2, StateRecords DEF Open
  <1>3. ASSUME NEW e \in Exchanges, LoadSession(e) PROVE StateTypes'
    <2>1. PICK found \in {row, NoRow} : Enter(e, found)
      BY <1>3 DEF LoadSession
    <2>2. Restore(found, e) \in State
      BY <1>1, <2>1, StateRecords DEF Restore, PlaceTypes
    <2>3. object' \in [Exchanges -> State]
      BY <1>1, <2>1, <2>2, StateRecords DEF Enter
    <2>4. UNCHANGED <<patch, row, saves>>
      BY <1>3 DEF LoadSession
    <2>5. QED
      BY <1>1, <2>3, <2>4
  <1>4. ASSUME NEW e \in Exchanges, LoadAborted(e) PROVE StateTypes'
    <2>1. object' = object \/ (row # NoRow /\ object' = [object EXCEPT ![e] = row])
      BY <1>4 DEF LoadAborted
    <2>2. UNCHANGED <<patch, row, saves>>
      BY <1>4 DEF LoadAborted
    <2>3. QED
      BY <1>1, <2>1, <2>2
  <1>5. ASSUME NEW e \in Exchanges, TakeTurn(e) \/ Answer(e) \/ Condensed(e) PROVE StateTypes'
    <2>1. held[e] \in Exchanges
      BY <1>5 DEF TakeTurn, Answer, Condensed, Typing, PlaceInv, Turn
    <2>2. \/ object' = object
          \/ object' = [object EXCEPT ![held[e]] = [object[held[e]] EXCEPT !.closed = "yes"]]
          \/ object' = [object EXCEPT ![held[e]] =
                          [object[held[e]] EXCEPT !.turns = object[held[e]].turns + 1, !.old = FALSE]]
      BY <1>1, <1>5, <2>1 DEF TakeTurn, Answer, Condensed, Count
    <2>3. object[held[e]] \in State /\ object[held[e]].turns + 1 \in Nat
      BY <1>1, <2>1, StateRecords
    <2>4. object' \in [Exchanges -> State]
      <3>1. [object[held[e]] EXCEPT !.closed = "yes"] \in State
        BY <2>3, StateUpdates
      <3>2. [object[held[e]] EXCEPT !.turns = object[held[e]].turns + 1, !.old = FALSE] \in State
        BY <2>3, StateUpdates
      <3>3. PICK state \in State : object' = object \/ object' = [object EXCEPT ![held[e]] = state]
        BY <2>2, <2>3, <3>1, <3>2
      <3>4. QED
        BY <1>1, <3>3
    <2>5. UNCHANGED <<patch, row, saves>>
      BY <1>5 DEF TakeTurn, Answer, Condensed
    <2>6. QED
      BY <1>1, <2>4, <2>5
  <1>6. ASSUME NEW e \in Exchanges, Persist(e) PROVE StateTypes'
    <2> DEFINE kept == IF tracked = Nobody THEN Fresh ELSE object[tracked]
    <2>1. kept \in State
      BY <1>1, StateRecords DEF PlaceTypes
    <2>2. patch' = [patch EXCEPT ![e] = [kept EXCEPT !.turns = Number(e)]]
      BY <1>6 DEF Persist
    <2> HIDE DEF kept
    <2>3. [kept EXCEPT !.turns = Number(e)] \in State
      BY <2>1, NumberType, StateUpdates
    <2>4. patch' \in [Exchanges -> State]
      BY <1>1, <2>2, <2>3
    <2>5. saves' \in Seq(Exchanges) /\ UNCHANGED <<object, row>>
      BY <1>1, <1>6 DEF Persist
    <2>6. QED
      BY <1>1, <2>4, <2>5
  <1>7. ASSUME NEW e \in Exchanges, SaveExchange(e) PROVE StateTypes'
    <2>1. row' \in State \union {NoRow}
      <3>1. CASE row' = row
        BY <1>1, <3>1
      <3>2. CASE row' # row
        <4> DEFINE closed == IF patch[e].closed = "unset" THEN row.closed ELSE patch[e].closed
        <4>1. row # NoRow /\ row' = [patch[e] EXCEPT !.closed = closed]
          BY <1>7, <3>2 DEF SaveExchange
        <4>2. closed \in {"unset", "no", "yes"} /\ patch[e] \in State
          BY <1>1, <4>1, StateRecords
        <4> HIDE DEF closed
        <4>3. QED
          BY <4>1, <4>2, StateUpdates
      <3>3. QED
        BY <3>1, <3>2
    <2>2. patch' \in [Exchanges -> State] /\ saves' \in Seq(Exchanges) /\ object' = object
      BY <1>1, <1>7, StateRecords DEF SaveExchange
    <2>3. QED
      BY <1>1, <2>1, <2>2
  <1>8. CASE DayPasses
    <2>1. object' \in [Exchanges -> State]
      <3>1. ASSUME NEW e \in Exchanges
            PROVE  [object[e] EXCEPT !.old = (tracked = e) \/ object[e].old] \in State
        <4>1. object[e] \in State /\ ((tracked = e) \/ object[e].old) \in BOOLEAN
          BY <1>1, StateRecords
        <4>2. QED
          BY <4>1, StateUpdates
      <3>2. QED
        BY <1>8, <3>1 DEF DayPasses
    <2>2. row' \in State \union {NoRow}
      BY <1>1, <1>8, StateUpdates DEF DayPasses
    <2>3. QED
      BY <1>1, <1>8, <2>1, <2>2 DEF DayPasses
  <1>9. ASSUME NEW e \in Exchanges, Begin(e) \/ Throws(e) \/ Withdraw(e) \/ Post(e)
        PROVE  StateTypes'
    BY <1>1, <1>9 DEF Begin, Throws, Withdraw, Post
  <1>10. CASE Settling \/ StoreAlone \/ OtherCleanup \/ Evict \/ UNCHANGED vars
    BY <1>1, <1>10 DEF Settling, StoreAlone, OtherCleanup, Evict, vars
  <1>11. CASE Restart
    BY <1>1, <1>11 DEF Restart
  <1>12. QED
    BY <1>2, <1>3, <1>4, <1>5, <1>6, <1>7, <1>8, <1>9, <1>10, <1>11 DEF Next, Step

LEMMA PlaceInvStep == Typing /\ [Next]_vars => PlaceInv'
  <1> SUFFICES ASSUME Typing, [Next]_vars PROVE PlaceInv'
    OBVIOUS
  <1> USE DEF PlaceInv, Turn, Unanswered
  <1>1. PlaceTypes /\ PlaceInv /\ number \in [Exchanges -> Nat]
    BY DEF Typing, CountTypes
  <1>2. ASSUME NEW e \in Exchanges, Begin(e) \/ Open(e) \/ LoadAborted(e) PROVE PlaceInv'
    <2>1. UNCHANGED <<reply, number, held>>
      BY <1>2 DEF Begin, Open, LoadAborted, answerVars, threadVars
    <2>2. \E place \in {"open", "load", "done"} : pc' = [pc EXCEPT ![e] = place]
      BY <1>2 DEF Begin, Open, LoadAborted, Leave, Goto
    <2>3. pc[e] \in {"new", "open", "load"}
      BY <1>2 DEF Begin, Open, LoadAborted
    <2>4. QED
      BY <1>1, <2>1, <2>2, <2>3 DEF PlaceTypes
  <1>3. ASSUME NEW e \in Exchanges, LoadSession(e) PROVE PlaceInv'
    <2>1. tracked' \in Exchanges /\ held' = [held EXCEPT ![e] = tracked']
      BY <1>1, <1>3 DEF LoadSession, Enter, PlaceTypes
    <2>2. /\ reply' = reply /\ pc[e] = "load" /\ pc' = [pc EXCEPT ![e] = "queued"]
          /\ number' = number
      BY <1>3 DEF LoadSession, Goto
    <2>3. QED
      BY <1>1, <2>1, <2>2 DEF PlaceTypes
  <1>4. ASSUME NEW e \in Exchanges, TakeTurn(e) \/ Answer(e) \/ Condensed(e) \/ Throws(e)
        PROVE  PlaceInv'
    <2>1. UNCHANGED <<number, held>> /\ pc[e] \in Turn
      BY <1>4 DEF TakeTurn, Answer, Condensed, Throws
    <2>2. \/ reply' = reply /\ \E place \in Turn : pc' = [pc EXCEPT ![e] = place]
          \/ /\ \E r : reply' = [reply EXCEPT ![e] = r]
             /\ \E place \in {"answered", "posting"} : pc' = [pc EXCEPT ![e] = place]
      BY <1>4 DEF TakeTurn, Answer, Condensed, Throws, Replied, Goto
    <2>3. QED
      BY <1>1, <2>1, <2>2 DEF PlaceTypes
  <1>5. ASSUME NEW e \in Exchanges, Persist(e) PROVE PlaceInv'
    <2>1. pc[e] = "answered" /\ pc' = [pc EXCEPT ![e] = "saving"] /\ reply' = reply
      BY <1>5 DEF Persist, Goto
    <2>2. \A d \in Exchanges \ {e} : number'[d] = number[d] /\ held'[d] = held[d]
      BY <1>1, <1>5 DEF Persist, PlaceTypes
    <2>3. QED
      BY <1>1, <2>1, <2>2 DEF PlaceTypes
  <1>6. ASSUME NEW e \in Exchanges, Withdraw(e) \/ SaveExchange(e) \/ Post(e) PROVE PlaceInv'
    <2>1. UNCHANGED <<reply, number, held>>
      BY <1>6 DEF Withdraw, SaveExchange, Post, answerVars, threadVars
    <2>2. \E place \in {"posting", "done"} : pc' = [pc EXCEPT ![e] = place]
      BY <1>6 DEF Withdraw, SaveExchange, Post, Leave, Goto
    <2>3. QED
      BY <1>1, <2>1, <2>2 DEF PlaceTypes
  <1>7. CASE Settling \/ StoreAlone \/ OtherCleanup \/ Evict \/ DayPasses \/ UNCHANGED vars
    <2>1. UNCHANGED <<pc, reply, number, held>>
      BY <1>7 DEF Settling, StoreAlone, OtherCleanup, Evict, DayPasses, vars, answerVars, threadVars
    <2>2. QED
      BY <1>1, <2>1
  <1>8. CASE Restart
    <2>1. UNCHANGED <<reply, number>>
      BY <1>8 DEF Restart, answerVars
    <2>2. \A d \in Exchanges : pc'[d] \in {"new", "done", "lost"} /\ (pc'[d] = "new" => pc[d] = "new")
      BY <1>8 DEF Restart
    <2>3. QED
      BY <1>1, <2>1, <2>2
  <1>9. QED
    BY <1>2, <1>3, <1>4, <1>5, <1>6, <1>7, <1>8 DEF Next, Step

(* So the typing always holds.                                             *)
LEMMA TypingAlways == Spec => []Typing
  <1>1. Typing /\ [Next]_vars => Typing'
    BY PlaceTypesStep, CountTypesStep, StateTypesStep, PlaceInvStep DEF Typing
  <1>2. QED
    BY TypingInit, <1>1, PTL DEF Spec

(* The variables keep their types.                                         *)
THEOREM ConversationTypes == Spec => []TypeOK
  <1>1. ConnectionInv /\ FlagInv /\ Typing => TypeOK
    <2> SUFFICES ASSUME ConnectionInv, FlagInv, Typing PROVE TypeOK
      OBVIOUS
    <2>1. StoreTypeOK
      BY StoreTypes
    <2>2. PlaceTypes /\ CountTypes /\ StateTypes
      BY DEF Typing
    <2>3. pc \in [Exchanges -> {"new", "open", "load", "queued", "asking", "condensing",
                               "answered", "saving", "posting", "done", "lost"}]
      BY <2>2 DEF PlaceTypes, Turn
    <2>4. QED
      BY <2>1, <2>2, <2>3 DEF PlaceTypes, CountTypes, StateTypes, TypeOK
  <1>2. QED
    BY ConnectionAlways, TypingAlways, <1>1, PTL

(***************************************************************************)
(* The queue of a thread.                                                  *)
(***************************************************************************)
(* What a step may do to the queue: an exchange joins at the end, or       *)
(* leaves and lets the next one go, or goes on in its turn, or nothing     *)
(* happens to it, or it is gone.                                           *)
Joins(e) ==
  /\ pc[e] \notin Turn
  /\ pc' = [pc EXCEPT ![e] = "queued"]
  /\ ahead' = [ahead EXCEPT ![e] = tail] /\ tail' = e

Leaves(e) ==
  /\ pc[e] \in Turn /\ (pc[e] = "queued" => ahead[e] = Nobody)
  /\ \E place \in {"answered", "posting"} : pc' = [pc EXCEPT ![e] = place]
  /\ Release(e)

Proceeds(e) ==
  /\ pc[e] \in Turn /\ (pc[e] = "queued" => ahead[e] = Nobody)
  /\ \E place \in Turn : pc' = [pc EXCEPT ![e] = place]
  /\ UNCHANGED lockVars

Passes ==
  /\ \A e \in Exchanges : pc'[e] = pc[e] \/ {pc[e], pc'[e]} \intersect Turn = {}
  /\ UNCHANGED lockVars

Empties ==
  /\ \A e \in Exchanges : pc'[e] \notin Turn
  /\ tail' = Nobody

LEMMA QueueSteps ==
  ASSUME PlaceTypes, [Next]_vars
  PROVE  \/ \E e \in Exchanges : Joins(e) \/ Leaves(e) \/ Proceeds(e)
         \/ Passes
         \/ Empties
  <1> USE DEF Turn, Goto
  <1>1. ASSUME NEW e \in Exchanges, LoadSession(e) PROVE Joins(e)
    BY <1>1 DEF LoadSession, Joins
  <1>2. ASSUME NEW e \in Exchanges, TakeTurn(e) \/ Answer(e) \/ Condensed(e) \/ Throws(e)
        PROVE  Leaves(e) \/ Proceeds(e)
    BY <1>2 DEF TakeTurn, Answer, Condensed, Throws, Replied, Leaves, Proceeds
  <1>3. ASSUME NEW e \in Exchanges,
               \/ Begin(e) \/ Open(e) \/ LoadAborted(e)
               \/ Persist(e) \/ Withdraw(e) \/ SaveExchange(e) \/ Post(e)
        PROVE  Passes
    <2>1. UNCHANGED lockVars
      BY <1>3 DEF Begin, Open, LoadAborted, Persist, Withdraw, SaveExchange, Post, threadVars
    <2>2. pc[e] \notin Turn
      BY <1>3 DEF Begin, Open, LoadAborted, Persist, Withdraw, SaveExchange, Post
    <2>3. \E place \in {"open", "load", "saving", "posting", "done"} : pc' = [pc EXCEPT ![e] = place]
      BY <1>3 DEF Begin, Open, LoadAborted, Persist, Withdraw, SaveExchange, Post, Leave
    <2>4. QED
      BY <2>1, <2>2, <2>3 DEF Passes, PlaceTypes
  <1>4. CASE Settling \/ StoreAlone \/ OtherCleanup \/ Evict \/ DayPasses \/ UNCHANGED vars
    BY <1>4 DEF Settling, StoreAlone, OtherCleanup, Evict, DayPasses, vars, threadVars, Passes
  <1>5. CASE Restart
    BY <1>5 DEF Restart, Empties
  <1>6. QED
    BY <1>1, <1>2, <1>3, <1>4, <1>5 DEF Next, Step

(* The turns form one queue: numbered without gaps from the one that is    *)
(* next to the one that came last.  That everybody waits for somebody in   *)
(* turn is not enough, since it does not say that only one goes at a time. *)
IsRanking(rank) ==
  /\ \A d, e \in InTurn : rank[d] = rank[e] => d = e
  /\ \A e \in InTurn : tail # Nobody /\ rank[e] <= rank[tail]
  /\ \A e \in InTurn : IF ahead[e] = Nobody THEN \A d \in InTurn : rank[e] <= rank[d]
                                           ELSE rank[e] = rank[ahead[e]] + 1

(* Who is waited for is in the queue.                                      *)
Waits ==
  /\ tail # Nobody => tail \in InTurn
  /\ \A e \in InTurn : ahead[e] # Nobody => pc[e] = "queued" /\ ahead[e] \in InTurn

(* The invariant of the queue: its ranking is left to be found.            *)
QueueInv == Waits /\ \E rank \in [Exchanges -> Nat] : IsRanking(rank)

(* Who is in the queue, before and after a step.                           *)
LEMMA InTurnIs == /\ \A e : e \in InTurn <=> e \in Exchanges /\ pc[e] \in Turn
                  /\ \A e : e \in InTurn' <=> e \in Exchanges /\ pc'[e] \in Turn
  BY DEF InTurn, Turn

(* Who joins ranks behind everybody.                                       *)
LEMMA JoinStep ==
  ASSUME PlaceTypes, QueueInv, NEW e \in Exchanges, Joins(e)
  PROVE  (QueueInv)'
  <1>1. PICK rank \in [Exchanges -> Nat] : IsRanking(rank)
    BY DEF QueueInv
  <1> DEFINE last == IF tail = Nobody THEN 0 ELSE rank[tail] + 1
  <1>2. /\ e \notin InTurn /\ (\A d : d \in InTurn' <=> d \in InTurn \/ d = e)
        /\ pc'[e] = "queued" /\ \A d \in InTurn : pc'[d] = pc[d]
    BY InTurnIs DEF Joins, PlaceTypes, Turn
  <1>3. /\ ahead'[e] = tail /\ tail' = e /\ e # Nobody
        /\ \A d \in InTurn : ahead'[d] = ahead[d]
    BY <1>2, NobodyAssumption DEF Joins, PlaceTypes, Exchanges
  <1>4. /\ tail # Nobody => tail \in InTurn
        /\ \A d \in InTurn : ahead[d] # Nobody => pc[d] = "queued" /\ ahead[d] \in InTurn
    BY DEF QueueInv, Waits
  <1>5. Waits'
    BY <1>2, <1>3, <1>4 DEF Waits
  <1>6. PICK new \in [Exchanges -> Nat] :
          /\ new[e] = last /\ last \in Nat
          /\ \A d \in InTurn : new[d] = rank[d] /\ rank[d] \in Nat
    <2>1. last \in Nat /\ [rank EXCEPT ![e] = last] \in [Exchanges -> Nat]
      BY DEF PlaceTypes
    <2>2. [rank EXCEPT ![e] = last][e] = last
      OBVIOUS
    <2>3. \A d \in InTurn : [rank EXCEPT ![e] = last][d] = rank[d] /\ rank[d] \in Nat
      BY <1>2, InTurnIs
    <2>4. QED
      BY <2>1, <2>2, <2>3
  <1>7. \A d \in InTurn : tail # Nobody /\ rank[d] < last
    BY <1>1, <1>6 DEF IsRanking, PlaceTypes
  <1>8. \A c, d \in InTurn' : new[c] = new[d] => c = d
    BY <1>1, <1>2, <1>6, <1>7 DEF IsRanking
  <1>9. \A d \in InTurn' : tail' # Nobody /\ new[d] <= new[tail']
    BY <1>2, <1>3, <1>6, <1>7
  <1>10. ASSUME NEW d \in InTurn'
         PROVE  IF ahead'[d] = Nobody THEN \A c \in InTurn' : new[d] <= new[c]
                                      ELSE new[d] = new[ahead'[d]] + 1
    <2>1. CASE d = e
      <3>1. CASE tail = Nobody
        <4>1. \A c \in InTurn' : c = e
          BY <1>2, <1>7, <3>1
        <4>2. QED
          BY <1>3, <1>6, <2>1, <3>1, <4>1
      <3>2. CASE tail # Nobody
        BY <1>3, <1>4, <1>6, <2>1, <3>2
      <3>3. QED
        BY <3>1, <3>2
    <2>2. CASE d # e
      <3>1. d \in InTurn /\ ahead'[d] = ahead[d] /\ new[d] = rank[d]
        BY <1>2, <1>3, <1>6, <2>2
      <3>2. CASE ahead[d] = Nobody
        <4>1. \A c \in InTurn : rank[d] <= rank[c]
          BY <1>1, <3>1, <3>2 DEF IsRanking
        <4>2. rank[d] <= new[e]
          BY <1>6, <1>7, <3>1
        <4>3. QED
          BY <1>2, <1>6, <3>1, <3>2, <4>1, <4>2
      <3>3. CASE ahead[d] # Nobody
        <4>1. rank[d] = rank[ahead[d]] + 1 /\ ahead[d] \in InTurn
          BY <1>1, <1>4, <3>1, <3>3 DEF IsRanking
        <4>2. QED
          BY <1>6, <3>1, <3>3, <4>1
      <3>4. QED
        BY <3>2, <3>3
    <2>3. QED
      BY <2>1, <2>2
  <1>11. IsRanking(new)'
    BY <1>8, <1>9, <1>10 DEF IsRanking
  <1>12. QED
    BY <1>5, <1>6, <1>11 DEF QueueInv

(* Who leaves is first, and the next one becomes it.                       *)
LEMMA LeaveStep ==
  ASSUME PlaceTypes, QueueInv, NEW e \in Exchanges, Leaves(e)
  PROVE  (QueueInv)'
  <1>1. PICK rank \in [Exchanges -> Nat] : IsRanking(rank)
    BY DEF QueueInv
  <1>2. /\ e \in InTurn /\ (\A d : d \in InTurn' <=> d \in InTurn /\ d # e)
        /\ \A d \in InTurn' : pc'[d] = pc[d]
    BY InTurnIs DEF Leaves, PlaceTypes, Turn
  <1>3. /\ tail # Nobody => tail \in InTurn
        /\ \A d \in InTurn : ahead[d] # Nobody => pc[d] = "queued" /\ ahead[d] \in InTurn
    BY DEF QueueInv, Waits
  <1>4. ahead[e] = Nobody
    BY <1>2, <1>3 DEF Leaves
  <1>5. /\ tail' = IF tail = e THEN Nobody ELSE tail
        /\ \A d \in InTurn : ahead'[d] = IF ahead[d] = e THEN Nobody ELSE ahead[d]
    BY InTurnIs DEF Leaves, Release
  <1>6. Waits'
    BY <1>2, <1>3, <1>5 DEF Waits
  <1>7. \A d \in InTurn : rank[d] \in Nat
    BY InTurnIs
  <1>8. \A d \in InTurn' : rank[e] + 1 <= rank[d]
    <2>1. \A d \in InTurn : rank[e] <= rank[d] /\ (rank[d] = rank[e] => d = e)
      BY <1>1, <1>2, <1>4 DEF IsRanking
    <2>2. QED
      BY <1>2, <1>7, <2>1
  <1>9. \A d \in InTurn' : tail # e /\ tail' # Nobody /\ rank[d] <= rank[tail']
    <2> SUFFICES ASSUME NEW d \in InTurn'
                 PROVE  tail # e /\ tail' # Nobody /\ rank[d] <= rank[tail']
      OBVIOUS
    <2>1. tail # Nobody /\ rank[d] <= rank[tail]
      BY <1>1, <1>2 DEF IsRanking
    <2>2. tail # e
      BY <1>2, <1>7, <1>8, <2>1
    <2>3. QED
      BY <1>5, <2>1, <2>2
  <1>10. ASSUME NEW d \in InTurn'
         PROVE  IF ahead'[d] = Nobody THEN \A c \in InTurn' : rank[d] <= rank[c]
                                      ELSE rank[d] = rank[ahead'[d]] + 1
    <2>1. d \in InTurn
      BY <1>2
    <2>2. CASE ahead[d] = e
      <3>1. rank[d] = rank[e] + 1
        BY <1>1, <1>2, <2>1, <2>2, NobodyAssumption DEF IsRanking, Exchanges
      <3>2. QED
        BY <1>5, <1>8, <2>1, <2>2, <3>1
    <2>3. CASE ahead[d] # e
      BY <1>1, <1>2, <1>5, <2>1, <2>3 DEF IsRanking
    <2>4. QED
      BY <2>2, <2>3
  <1>11. IsRanking(rank)'
    BY <1>1, <1>2, <1>9, <1>10 DEF IsRanking
  <1>12. QED
    BY <1>6, <1>11 DEF QueueInv

(* Every step preserves the invariant of the queue.                        *)
LEMMA QueueStep == PlaceTypes /\ QueueInv /\ [Next]_vars => QueueInv'
  <1> SUFFICES ASSUME PlaceTypes, QueueInv, [Next]_vars PROVE QueueInv'
    OBVIOUS
  <1>1. ASSUME NEW e \in Exchanges, Proceeds(e) PROVE QueueInv'
    <2>1. /\ InTurn' = InTurn /\ tail' = tail /\ ahead' = ahead
          /\ \A d \in InTurn : pc'[d] = pc[d] \/ ahead[d] = Nobody
      <3>1. \A d : d \in InTurn' <=> d \in InTurn
        BY <1>1, InTurnIs DEF Proceeds, PlaceTypes
      <3>2. \A d \in InTurn : pc'[d] = pc[d] \/ ahead[d] = Nobody
        BY <1>1, InTurnIs DEF Proceeds, PlaceTypes, QueueInv, Waits
      <3>3. QED
        BY <1>1, <3>1, <3>2 DEF Proceeds, lockVars
    <2>2. Waits'
      BY <2>1 DEF QueueInv, Waits
    <2>3. PICK rank \in [Exchanges -> Nat] : IsRanking(rank)
      BY DEF QueueInv
    <2>4. IsRanking(rank)'
      BY <2>1, <2>3 DEF IsRanking
    <2>5. QED
      BY <2>2, <2>4 DEF QueueInv
  <1>2. CASE Passes
    <2>1. InTurn' = InTurn /\ tail' = tail /\ ahead' = ahead /\ \A d \in InTurn : pc'[d] = pc[d]
      <3>1. \A d : d \in InTurn' <=> d \in InTurn
        BY <1>2, InTurnIs DEF Passes
      <3>2. \A d \in InTurn : pc'[d] = pc[d]
        BY <1>2, InTurnIs DEF Passes
      <3>3. QED
        BY <1>2, <3>1, <3>2 DEF Passes, lockVars
    <2>2. Waits'
      BY <2>1 DEF QueueInv, Waits
    <2>3. PICK rank \in [Exchanges -> Nat] : IsRanking(rank)
      BY DEF QueueInv
    <2>4. IsRanking(rank)'
      BY <2>1, <2>3 DEF IsRanking
    <2>5. QED
      BY <2>2, <2>4 DEF QueueInv
  <1>3. CASE Empties
    <2>1. (\A e : e \notin InTurn') /\ tail' = Nobody
      BY <1>3, InTurnIs DEF Empties
    <2>2. Waits' /\ \A rank \in [Exchanges -> Nat] : IsRanking(rank)'
      BY <2>1 DEF Waits, IsRanking
    <2>3. [e \in Exchanges |-> 0] \in [Exchanges -> Nat]
      OBVIOUS
    <2>4. QED
      BY <2>2, <2>3 DEF QueueInv
  <1>4. QED
    BY <1>1, <1>2, <1>3, QueueSteps, JoinStep, LeaveStep

LEMMA QueueAlways == Spec => []QueueInv
  <1>1. Init => QueueInv
    <2> SUFFICES ASSUME Init PROVE QueueInv
      OBVIOUS
    <2>1. (\A e : e \notin InTurn) /\ tail = Nobody
      BY DEF Init, InTurn
    <2>2. Waits /\ \A rank \in [Exchanges -> Nat] : IsRanking(rank)
      BY <2>1 DEF Waits, IsRanking
    <2>3. [e \in Exchanges |-> 0] \in [Exchanges -> Nat]
      OBVIOUS
    <2>4. QED
      BY <2>2, <2>3 DEF QueueInv
  <1>2. Typing => PlaceTypes
    BY DEF Typing
  <1>3. QED
    BY <1>1, <1>2, TypingAlways, QueueStep, PTL DEF Spec

(* Whoever ranks lowest waits for nobody.                                  *)
LEMMA SomebodyFirst ==
  ASSUME QueueInv, InTurn # {}
  PROVE  \E e \in InTurn : ahead[e] = Nobody
  <1>1. PICK rank \in [Exchanges -> Nat] : IsRanking(rank)
    BY DEF QueueInv
  <1> DEFINE ranks == {rank[e] : e \in InTurn}
  <1>2. ranks \subseteq Nat /\ ranks # {}
    BY <1>1 DEF InTurn
  <1>3. PICK m \in ranks : \A n \in ranks : ~ (<<n, m>> \in OpToRel(<, Nat))
    <2> HIDE DEF ranks
    <2>1. QED
      BY <1>2, WFMin, NatLessThanWellFounded
  <1>4. PICK e \in InTurn : rank[e] = m
    OBVIOUS
  <1>5. ASSUME ahead[e] # Nobody
        PROVE  FALSE
    <2>1. ahead[e] \in InTurn /\ rank[e] = rank[ahead[e]] + 1
      BY <1>1, <1>4, <1>5 DEF QueueInv, Waits, IsRanking
    <2>2. rank[ahead[e]] \in ranks
      BY <2>1
    <2>3. rank[ahead[e]] \in Nat /\ m \in Nat /\ rank[ahead[e]] < m
      <3>1. rank \in [Exchanges -> Nat] /\ e \in Exchanges /\ ahead[e] \in Exchanges
        BY <2>1 DEF InTurn
      <3> HIDE DEF ranks
      <3>2. QED
        BY <1>4, <2>1, <3>1
    <2> HIDE DEF ranks
    <2>4. <<rank[ahead[e]], m>> \in OpToRel(<, Nat)
      BY <2>3 DEF OpToRel
    <2>5. QED
      BY <1>3, <2>2, <2>4, Zenon
  <1>6. QED
    BY <1>5

(* No turn waits behind a lock that is never given back, and none in a     *)
(* circle: somebody is always first.                                       *)
THEOREM QueueMovesHolds == Spec => []QueueMoves
  <1>1. QueueInv => QueueMoves
    BY SomebodyFirst DEF QueueInv, Waits, QueueMoves
  <1>2. QED
    BY QueueAlways, <1>1, PTL

(* Only one exchange at a time is past the queue.                          *)
LEMMA OneInTurn ==
  ASSUME PlaceTypes, QueueInv, NEW d \in InTurn, NEW e \in InTurn,
         ahead[d] = Nobody, ahead[e] = Nobody
  PROVE  d = e
  <1>1. PICK rank \in [Exchanges -> Nat] : IsRanking(rank)
    BY DEF QueueInv
  <1>2. rank[d] <= rank[e] /\ rank[e] <= rank[d] /\ rank[d] \in Nat /\ rank[e] \in Nat
    BY <1>1, InTurnIs DEF IsRanking
  <1>3. QED
    BY <1>1, <1>2 DEF IsRanking

(***************************************************************************)
(* What is known of the thread.                                            *)
(***************************************************************************)
(* The state that the next turn will start from.                           *)
Known == IF tracked = Nobody THEN row ELSE object[tracked]

(* As long as nothing has been forgotten, it has every answer, and whoever *)
(* is under way works on it.                                               *)
MemoryInv ==
  /\ replies = Known.turns
  /\ \A e \in Exchanges : pc[e] \in Turn \union {"answered", "saving"} => tracked # Nobody
  /\ \A e \in Exchanges : pc[e] \in Turn \union {"answered"} =>
       held[e] = tracked /\ ~object[tracked].old

(* Steps that neither count a turn nor close the thread.                   *)
Keeps == /\ Known'.turns = Known.turns
         /\ Known'.closed = "yes" <=> Known.closed = "yes"
         /\ replies' = replies

(* A load finds the thread as it is known, or forgets it.                  *)
LEMMA EnterKnown ==
  ASSUME Typing, MemoryInv, NEW e \in Exchanges, NEW found \in {row, NoRow},
         Enter(e, found), ~forgotten'
  PROVE  /\ tracked' \in Exchanges /\ held' = [held EXCEPT ![e] = tracked']
         /\ object'[tracked'].turns = Known.turns
         /\ object'[tracked'].closed = "yes" <=> Known.closed = "yes"
         /\ ~object'[tracked'].old
         /\ \A d \in Exchanges : pc[d] \in Turn \union {"answered"} =>
              tracked' = tracked /\ object'[tracked'] = object[tracked]
  <1> DEFINE state == Restore(found, e)
             mine  == tracked = Nobody \/ state.old
  <1>1. /\ tracked' = IF mine THEN e ELSE tracked
        /\ held' = [held EXCEPT ![e] = tracked']
        /\ object' = IF mine THEN [object EXCEPT ![e] = IF state.old THEN Fresh ELSE state]
                             ELSE object
    BY DEF Enter
  <1>2. /\ ~(state.old /\ (state.turns > 0 \/ state.closed = "yes"))
        /\ ~(tracked = Nobody /\ found = NoRow /\ (row.turns > 0 \/ row.closed = "yes"))
    BY DEF Enter
  <1>3. /\ object \in [Exchanges -> State] /\ row \in State \union {NoRow}
        /\ tracked \in Exchanges \union {Nobody}
    BY DEF Typing, StateTypes, PlaceTypes
  <1>4. state \in State
    BY <1>3, StateRecords DEF Restore
  <1>5. state.turns = Known.turns /\ (state.closed = "yes" <=> Known.closed = "yes")
    <2>1. CASE tracked # Nobody
      BY <2>1 DEF Restore, Known
    <2>2. CASE tracked = Nobody /\ found # NoRow
      BY <2>2 DEF Restore, Known
    <2>3. CASE tracked = Nobody /\ found = NoRow
      <3>1. state = Fresh /\ Known = row
        BY <2>3 DEF Restore, Known
      <3>2. row.turns \in Nat
        BY <1>3, StateRecords
      <3>3. row.turns = 0 /\ row.closed # "yes"
        BY <1>2, <2>3, <3>2
      <3>4. QED
        BY <3>1, <3>3, StateRecords
    <2>4. QED
      BY <2>1, <2>2, <2>3
  <1> HIDE DEF state
  <1>6. state.old => state.turns = 0 /\ state.closed # "yes"
    <2>1. state.turns \in Nat
      BY <1>4, StateRecords
    <2>2. QED
      BY <1>2, <2>1
  <1>7. CASE mine
    <2>1. tracked' = e /\ object'[tracked'] = IF state.old THEN Fresh ELSE state
      BY <1>1, <1>3, <1>7
    <2>2. \A d \in Exchanges : pc[d] \notin Turn \union {"answered"}
      <3>1. CASE tracked = Nobody
        BY <3>1 DEF MemoryInv
      <3>2. CASE tracked # Nobody
        <4>1. state.old /\ state = object[tracked]
          BY <1>7, <3>2 DEF state, Restore
        <4>2. QED
          BY <4>1 DEF MemoryInv
      <3>3. QED
        BY <3>1, <3>2
    <2>3. CASE state.old
      <3>1. object'[tracked'] = Fresh
        BY <2>1, <2>3
      <3>2. QED
        BY <1>1, <1>5, <1>6, <2>1, <2>2, <2>3, <3>1, StateRecords
    <2>4. CASE ~state.old
      <3>1. object'[tracked'] = state
        BY <2>1, <2>4
      <3>2. QED
        BY <1>1, <1>5, <2>1, <2>2, <2>4, <3>1
    <2>5. QED
      BY <2>3, <2>4
  <1>8. CASE ~mine
    <2>1. tracked' = tracked /\ tracked \in Exchanges /\ object' = object /\ ~state.old
      BY <1>1, <1>3, <1>8
    <2>2. state = object[tracked]
      BY <1>8 DEF state, Restore
    <2>3. QED
      BY <1>1, <1>5, <2>1, <2>2
  <1>9. QED
    BY <1>7, <1>8

(* When the state is dropped and nothing is lost by it, the row is all     *)
(* there is to know, and nobody is under way.                              *)
LEMMA DropKnown ==
  ASSUME Typing, MemoryInv, tracked' = Nobody, row' = row, ~Unsaved, replies' = replies
  PROVE  /\ Keeps
         /\ \A e \in Exchanges : pc[e] \notin Turn \union {"answered", "saving"}
  <1>1. \A e \in Exchanges : pc[e] # "saving"
    BY DEF Unsaved
  <1>2. Known' = row
    BY DEF Known
  <1>3. CASE tracked = Nobody
    BY <1>1, <1>2, <1>3 DEF Known, Keeps, MemoryInv
  <1>4. CASE tracked # Nobody
    <2>1. /\ Holding(tracked) = {} /\ object[tracked].turns = row.turns
          /\ object[tracked].closed = "yes" <=> row.closed = "yes"
      BY <1>4 DEF Unsaved
    <2>2. \A e \in Exchanges : pc[e] \notin Turn \union {"answered"}
      <3> SUFFICES ASSUME NEW e \in Exchanges, pc[e] \in Turn \union {"answered"}
                   PROVE  FALSE
        OBVIOUS
      <3>1. e \in Holding(tracked)
        BY DEF Holding, MemoryInv, Turn
      <3>2. QED
        BY <2>1, <3>1
    <2>3. QED
      BY <1>1, <1>2, <1>4, <2>1, <2>2 DEF Known, Keeps
  <1>5. QED
    BY <1>3, <1>4

(* An answer is counted; the thread is closed.                             *)
Answers(e) ==
  /\ pc[e] \in {"asking", "condensing"}
  /\ reply' = [reply EXCEPT ![e] = "text"] /\ pc' = [pc EXCEPT ![e] = "answered"]
  /\ Known'.turns = Known.turns + 1 /\ replies' = replies + 1
  /\ Known'.closed = "yes" <=> Known.closed = "yes"

ClosesThread(e) ==
  /\ pc[e] = "queued" /\ Known.closed # "yes"
  /\ reply' = [reply EXCEPT ![e] = "close"] /\ pc' = [pc EXCEPT ![e] = "answered"]
  /\ Known'.turns = Known.turns /\ replies' = replies
  /\ Known'.closed = "yes"

(* A turn under way changes the state that is known.                       *)
LEMMA TurnKnown ==
  ASSUME Typing, MemoryInv, NEW e \in Exchanges, pc[e] \in Turn, tracked' = tracked
  PROVE  /\ held[e] = tracked /\ tracked \in Exchanges /\ tracked # Nobody
         /\ Known = object[tracked] /\ Known \in State /\ ~Known.old
         /\ Known' = object'[tracked]
  BY NobodyAssumption DEF Typing, PlaceTypes, StateTypes, MemoryInv, Known, Exchanges

(* A turn that begins closes the thread or keeps what is known.            *)
LEMMA TakeTurnMemory ==
  ASSUME Typing, MemoryInv, NEW e \in Exchanges, TakeTurn(e)
  PROVE  MemoryInv' /\ (ClosesThread(e) \/ (Keeps /\ reply'[e] # "close"))
  <1>1. /\ UNCHANGED <<tracked, held, replies>>
        /\ pc[e] = "queued" /\ pc[e] \in Turn
    BY DEF TakeTurn, history, Turn
  <1>2. /\ held[e] = tracked /\ tracked \in Exchanges /\ tracked # Nobody
        /\ Known = object[tracked] /\ Known \in State /\ ~Known.old
        /\ Known' = object'[tracked]
    BY <1>1, TurnKnown
  <1>3. /\ pc \in [Exchanges -> {"new", "open", "load", "answered", "saving", "posting", "done",
                                 "lost"} \union Turn]
        /\ object \in [Exchanges -> State]
    BY DEF Typing, PlaceTypes, StateTypes
  <1>4. CASE object' = object
    <2>1. Keeps
      BY <1>1, <1>2, <1>4 DEF Keeps
    <2>2. \E place \in {"answered", "asking"} : pc' = [pc EXCEPT ![e] = place]
      BY DEF TakeTurn, Replied, Goto
    <2>3. \A d \in Exchanges : pc'[d] \in Turn \union {"answered", "saving"}
                             => pc[d] \in Turn \union {"answered", "saving"}
      BY <1>1, <1>3, <2>2
    <2>4. \A d \in Exchanges : pc'[d] \in Turn \union {"answered"}
                             => pc[d] \in Turn \union {"answered"}
      BY <1>1, <1>3, <2>2
    <2>5. MemoryInv'
      BY <1>1, <1>2, <1>4, <2>1, <2>3, <2>4 DEF MemoryInv, Keeps
    <2>6. reply'[e] # "close"
      <3>1. reply[e] = "none" /\ reply \in [Exchanges -> {"none", "silent", "text", "error", "close"}]
        BY <1>1 DEF Typing, PlaceTypes, PlaceInv, Unanswered
      <3>2. object' # [object EXCEPT ![tracked].closed = "yes"] \/ Known.closed = "yes"
        BY <1>2, <1>3, <1>4 DEF State
      <3>3. reply' = reply \/ reply' = [reply EXCEPT ![e] = "silent"]
        BY <1>2, <3>2 DEF TakeTurn, Replied
      <3>4. QED
        BY <3>1, <3>3
    <2>7. QED
      BY <2>1, <2>5, <2>6
  <1>5. CASE object' # object
    <2>1. /\ object' = [object EXCEPT ![tracked] = [object[tracked] EXCEPT !.closed = "yes"]]
          /\ Known.closed # "yes"
          /\ reply' = [reply EXCEPT ![e] = "close"] /\ pc' = [pc EXCEPT ![e] = "answered"]
      BY <1>2, <1>3, <1>5 DEF TakeTurn, Replied, Goto
    <2>2. Known' = [Known EXCEPT !.closed = "yes"]
      BY <1>2, <1>3, <2>1
    <2>3. Known'.turns = Known.turns /\ Known'.closed = "yes" /\ Known'.old = Known.old
      BY <1>2, <2>2 DEF State
    <2>4. ClosesThread(e)
      BY <1>1, <2>1, <2>3 DEF ClosesThread
    <2>5. \A d \in Exchanges : pc'[d] \in Turn \union {"answered", "saving"}
                             => pc[d] \in Turn \union {"answered", "saving"}
      BY <1>1, <1>3, <2>1
    <2>6. \A d \in Exchanges : pc'[d] \in Turn \union {"answered"}
                             => pc[d] \in Turn \union {"answered"}
      BY <1>1, <1>3, <2>1
    <2>7. ~object'[tracked].old
      BY <1>2, <2>3
    <2>8. MemoryInv'
      BY <1>1, <1>2, <2>3, <2>5, <2>6, <2>7 DEF MemoryInv
    <2>9. QED
      BY <2>4, <2>8
  <1>6. QED
    BY <1>4, <1>5

(* A turn that ends is counted, or nothing that is known has changed.      *)
LEMMA AnswerMemory ==
  ASSUME Typing, MemoryInv, NEW e \in Exchanges, Answer(e) \/ Condensed(e) \/ Throws(e)
  PROVE  MemoryInv' /\ (Keeps \/ Answers(e)) /\ reply'[e] # "close"
  <1>1. /\ UNCHANGED <<tracked, held>>
        /\ pc[e] \in {"asking", "condensing"} /\ pc[e] \in Turn
    BY DEF Answer, Condensed, Throws, Turn
  <1>2. /\ held[e] = tracked /\ tracked \in Exchanges /\ tracked # Nobody
        /\ Known = object[tracked] /\ Known \in State /\ ~Known.old
        /\ Known' = object'[tracked]
    BY <1>1, TurnKnown
  <1>3. /\ pc \in [Exchanges -> {"new", "open", "load", "answered", "saving", "posting", "done",
                                 "lost"} \union Turn]
        /\ object \in [Exchanges -> State]
    BY DEF Typing, PlaceTypes, StateTypes
  <1>4. \E place \in {"answered", "condensing", "posting"} : pc' = [pc EXCEPT ![e] = place]
    BY DEF Answer, Condensed, Throws, Replied, Goto
  <1>5. \A d \in Exchanges : pc'[d] \in Turn \union {"answered", "saving"}
                           => pc[d] \in Turn \union {"answered", "saving"}
    BY <1>1, <1>3, <1>4
  <1>6. \A d \in Exchanges : pc'[d] \in Turn \union {"answered"}
                           => pc[d] \in Turn \union {"answered"}
    BY <1>1, <1>3, <1>4
  <1>7. reply'[e] # "close"
    <2>1. reply[e] = "none" /\ reply \in [Exchanges -> {"none", "silent", "text", "error", "close"}]
      BY <1>1 DEF Typing, PlaceTypes, PlaceInv, Unanswered
    <2>2. \E r \in {reply[e], "text", "error"} : reply' = [reply EXCEPT ![e] = r]
      BY <2>1 DEF Answer, Condensed, Throws, Replied
    <2>3. QED
      BY <2>1, <2>2
  <1>8. CASE object' = object /\ replies' = replies
    <2>1. Keeps
      BY <1>2, <1>8 DEF Keeps
    <2>2. MemoryInv'
      BY <1>1, <1>2, <1>5, <1>6, <1>8, <2>1 DEF MemoryInv, Keeps
    <2>3. QED
      BY <1>7, <2>1, <2>2
  <1>9. CASE ~(object' = object /\ replies' = replies)
    <2>1. Count(e) /\ Replied(e, "text")
      BY <1>9 DEF Answer, Condensed, Throws, threadVars, history
    <2>2. /\ object' = [object EXCEPT ![tracked] =
                          [object[tracked] EXCEPT !.turns = object[tracked].turns + 1, !.old = FALSE]]
          /\ replies' = replies + 1
      BY <1>2, <1>3, <2>1 DEF Count
    <2>3. Known' = [Known EXCEPT !.turns = Known.turns + 1, !.old = FALSE]
      BY <1>2, <1>3, <2>2
    <2>4. Known'.turns = Known.turns + 1 /\ Known'.closed = Known.closed
      BY <1>2, <2>3 DEF State
    <2>5. Known'.old = FALSE
      BY <1>2, <2>3 DEF State
    <2>6. ~object'[tracked].old
      BY <1>2, <2>5
    <2>7. Answers(e)
      BY <1>1, <2>1, <2>2, <2>4 DEF Answers, Replied, Goto
    <2>8. replies' = Known'.turns
      BY <2>2, <2>4 DEF MemoryInv
    <2>9. MemoryInv'
      BY <1>1, <1>2, <1>5, <1>6, <2>6, <2>8 DEF MemoryInv
    <2>10. QED
      BY <1>7, <2>7, <2>9
  <1>10. QED
    BY <1>8, <1>9

(* Every step but these two kinds keeps what is known, unless it forgets.  *)
LEMMA MemoryStep ==
  ASSUME Typing, MemoryInv, ~forgotten', [Next]_vars
  PROVE  MemoryInv' /\ (Keeps \/ \E e \in Exchanges : Answers(e) \/ ClosesThread(e))
  <1> USE DEF threadVars, rowVars, history
  <1>1. /\ pc \in [Exchanges -> {"new", "open", "load", "answered", "saving", "posting", "done",
                                 "lost"} \union Turn]
        /\ tracked \in Exchanges \union {Nobody}
        /\ object \in [Exchanges -> State] /\ row \in State \union {NoRow}
        /\ held \in [Exchanges -> Exchanges \union {Nobody}]
    BY DEF Typing, PlaceTypes, StateTypes
  <1>2. ASSUME NEW e \in Exchanges, TakeTurn(e) PROVE MemoryInv' /\ (Keeps \/ ClosesThread(e))
    BY <1>2, TakeTurnMemory
  <1>3. ASSUME NEW e \in Exchanges, Answer(e) \/ Condensed(e) \/ Throws(e)
        PROVE  MemoryInv' /\ (Keeps \/ Answers(e))
    BY <1>3, AnswerMemory
  <1>4. ASSUME NEW e \in Exchanges, LoadSession(e) PROVE MemoryInv' /\ Keeps
    <2>1. PICK found \in {row, NoRow} : Enter(e, found)
      BY <1>4 DEF LoadSession
    <2>2. /\ tracked' \in Exchanges /\ held' = [held EXCEPT ![e] = tracked']
          /\ object'[tracked'].turns = Known.turns
          /\ object'[tracked'].closed = "yes" <=> Known.closed = "yes"
          /\ ~object'[tracked'].old
          /\ \A d \in Exchanges : pc[d] \in Turn \union {"answered"} =>
               tracked' = tracked /\ object'[tracked'] = object[tracked]
      BY <2>1, EnterKnown
    <2>3. tracked' # Nobody /\ Known' = object'[tracked'] /\ replies' = replies
      BY <1>4, <2>2, NobodyAssumption DEF Known, LoadSession, Exchanges
    <2>4. Keeps
      BY <2>2, <2>3 DEF Keeps
    <2>5. pc' = [pc EXCEPT ![e] = "queued"]
      BY <1>4 DEF LoadSession, Goto
    <2>6. ASSUME NEW d \in Exchanges, pc'[d] \in Turn \union {"answered"}
          PROVE  held'[d] = tracked'
      <3>1. CASE d = e
        BY <1>1, <2>2, <3>1
      <3>2. CASE d # e
        <4>1. pc[d] \in Turn \union {"answered"} /\ held'[d] = held[d]
          BY <1>1, <2>2, <2>5, <2>6, <3>2
        <4>2. QED
          BY <2>2, <4>1 DEF MemoryInv
      <3>3. QED
        BY <3>1, <3>2
    <2>7. MemoryInv'
      BY <2>2, <2>3, <2>4, <2>6 DEF MemoryInv, Keeps
    <2>8. QED
      BY <2>4, <2>7
  <1>5. ASSUME NEW e \in Exchanges, LoadAborted(e) PROVE MemoryInv' /\ Keeps
    <2>1. /\ held' = held /\ row' = row /\ replies' = replies
          /\ pc[e] = "load" /\ pc' = [pc EXCEPT ![e] = "done"]
      BY <1>5 DEF LoadAborted, Leave, Goto
    <2>2. \A d \in Exchanges : pc'[d] \in Turn \union {"answered", "saving"} => pc'[d] = pc[d]
      BY <1>1, <2>1 DEF Turn
    <2>3. CASE tracked' = tracked
      <3>1. object' = object
        BY <1>5, <2>3 DEF LoadAborted
      <3>2. Known' = Known
        BY <2>1, <2>3, <3>1 DEF Known
      <3>3. QED
        BY <2>1, <2>2, <2>3, <3>1, <3>2 DEF MemoryInv, Keeps
    <2>4. CASE tracked' # tracked
      <3>1. /\ tracked = Nobody /\ tracked' = e /\ row # NoRow
            /\ object' = [object EXCEPT ![e] = row]
        BY <1>5, <2>4 DEF LoadAborted
      <3>2. Known' = Known /\ e # Nobody
        BY <1>1, <3>1, NobodyAssumption DEF Known, Exchanges
      <3>3. \A d \in Exchanges : pc'[d] \notin Turn \union {"answered", "saving"}
        BY <2>2, <3>1 DEF MemoryInv
      <3>4. QED
        BY <2>1, <3>2, <3>3 DEF MemoryInv, Keeps
    <2>5. QED
      BY <2>3, <2>4
  <1>6. ASSUME NEW e \in Exchanges, Begin(e) \/ Open(e) \/ Persist(e) \/ Withdraw(e) \/ Post(e)
        PROVE  MemoryInv' /\ Keeps
    <2>1. /\ UNCHANGED <<tracked, object, replies>>
          /\ row' = row \/ (row = NoRow /\ row' = NewRow)
      BY <1>6 DEF Begin, Open, Persist, Withdraw, Post
    <2>2. Keeps
      BY <2>1, StateRecords DEF Keeps, Known
    <2>3. \E place \in {"open", "load", "saving", "done"} : pc' = [pc EXCEPT ![e] = place]
      BY <1>6 DEF Begin, Open, Persist, Withdraw, Post, Leave, Goto
    <2>4. pc'[e] = "saving" => pc[e] = "answered"
      BY <1>1, <1>6 DEF Begin, Open, Persist, Withdraw, Post, Leave, Goto
    <2>5. \A d \in Exchanges : pc'[d] \in Turn \union {"answered", "saving"}
                             => pc[d] \in Turn \union {"answered", "saving"}
      BY <1>1, <2>3, <2>4 DEF Turn
    <2>6. \A d \in Exchanges : pc'[d] \in Turn \union {"answered"}
                             => d # e /\ pc[d] \in Turn \union {"answered"}
      BY <1>1, <2>3 DEF Turn
    <2>7. \A d \in Exchanges : d # e => held'[d] = held[d]
      BY <1>1, <1>6 DEF Begin, Open, Persist, Withdraw, Post
    <2>8. MemoryInv'
      BY <2>1, <2>2, <2>5, <2>6, <2>7 DEF MemoryInv, Keeps
    <2>9. QED
      BY <2>2, <2>8
  <1>7. ASSUME NEW e \in Exchanges, SaveExchange(e) PROVE MemoryInv' /\ Keeps
    <2>1. /\ UNCHANGED <<tracked, object, held, replies>>
          /\ pc[e] = "saving" /\ pc' = [pc EXCEPT ![e] = "posting"]
      BY <1>7 DEF SaveExchange, Goto
    <2>2. tracked # Nobody
      BY <2>1 DEF MemoryInv
    <2>3. Known' = Known
      BY <2>1, <2>2 DEF Known
    <2>4. \A d \in Exchanges : pc'[d] \in Turn \union {"answered", "saving"} => pc'[d] = pc[d]
      BY <1>1, <2>1 DEF Turn
    <2>5. QED
      BY <2>1, <2>3, <2>4 DEF MemoryInv, Keeps
  <1>8. CASE Settling \/ StoreAlone \/ OtherCleanup \/ UNCHANGED vars
    <2>1. UNCHANGED <<tracked, object, held, pc, row, replies>>
      BY <1>8 DEF Settling, StoreAlone, OtherCleanup, vars
    <2>2. Known' = Known
      BY <2>1 DEF Known
    <2>3. QED
      BY <2>1, <2>2 DEF MemoryInv, Keeps
  <1>9. CASE Evict \/ Restart
    <2>1. tracked' = Nobody /\ row' = row /\ replies' = replies /\ ~Unsaved
      BY <1>9 DEF Evict, Restart
    <2>2. Keeps /\ \A e \in Exchanges : pc[e] \notin Turn \union {"answered", "saving"}
      BY <2>1, DropKnown
    <2>3. \A e \in Exchanges : pc'[e] \in {pc[e], "lost"}
      BY <1>1, <1>9 DEF Evict, Restart
    <2>4. \A e \in Exchanges : pc'[e] \notin Turn \union {"answered", "saving"}
      BY <2>2, <2>3 DEF Turn
    <2>5. QED
      BY <2>1, <2>2, <2>4 DEF MemoryInv, Keeps
  <1>10. CASE DayPasses
    <2>1. /\ UNCHANGED <<tracked, held, pc, replies>>
          /\ \A e \in Exchanges : pc[e] \in {"new", "done", "lost"}
          /\ \A e \in Exchanges : /\ object'[e].turns = object[e].turns
                                   /\ object'[e].closed = object[e].closed
          /\ row'.turns = row.turns /\ row'.closed = row.closed
      <3>1. ASSUME NEW s \in State, NEW o
            PROVE  [s EXCEPT !.old = o].turns = s.turns /\ [s EXCEPT !.old = o].closed = s.closed
        BY DEF State
      <3>2. row'.turns = row.turns /\ row'.closed = row.closed
        BY <1>1, <1>10, <3>1 DEF DayPasses
      <3>3. ASSUME NEW e \in Exchanges
            PROVE  object'[e].turns = object[e].turns /\ object'[e].closed = object[e].closed
        <4>1. object'[e] = [object[e] EXCEPT !.old = (tracked = e) \/ object[e].old]
          BY <1>10 DEF DayPasses
        <4>2. object[e] \in State
          BY <1>1
        <4>3. QED
          BY <3>1, <4>1, <4>2
      <3>4. QED
        BY <1>10, <3>2, <3>3 DEF DayPasses
    <2>2. Keeps
      BY <1>1, <2>1 DEF Keeps, Known
    <2>3. QED
      BY <2>1, <2>2 DEF MemoryInv, Keeps, Turn
  <1>11. QED
    BY <1>2, <1>3, <1>4, <1>5, <1>6, <1>7, <1>8, <1>9, <1>10 DEF Next, Step

(* A thread is closed before its closing message exists, and one exchange  *)
(* at most has it to post.                                                 *)
ClosingInv ==
  /\ Known.closed # "yes" => closings = 0 /\ \A e \in Exchanges : reply[e] # "close"
  /\ closings <= 1
  /\ \A d, e \in Exchanges : reply[d] = "close" /\ reply[e] = "close" => d = e
  /\ \A e \in Exchanges : reply[e] = "close" /\ pc[e] # "done" => closings = 0

(* The turn under way is within the budget.                                *)
BudgetInv ==
  maxTurns > 0 =>
    /\ replies <= maxTurns
    /\ \A e \in Exchanges : pc[e] \in {"asking", "condensing"} => replies < maxTurns

(* No number is ahead of the count, and an answer that has not got its     *)
(* number yet is the newest: nobody counts before it has been numbered.    *)
NumberInv ==
  /\ \A e \in Exchanges : reply[e] = "text" => number[e] <= replies
  /\ \A d, e \in Exchanges :
       pc[e] = "answered" /\ reply[e] = "text" /\ d # e /\ reply[d] = "text"
         => pc[d] # "answered" /\ number[d] < replies
  /\ \A d, e \in Exchanges : d # e /\ reply[d] = "text" /\ reply[e] = "text"
                             /\ number[d] > 0 => number[d] # number[e]

(* What holds of the thread as long as nothing of it is forgotten.         *)
ThreadInv == ~forgotten => MemoryInv /\ ClosingInv /\ BudgetInv /\ NumberInv

(* What a step does to the replies: one is given in its turn; a comment is *)
(* posted; or none changes.                                                *)
Gives(e) ==
  /\ pc[e] \in Turn /\ closings' = closings
  /\ \/ reply' = reply /\ \E place \in {"asking", "condensing"} : pc' = [pc EXCEPT ![e] = place]
     \/ /\ \E r \in {"silent", "text", "error", "close"} : reply' = [reply EXCEPT ![e] = r]
        /\ \E place \in {"answered", "posting"} : pc' = [pc EXCEPT ![e] = place]

Posts(e) ==
  /\ pc[e] = "posting" /\ pc' = [pc EXCEPT ![e] = "done"] /\ reply' = reply
  /\ closings' \in {closings, closings + IF reply[e] = "close" THEN 1 ELSE 0}

GivesNone ==
  /\ UNCHANGED <<reply, closings>>
  /\ \A d \in Exchanges : /\ pc[d] = "done" => pc'[d] = "done"
                          /\ pc'[d] \in {"asking", "condensing", "answered"} => pc'[d] = pc[d]

(* Those are all the steps there are.                                      *)
LEMMA ReplySteps ==
  ASSUME PlaceTypes, [Next]_vars
  PROVE  \/ \E e \in Exchanges : \/ TakeTurn(e) /\ Gives(e)
                                 \/ (Answer(e) \/ Condensed(e) \/ Throws(e)) /\ Gives(e)
                                 \/ Posts(e)
         \/ GivesNone
  <1> USE DEF Turn, Goto, history, answerVars
  <1>1. ASSUME NEW e \in Exchanges, TakeTurn(e) \/ Answer(e) \/ Condensed(e) \/ Throws(e)
        PROVE  Gives(e)
    <2>1. pc[e] \in Turn /\ closings' = closings
      BY <1>1 DEF TakeTurn, Answer, Condensed, Throws
    <2>2. \/ reply' = reply /\ \E place \in {"asking", "condensing"} : pc' = [pc EXCEPT ![e] = place]
          \/ /\ \E r \in {"silent", "text", "error", "close"} : reply' = [reply EXCEPT ![e] = r]
             /\ \E place \in {"answered", "posting"} : pc' = [pc EXCEPT ![e] = place]
      BY <1>1 DEF TakeTurn, Answer, Condensed, Throws, Replied
    <2>3. QED
      BY <2>1, <2>2 DEF Gives
  <1>2. ASSUME NEW e \in Exchanges, Post(e) PROVE Posts(e)
    BY <1>2 DEF Post, Posts, Leave
  <1>3. ASSUME NEW e \in Exchanges,
               \/ Begin(e) \/ Open(e) \/ LoadSession(e) \/ LoadAborted(e)
               \/ Persist(e) \/ Withdraw(e) \/ SaveExchange(e)
        PROVE  GivesNone
    <2>1. UNCHANGED <<reply, closings>> /\ pc[e] # "done"
      BY <1>3 DEF Begin, Open, LoadSession, LoadAborted, Persist, Withdraw, SaveExchange
    <2>2. \E place \in {"open", "load", "queued", "saving", "posting", "done"} :
            pc' = [pc EXCEPT ![e] = place]
      BY <1>3 DEF Begin, Open, LoadSession, LoadAborted, Persist, Withdraw, SaveExchange, Leave
    <2>3. QED
      BY <2>1, <2>2 DEF GivesNone, PlaceTypes
  <1>4. CASE Settling \/ StoreAlone \/ OtherCleanup \/ Evict \/ DayPasses \/ UNCHANGED vars
    <2>1. UNCHANGED <<reply, closings, pc>>
      BY <1>4 DEF Settling, StoreAlone, OtherCleanup, Evict, DayPasses, vars
    <2>2. QED
      BY <2>1 DEF GivesNone
  <1>5. CASE Restart
    BY <1>5 DEF Restart, GivesNone
  <1>6. QED
    BY <1>1, <1>2, <1>3, <1>4, <1>5 DEF Next, Step

(* Every step preserves the invariant of the closing message.              *)
LEMMA ClosingStep ==
  ASSUME Typing, MemoryInv, ClosingInv, ~forgotten', [Next]_vars
  PROVE  ClosingInv'
  <1>1. PlaceTypes /\ PlaceInv /\ closings \in Nat
    BY DEF Typing, CountTypes
  <1>2. Keeps \/ \E e \in Exchanges : Answers(e) \/ ClosesThread(e)
    BY MemoryStep
  <1>3. CASE GivesNone
    <2>1. Known'.closed = "yes" <=> Known.closed = "yes"
      <3>1. ASSUME NEW e \in Exchanges, Answers(e) \/ ClosesThread(e) PROVE FALSE
        BY <1>1, <1>3, <3>1 DEF GivesNone, Answers, ClosesThread, PlaceTypes
      <3>2. QED
        BY <1>2, <3>1 DEF Keeps
    <2>2. QED
      BY <1>3, <2>1 DEF GivesNone, ClosingInv
  <1>4. ASSUME NEW e \in Exchanges, Posts(e) PROVE ClosingInv'
    <2>1. Known'.closed = "yes" <=> Known.closed = "yes"
      <3>1. ASSUME NEW d \in Exchanges, Answers(d) \/ ClosesThread(d) PROVE FALSE
        <4>1. pc'[d] = "answered" /\ pc[d] # "answered"
          BY <1>1, <3>1 DEF Answers, ClosesThread, PlaceTypes
        <4>2. QED
          BY <1>1, <1>4, <4>1 DEF Posts, PlaceTypes
      <3>2. QED
        BY <1>2, <3>1 DEF Keeps
    <2>2. CASE reply[e] = "close"
      <3>1. closings = 0 /\ Known.closed = "yes"
        BY <1>4, <2>2 DEF Posts, ClosingInv
      <3>2. closings' \in {0, 1}
        BY <1>4, <2>2, <3>1 DEF Posts
      <3>3. \A d \in Exchanges : reply'[d] = "close" => d = e /\ pc'[d] = "done"
        BY <1>1, <1>4, <2>2 DEF Posts, ClosingInv, PlaceTypes
      <3>4. QED
        BY <2>1, <3>1, <3>2, <3>3 DEF ClosingInv
    <2>3. CASE reply[e] # "close"
      <3>1. closings' = closings /\ reply' = reply
        BY <1>1, <1>4, <2>3 DEF Posts
      <3>2. \A d \in Exchanges : pc[d] = "done" => pc'[d] = "done"
        BY <1>1, <1>4 DEF Posts, PlaceTypes
      <3>3. QED
        BY <2>1, <3>1, <3>2 DEF ClosingInv
    <2>4. QED
      BY <2>2, <2>3
  <1>5. ASSUME NEW e \in Exchanges, Gives(e)
        PROVE  /\ pc[e] \in Turn /\ closings' = closings /\ reply[e] = "none"
               /\ \A d \in Exchanges \ {e} : reply'[d] = reply[d] /\ pc'[d] = pc[d]
    BY <1>1, <1>5 DEF Gives, PlaceTypes, PlaceInv, Unanswered
  <1>6. ASSUME NEW e \in Exchanges, Gives(e), Keeps \/ Answers(e), reply'[e] # "close"
        PROVE  ClosingInv'
    <2>1. Known'.closed = "yes" <=> Known.closed = "yes"
      BY <1>6 DEF Keeps, Answers
    <2>2. \A d \in Exchanges : reply'[d] = "close" =>
            d # e /\ reply[d] = "close" /\ pc'[d] = pc[d]
      BY <1>5, <1>6
    <2>3. QED
      BY <1>5, <1>6, <2>1, <2>2 DEF ClosingInv
  <1>7. ASSUME NEW e \in Exchanges, Gives(e), ClosesThread(e) PROVE ClosingInv'
    <2>1. Known.closed # "yes" /\ Known'.closed = "yes"
      BY <1>7 DEF ClosesThread
    <2>2. closings = 0 /\ \A d \in Exchanges : reply[d] # "close"
      BY <2>1 DEF ClosingInv
    <2>3. \A d \in Exchanges : reply'[d] = "close" => d = e
      BY <1>5, <1>7, <2>2
    <2>4. closings' = 0
      BY <1>5, <1>7, <2>2
    <2>5. QED
      BY <2>1, <2>3, <2>4 DEF ClosingInv
  <1>8. ASSUME NEW e \in Exchanges, TakeTurn(e), Gives(e) PROVE ClosingInv'
    BY <1>6, <1>7, <1>8, TakeTurnMemory
  <1>9. ASSUME NEW e \in Exchanges, Answer(e) \/ Condensed(e) \/ Throws(e), Gives(e)
        PROVE  ClosingInv'
    BY <1>6, <1>9, AnswerMemory
  <1>10. QED
    BY <1>1, <1>3, <1>4, <1>8, <1>9, ReplySteps

(* A turn that begins has looked at the budget, and no other counts before *)
(* it does.                                                                *)
LEMMA BudgetStep ==
  ASSUME Typing, QueueInv, MemoryInv, BudgetInv, ~forgotten', [Next]_vars
  PROVE  BudgetInv'
  <1>1. PlaceTypes /\ replies \in Nat /\ maxTurns \in Nat
    BY DEF Typing, CountTypes
  <1>2. maxTurns' = maxTurns
    BY DEF Next, Step, Begin, Open, LoadSession, LoadAborted, TakeTurn, Answer, Condensed, Throws,
           Persist, Withdraw, SaveExchange, Post, Settling, StoreAlone, OtherCleanup, Evict,
           DayPasses, Restart, vars
  <1>3. SUFFICES ASSUME maxTurns > 0
                 PROVE  /\ replies' <= maxTurns
                        /\ \A e \in Exchanges : pc'[e] \in {"asking", "condensing"}
                                                => replies' < maxTurns
    BY <1>2 DEF BudgetInv
  <1>4. /\ replies <= maxTurns
        /\ \A e \in Exchanges : pc[e] \in {"asking", "condensing"} => replies < maxTurns
    BY <1>3 DEF BudgetInv
  <1>5. ASSUME NEW e \in Exchanges, Answers(e)
        PROVE  /\ replies' <= maxTurns
               /\ \A d \in Exchanges : pc'[d] \notin {"asking", "condensing"}
    <2>1. replies' <= maxTurns
      BY <1>1, <1>4, <1>5 DEF Answers
    <2>2. ASSUME NEW d \in Exchanges, pc'[d] \in {"asking", "condensing"} PROVE FALSE
      <3>1. d # e /\ pc[d] \in {"asking", "condensing"} /\ pc[e] \in {"asking", "condensing"}
        BY <1>1, <1>5, <2>2 DEF Answers, PlaceTypes
      <3>2. d \in InTurn /\ e \in InTurn
        BY <3>1, InTurnIs DEF Turn
      <3>3. ahead[d] = Nobody /\ ahead[e] = Nobody
        BY <3>1, <3>2 DEF QueueInv, Waits
      <3>4. QED
        BY <1>1, <3>1, <3>2, <3>3, OneInTurn
    <2>3. QED
      BY <2>1, <2>2
  <1>6. CASE replies' = replies
    <2>1. ASSUME NEW e \in Exchanges, TakeTurn(e), NEW d \in Exchanges,
                 pc'[d] \in {"asking", "condensing"}
          PROVE  replies < maxTurns
      <3>1. CASE d # e
        <4>1. pc'[d] = pc[d]
          BY <1>1, <2>1, <3>1 DEF TakeTurn, Replied, Goto, PlaceTypes
        <4>2. QED
          BY <1>4, <2>1, <4>1
      <3>2. CASE d = e
        <4>1. pc[e] \in Turn /\ tracked' = tracked
          BY <2>1 DEF TakeTurn, Turn
        <4>2. ~(object[held[e]].turns >= maxTurns)
          BY <1>1, <1>3, <2>1, <3>2 DEF TakeTurn, Replied, Goto, PlaceTypes
        <4>3. object[held[e]] = Known
          BY <4>1, TurnKnown
        <4>4. QED
          BY <1>1, <4>2, <4>3 DEF MemoryInv
      <3>3. QED
        BY <3>1, <3>2
    <2>2. ASSUME NEW e \in Exchanges, Answer(e) \/ Condensed(e) \/ Throws(e),
                 NEW d \in Exchanges, pc'[d] \in {"asking", "condensing"}
          PROVE  replies < maxTurns
      <3>1. pc[d] \in {"asking", "condensing"}
        BY <1>1, <2>2 DEF Answer, Condensed, Throws, Replied, Goto, PlaceTypes
      <3>2. QED
        BY <1>4, <3>1
    <2>3. ASSUME NEW e \in Exchanges, Posts(e),
                 NEW d \in Exchanges, pc'[d] \in {"asking", "condensing"}
          PROVE  replies < maxTurns
      <3>1. pc[d] \in {"asking", "condensing"}
        BY <1>1, <2>3 DEF Posts, PlaceTypes
      <3>2. QED
        BY <1>4, <3>1
    <2>4. ASSUME GivesNone, NEW d \in Exchanges, pc'[d] \in {"asking", "condensing"}
          PROVE  replies < maxTurns
      BY <1>4, <2>4 DEF GivesNone
    <2>5. QED
      BY <1>1, <1>4, <1>6, <2>1, <2>2, <2>3, <2>4, ReplySteps
  <1>7. QED
    BY <1>5, <1>6, MemoryStep DEF Keeps, ClosesThread

(* The number that an exchange reads after its turn is that of its own     *)
(* answer.                                                                 *)
LEMMA NumberStep ==
  ASSUME Typing, MemoryInv, NumberInv, ~forgotten', [Next]_vars
  PROVE  NumberInv'
  <1> USE DEF answerVars
  <1>1. /\ PlaceTypes /\ PlaceInv /\ replies \in Nat
        /\ number \in [Exchanges -> Nat]
    BY DEF Typing, CountTypes
  <1>2. /\ \A e \in Exchanges : reply[e] = "text" => number[e] <= replies
        /\ \A d, e \in Exchanges :
             pc[e] = "answered" /\ reply[e] = "text" /\ d # e /\ reply[d] = "text"
               => pc[d] # "answered" /\ number[d] < replies
        /\ \A d, e \in Exchanges : d # e /\ reply[d] = "text" /\ reply[e] = "text"
                                   /\ number[d] > 0 => number[d] # number[e]
    BY DEF NumberInv
  <1>3. ASSUME NEW e \in Exchanges, Persist(e) PROVE NumberInv'
    <2>1. /\ pc[e] = "answered" /\ pc' = [pc EXCEPT ![e] = "saving"]
          /\ UNCHANGED <<reply, replies>>
          /\ number' = [number EXCEPT ![e] = Number(e)]
      BY <1>3 DEF Persist, Goto, history
    <2>2. Number(e) = replies
      BY <2>1 DEF Number, MemoryInv, Known
    <2>3. number'[e] = replies /\ \A d \in Exchanges \ {e} : number'[d] = number[d]
      BY <1>1, <2>1, <2>2
    <2>4. pc'[e] = "saving" /\ \A d \in Exchanges \ {e} : pc'[d] = pc[d]
      BY <1>1, <2>1 DEF PlaceTypes
    <2>5. \A d \in Exchanges : reply'[d] = "text" => number'[d] <= replies'
      BY <1>1, <1>2, <2>1, <2>3
    <2>6. \A c, d \in Exchanges :
            pc'[d] = "answered" /\ reply'[d] = "text" /\ c # d /\ reply'[c] = "text"
              => pc'[c] # "answered" /\ number'[c] < replies'
      BY <1>2, <2>1, <2>3, <2>4
    <2>7. ASSUME NEW c \in Exchanges, NEW d \in Exchanges, c # d,
                 reply'[c] = "text", reply'[d] = "text", number'[c] > 0
          PROVE  number'[c] # number'[d]
      <3>1. CASE c = e
        <4>1. number[d] < replies /\ number[d] \in Nat
          BY <1>1, <1>2, <2>1, <2>7, <3>1
        <4>2. QED
          BY <1>1, <2>3, <2>7, <3>1, <4>1
      <3>2. CASE d = e
        <4>1. number[c] < replies /\ number[c] \in Nat
          BY <1>1, <1>2, <2>1, <2>7, <3>2
        <4>2. QED
          BY <1>1, <2>3, <2>7, <3>2, <4>1
      <3>3. CASE c # e /\ d # e
        BY <1>2, <2>1, <2>3, <2>7, <3>3
      <3>4. QED
        BY <3>1, <3>2, <3>3
    <2>8. QED
      BY <2>5, <2>6, <2>7 DEF NumberInv
  <1>4. ASSUME NEW e \in Exchanges, Answer(e) \/ Condensed(e), Answers(e) PROVE NumberInv'
    <2>1. number' = number /\ \A d \in Exchanges : pc[d] # "answered"
      BY <1>4 DEF Answer, Condensed, Drained
    <2>2. number[e] = 0
      BY <1>1, <1>4 DEF Answers, PlaceInv, Turn, Unanswered
    <2>3. replies' = replies + 1
      BY <1>4 DEF Answers
    <2>4. \A d \in Exchanges \ {e} : reply'[d] = reply[d] /\ pc'[d] = pc[d]
      BY <1>1, <1>4 DEF Answers, PlaceTypes
    <2>5. \A d \in Exchanges \ {e} : reply'[d] = "text" => number'[d] < replies'
      BY <1>1, <1>2, <2>1, <2>3, <2>4
    <2>6. number'[e] = 0 /\ 0 < replies'
      BY <1>1, <2>1, <2>2, <2>3
    <2>7. \A d \in Exchanges : reply'[d] = "text" => number'[d] <= replies'
      BY <1>1, <2>1, <2>3, <2>5, <2>6
    <2>8. \A c, d \in Exchanges :
            pc'[d] = "answered" /\ reply'[d] = "text" /\ c # d /\ reply'[c] = "text"
              => pc'[c] # "answered" /\ number'[c] < replies'
      BY <2>1, <2>4, <2>5
    <2>9. \A c, d \in Exchanges : c # d /\ reply'[c] = "text" /\ reply'[d] = "text"
                                 /\ number'[c] > 0 => number'[c] # number'[d]
      BY <1>2, <2>1, <2>4, <2>6
    <2>10. QED
      BY <2>7, <2>8, <2>9 DEF NumberInv
  <1>5. ASSUME number' = number, replies' = replies,
               \A d \in Exchanges : reply'[d] = "text" =>
                 reply[d] = "text" /\ (pc'[d] = "answered" => pc[d] = "answered")
        PROVE  NumberInv'
    BY <1>2, <1>5 DEF NumberInv
  <1>6. ASSUME NEW e \in Exchanges, TakeTurn(e) PROVE NumberInv'
    <2>1. number' = number /\ replies' = replies
      BY <1>6 DEF TakeTurn, history
    <2>2. /\ reply[e] = "none"
          /\ reply' = reply \/ \E r \in {"silent", "close"} : reply' = [reply EXCEPT ![e] = r]
          /\ \E place \in {"answered", "asking"} : pc' = [pc EXCEPT ![e] = place]
      BY <1>1, <1>6 DEF TakeTurn, Replied, Goto, PlaceInv, Turn, Unanswered
    <2>3. QED
      BY <1>1, <1>5, <2>1, <2>2 DEF PlaceTypes
  <1>7. ASSUME NEW e \in Exchanges, Answer(e) \/ Condensed(e) \/ Throws(e) PROVE NumberInv'
    <2>1. CASE Count(e)
      <3>1. replies' = replies + 1
        BY <2>1 DEF Count
      <3>2. Answers(e) /\ ~Throws(e)
        BY <1>1, <1>7, <3>1, AnswerMemory DEF Keeps, Throws, history
      <3>3. QED
        BY <1>4, <1>7, <3>2
    <2>2. CASE ~Count(e)
      <3>1. number' = number /\ replies' = replies
        BY <1>7, <2>2 DEF Answer, Condensed, Throws, history
      <3>2. /\ reply[e] = "none"
            /\ reply' = reply \/ reply' = [reply EXCEPT ![e] = "error"]
            /\ \E place \in {"answered", "condensing", "posting"} : pc' = [pc EXCEPT ![e] = place]
        BY <1>1, <1>7, <2>2 DEF Answer, Condensed, Throws, Replied, Goto, PlaceInv, Turn, Unanswered
      <3>3. QED
        BY <1>1, <1>5, <3>1, <3>2 DEF PlaceTypes
    <2>3. QED
      BY <2>1, <2>2
  <1>8. ASSUME NEW e \in Exchanges,
               \/ Begin(e) \/ Open(e) \/ LoadSession(e) \/ LoadAborted(e)
               \/ Withdraw(e) \/ SaveExchange(e) \/ Post(e)
        PROVE  NumberInv'
    <2>1. number' = number /\ replies' = replies /\ reply' = reply
      BY <1>8 DEF Begin, Open, LoadSession, LoadAborted, Withdraw, SaveExchange, Post, history
    <2>2. \E place \in {"open", "load", "queued", "posting", "done"} : pc' = [pc EXCEPT ![e] = place]
      BY <1>8 DEF Begin, Open, LoadSession, LoadAborted, Withdraw, SaveExchange, Post, Leave, Goto
    <2>3. QED
      BY <1>1, <1>5, <2>1, <2>2 DEF PlaceTypes
  <1>9. CASE \/ Settling \/ StoreAlone \/ OtherCleanup \/ Evict \/ DayPasses \/ Restart
             \/ UNCHANGED vars
    <2>1. number' = number /\ replies' = replies /\ reply' = reply
      BY <1>9 DEF Settling, StoreAlone, OtherCleanup, Evict, DayPasses, Restart, vars, history
    <2>2. \A d \in Exchanges : pc'[d] = "answered" => pc[d] = "answered"
      BY <1>9 DEF Settling, StoreAlone, OtherCleanup, Evict, DayPasses, Restart, vars
    <2>3. QED
      BY <1>5, <2>1, <2>2
  <1>10. QED
    BY <1>3, <1>6, <1>7, <1>8, <1>9 DEF Next, Step

(* What has been forgotten stays forgotten.                                *)
LEMMA Forgetting == [Next]_vars /\ ~forgotten' => ~forgotten
  <1> SUFFICES ASSUME [Next]_vars, ~forgotten'
               PROVE  ~forgotten
    OBVIOUS
  <1>1. ASSUME NEW e \in Exchanges, LoadSession(e)
        PROVE  ~forgotten
    <2>1. PICK found : Enter(e, found)
      BY <1>1 DEF LoadSession
    <2>2. QED
      BY <2>1 DEF Enter
  <1>2. ASSUME NEW e \in Exchanges,
               \/ Begin(e) \/ Open(e) \/ LoadAborted(e) \/ TakeTurn(e) \/ Answer(e) \/ Condensed(e)
               \/ Throws(e) \/ Persist(e) \/ Withdraw(e) \/ SaveExchange(e) \/ Post(e)
        PROVE  ~forgotten
    <2>1. CASE Begin(e) \/ Open(e) \/ LoadAborted(e) \/ Withdraw(e)
      BY <2>1 DEF Begin, Open, LoadAborted, Withdraw, history
    <2>2. CASE TakeTurn(e) \/ Condensed(e) \/ Throws(e)
      BY <2>2 DEF TakeTurn, Condensed, Throws, history
    <2>3. CASE Answer(e) \/ Persist(e)
      BY <2>3 DEF Answer, Persist, history
    <2>4. CASE SaveExchange(e) \/ Post(e)
      BY <2>4 DEF SaveExchange, Post, history
    <2>5. QED
      BY <1>2, <2>1, <2>2, <2>3, <2>4
  <1>3. CASE Evict \/ Restart
    BY <1>3 DEF Evict, Restart
  <1>4. CASE Settling \/ StoreAlone \/ OtherCleanup \/ DayPasses \/ UNCHANGED vars
    BY <1>4 DEF Settling, StoreAlone, OtherCleanup, DayPasses, vars, history
  <1>5. QED
    BY <1>1, <1>2, <1>3, <1>4 DEF Next, Step

(* So the invariant of the thread always holds.                            *)
LEMMA ThreadAlways == Spec => []ThreadInv
  <1>1. Init => ThreadInv
    <2> SUFFICES ASSUME Init PROVE MemoryInv /\ ClosingInv /\ BudgetInv /\ NumberInv
      BY DEF ThreadInv
    <2>1. /\ Known = NoRow /\ replies = 0 /\ closings = 0 /\ maxTurns \in Nat
          /\ \A e \in Exchanges : pc[e] = "new" /\ reply[e] = "none" /\ number[e] = 0
      BY TurnsAssumption DEF Init, Known, TurnsAssumption
    <2>2. MemoryInv /\ ClosingInv
      BY <2>1, StateRecords DEF MemoryInv, ClosingInv, Turn
    <2>3. BudgetInv /\ NumberInv
      BY <2>1 DEF BudgetInv, NumberInv
    <2>4. QED
      BY <2>2, <2>3
  <1>2. Typing /\ QueueInv /\ ThreadInv /\ [Next]_vars => ThreadInv'
    <2> SUFFICES ASSUME Typing, QueueInv, ThreadInv, [Next]_vars, ~forgotten'
                 PROVE  (MemoryInv /\ ClosingInv /\ BudgetInv /\ NumberInv)'
      BY DEF ThreadInv
    <2>1. MemoryInv /\ ClosingInv /\ BudgetInv /\ NumberInv
      BY Forgetting DEF ThreadInv
    <2>2. QED
      BY <2>1, MemoryStep, ClosingStep, BudgetStep, NumberStep
  <1>3. QED
    BY <1>1, <1>2, TypingAlways, QueueAlways, PTL DEF Spec

(* While nothing of the thread has been forgotten the model answers        *)
(* maxTurns times at most, and the closing message is posted once, for any *)
(* number of comments, restarts and evictions.                             *)
THEOREM TurnBudgetHolds == Spec => []TurnBudget
  <1>1. ThreadInv => TurnBudget
    BY DEF ThreadInv, ClosingInv, BudgetInv, TurnBudget
  <1>2. QED
    BY ThreadAlways, <1>1, PTL

(* And no two answers are numbered alike.                                  *)
THEOREM NumbersDistinctHolds == Spec => []NumbersDistinct
  <1>1. ThreadInv => NumbersDistinct
    BY DEF ThreadInv, NumberInv, NumbersDistinct
  <1>2. QED
    BY ThreadAlways, <1>1, PTL

-------------------------------------------------------------------------------
(***************************************************************************)
(* The JSON store.                                                         *)
(***************************************************************************)
(* The exchanges that no close() has met half done.                        *)
Sound == Transactions \ interrupted

(* A set of rows holds each of them with all its parts or with none.       *)
Whole(rows) ==
  \A x \in Sound : \A i, j \in 1..Parts : <<x, i>> \in rows => <<x, j>> \in rows

(* What is on disk, and what is on its way there, is whole; memory holds   *)
(* the parts that the exchange under way has added so far.                 *)
PartsInv ==
  /\ disk # Torn /\ Whole(disk)
  /\ \A w \in Writers : writer[w].at = "writing" => Whole(writer[w].snap)
  /\ \A x \in Sound, i \in 1..Parts :
       IF step[x] = Idle THEN \A j \in 1..Parts : <<x, i>> \in memory => <<x, j>> \in memory
                         ELSE <<x, i>> \in memory <=> i <= step[x]

(* Mutations leave the saving to the commit only while there is one to     *)
(* come.                                                                   *)
SaveInv == /\ inTransaction => ~BetweenTransactions
           /\ UnsavedIsScheduled

(* A process that has exited has nothing left to do, in particular no      *)
(* write that could still replace the file.                                *)
ExitInv == /\ phase = "exited" => LoopEmpty
           /\ ExitSaves

(* The invariant of the JSON store.                                        *)
JsonInv == JsonTypeOK /\ PartsInv /\ SaveInv /\ ExitInv

(* The parts of exchanges are rows, and no other row is one of them.       *)
LEMMA PartRows ==
  ASSUME NEW x \in Transactions, NEW i \in 1..Parts
  PROVE  /\ <<x, i>> \in Row /\ <<x, i>> # Meta
         /\ \A u \in Updates : <<x, i>> # <<u, 1>>
         /\ \A y, j : <<x, i>> = <<y, j>> <=> x = y /\ i = j
  <1>1. i # 0
    BY JsonAssumption DEF JsonAssumption
  <1>2. <<x, i>> \in Transactions \X (1..Parts)
    OBVIOUS
  <1>3. \A u \in Updates : u # x
    BY RowsAssumption DEF RowsAssumption
  <1>4. QED
    BY <1>1, <1>2, <1>3 DEF Row, Meta

(* A store that has just been opened satisfies it.                         *)
LEMMA JsonInitial == JsonInit => JsonInv
  <1> SUFFICES ASSUME JsonInit PROVE JsonInv
    OBVIOUS
  <1> USE DEF JsonInit
  <1>1. Meta \in Row /\ disk # Torn /\ Idle \in 0..Idle /\ 0 \in 0..MaxRestarts
    BY JsonAssumption, RowsAssumption DEF Row, JsonAssumption, RowsAssumption, Idle
  <1>2. JsonTypeOK
    BY <1>1 DEF JsonTypeOK, NoWrite
  <1>3. PartsInv
    BY <1>1, PartRows DEF PartsInv, Whole, Sound, NoWrite
  <1>4. SaveInv /\ ExitInv
    BY DEF SaveInv, ExitInv, UnsavedIsScheduled, ExitSaves
  <1>5. QED
    BY <1>2, <1>3, <1>4 DEF JsonInv

(* Between transactions the memory is whole.                               *)
LEMMA MemoryWhole ==
  ASSUME PartsInv, BetweenTransactions
  PROVE  Whole(memory)
  BY DEF PartsInv, BetweenTransactions, Whole, Sound

(* The types are preserved: what is loaded again is a file, not a torn one. *)
LEMMA JsonTypeStep == JsonTypeOK /\ PartsInv /\ [JsonNext]_jsonVars => JsonTypeOK'
  <1> SUFFICES ASSUME JsonTypeOK, PartsInv, [JsonNext]_jsonVars PROVE JsonTypeOK'
    OBVIOUS
  <1> USE DEF JsonTypeOK
  <1>1. /\ Parts \in Nat /\ MaxRestarts \in Nat /\ Idle = Parts + 1 /\ Idle \in 0..Idle
        /\ Meta \in Row /\ \A u \in Updates : <<u, 1>> \in Row
    BY JsonAssumption DEF JsonAssumption, Idle, Row
  <1>2. ASSUME NEW u \in Updates, Update(u) PROVE JsonTypeOK'
    BY <1>1, <1>2 DEF Update, Save
  <1>3. ASSUME NEW x \in Transactions, BeginTransaction(x) PROVE JsonTypeOK'
    BY <1>1, <1>3 DEF BeginTransaction
  <1>4. ASSUME NEW x \in Transactions, AddPart(x) PROVE JsonTypeOK'
    <2>1. step[x] \in 0..Idle /\ step[x] < Parts
      BY <1>4 DEF AddPart
    <2>2. step[x] + 1 \in 1..Parts
      BY <1>1, <2>1
    <2>3. <<x, step[x] + 1>> \in Row
      BY <2>2, PartRows
    <2>4. step' \in [Transactions -> 0..Idle]
      BY <1>1, <1>4, <2>2 DEF AddPart
    <2>5. QED
      BY <1>4, <2>3, <2>4 DEF AddPart, Save
  <1>5. ASSUME NEW x \in Transactions, Commit(x) PROVE JsonTypeOK'
    BY <1>1, <1>5 DEF Commit
  <1>6. ASSUME NEW w \in Writers, TimerFires(w) \/ Flush(w) PROVE JsonTypeOK'
    BY <1>6 DEF TimerFires, Flush, StartWrite
  <1>7. ASSUME NEW w \in Writers, Snapshot(w) PROVE JsonTypeOK'
    <2>1. [at |-> "writing", snap |-> memory] \in
            [at : {"idle", "opening", "writing"}, snap : SUBSET Row]
      OBVIOUS
    <2>2. QED
      BY <1>7, <2>1 DEF Snapshot
  <1>8. ASSUME NEW w \in Writers, Rename(w) PROVE JsonTypeOK'
    BY <1>8 DEF Rename, NoWrite
  <1>9. ASSUME NEW w \in Writers, WriteFails(w) PROVE JsonTypeOK'
    BY <1>9 DEF WriteFails, NoWrite
  <1>10. CASE Close \/ Exit
    BY <1>10 DEF Close, Exit, FlushSync
  <1>11. CASE Reopen
    <2>1. disk \in SUBSET Row
      BY DEF PartsInv
    <2>2. memory' \subseteq Row /\ timer' \in BOOLEAN /\ unsaved' \in BOOLEAN
      BY <1>1, <1>11, <2>1 DEF Reopen, Load
    <2>3. restarts' \in 0..MaxRestarts
      BY <1>1, <1>11 DEF Reopen
    <2>4. NoWrite \in [at : {"idle", "opening", "writing"}, snap : SUBSET Row]
      BY DEF NoWrite
    <2>5. QED
      BY <1>1, <1>11, <2>2, <2>3, <2>4 DEF Reopen
  <1>12. CASE UNCHANGED jsonVars
    BY <1>12 DEF jsonVars
  <1>13. QED
    BY <1>2, <1>3, <1>4, <1>5, <1>6, <1>7, <1>8, <1>9, <1>10, <1>11, <1>12 DEF JsonNext

(* Every step keeps exchanges whole.                                       *)
LEMMA PartsStep == JsonTypeOK /\ PartsInv /\ [JsonNext]_jsonVars => PartsInv'
  <1> SUFFICES ASSUME JsonTypeOK, PartsInv, [JsonNext]_jsonVars PROVE PartsInv'
    OBVIOUS
  <1>1. Parts \in Nat /\ Idle = Parts + 1 /\ Sound \subseteq Transactions
    BY JsonAssumption DEF JsonAssumption, Idle, Sound
  <1>2. ASSUME NEW u \in Updates, Update(u) PROVE PartsInv'
    <2>1. \A x \in Sound, i \in 1..Parts : <<x, i>> \in memory' <=> <<x, i>> \in memory
      <3> SUFFICES ASSUME NEW x \in Sound, NEW i \in 1..Parts
                   PROVE  <<x, i>> \in memory' <=> <<x, i>> \in memory
        BY DEF Sound
      <3>1. x # u
        BY <1>1, RowsAssumption DEF RowsAssumption
      <3>2. QED
        BY <1>2, <3>1 DEF Update
    <2>2. QED
      BY <1>2, <2>1 DEF PartsInv, Update, Whole, Sound
  <1>3. ASSUME NEW x \in Transactions, BeginTransaction(x) PROVE PartsInv'
    <2>1. x \in Sound => \A i \in 1..Parts : <<x, i>> \notin memory
      BY <1>1, <1>3, JsonAssumption DEF BeginTransaction, PartsInv, JsonAssumption
    <2>2. step'[x] = 0 /\ \A y \in Transactions : y # x => step'[y] = step[y]
      BY <1>3 DEF BeginTransaction, JsonTypeOK
    <2>3. \A y \in Sound, i \in 1..Parts :
            IF step'[y] = Idle THEN \A j \in 1..Parts : <<y, i>> \in memory => <<y, j>> \in memory
                               ELSE <<y, i>> \in memory <=> i <= step'[y]
      <3>1. ASSUME NEW y \in Sound, NEW i \in 1..Parts, y # x
            PROVE  IF step'[y] = Idle
                   THEN \A j \in 1..Parts : <<y, i>> \in memory => <<y, j>> \in memory
                   ELSE <<y, i>> \in memory <=> i <= step'[y]
        BY <1>1, <2>2, <3>1 DEF PartsInv
      <3>2. ASSUME NEW i \in 1..Parts, x \in Sound
            PROVE  step'[x] # Idle /\ (<<x, i>> \in memory <=> i <= step'[x])
        BY <1>1, <2>1, <2>2, <3>2 DEF Idle
      <3>3. QED
        BY <3>1, <3>2
    <2>4. QED
      BY <1>3, <2>3 DEF PartsInv, BeginTransaction, Whole, Sound, Idle
  <1>4. ASSUME NEW x \in Transactions, AddPart(x) PROVE PartsInv'
    <2>1. /\ step[x] \in 0..Idle /\ step[x] < Parts /\ step'[x] = step[x] + 1
          /\ \A y \in Transactions : y # x => step'[y] = step[y]
          /\ step[x] # Idle /\ (step'[x] # Idle)
      BY <1>1, <1>4 DEF AddPart, JsonTypeOK
    <2>2. \A y \in Sound, i \in 1..Parts :
            <<y, i>> \in memory' <=> <<y, i>> \in memory \/ (y = x /\ i = step[x] + 1)
      BY <1>1, <1>4, PartRows DEF AddPart
    <2>3. \A y \in Sound, i \in 1..Parts :
            IF step'[y] = Idle THEN \A j \in 1..Parts : <<y, i>> \in memory' => <<y, j>> \in memory'
                               ELSE <<y, i>> \in memory' <=> i <= step'[y]
      <3> SUFFICES ASSUME NEW y \in Sound, NEW i \in 1..Parts
                   PROVE  IF step'[y] = Idle
                          THEN \A j \in 1..Parts : <<y, i>> \in memory' => <<y, j>> \in memory'
                          ELSE <<y, i>> \in memory' <=> i <= step'[y]
        BY DEF Sound
      <3>1. CASE y = x
        BY <1>1, <2>1, <2>2, <3>1 DEF PartsInv
      <3>2. CASE y # x
        BY <1>1, <2>1, <2>2, <3>2 DEF PartsInv
      <3>3. QED
        BY <3>1, <3>2
    <2>4. QED
      BY <1>4, <2>3 DEF PartsInv, AddPart, Whole, Sound, Idle
  <1>5. ASSUME NEW x \in Transactions, Commit(x) PROVE PartsInv'
    <2>1. x \in Sound => \A i \in 1..Parts : <<x, i>> \in memory
      BY <1>1, <1>5 DEF Commit, PartsInv
    <2>2. \A y \in Transactions : y # x => step'[y] = step[y]
      BY <1>5 DEF Commit, JsonTypeOK
    <2>3. \A y \in Sound, i \in 1..Parts :
            IF step'[y] = Idle THEN \A j \in 1..Parts : <<y, i>> \in memory => <<y, j>> \in memory
                               ELSE <<y, i>> \in memory <=> i <= step'[y]
      <3> SUFFICES ASSUME NEW y \in Sound, NEW i \in 1..Parts
                   PROVE  IF step'[y] = Idle
                          THEN \A j \in 1..Parts : <<y, i>> \in memory => <<y, j>> \in memory
                          ELSE <<y, i>> \in memory <=> i <= step'[y]
        BY DEF Sound
      <3>1. CASE y = x
        <4>1. step'[x] = Idle
          BY <1>5 DEF Commit, JsonTypeOK
        <4>2. QED
          BY <2>1, <3>1, <4>1
      <3>2. CASE y # x
        BY <1>1, <2>2, <3>2 DEF PartsInv
      <3>3. QED
        BY <3>1, <3>2
    <2>4. QED
      BY <1>5, <2>3 DEF PartsInv, Commit, Whole, Sound, Idle
  <1>6. ASSUME NEW w \in Writers, TimerFires(w) \/ Flush(w) PROVE PartsInv'
    <2>1. \A v \in Writers : writer'[v].at = "writing" => writer'[v] = writer[v]
      BY <1>6 DEF TimerFires, Flush, StartWrite, JsonTypeOK
    <2>2. QED
      BY <1>6, <2>1 DEF TimerFires, Flush, StartWrite, PartsInv, Whole, Sound
  <1>7. ASSUME NEW w \in Writers, Snapshot(w) PROVE PartsInv'
    <2>1. Whole(memory)
      BY <1>7, MemoryWhole DEF Snapshot
    <2>2. \A v \in Writers : writer'[v].at = "writing" =>
            writer'[v] = writer[v] \/ writer'[v].snap = memory
      BY <1>7 DEF Snapshot, JsonTypeOK
    <2>3. \A v \in Writers : writer'[v].at = "writing" => Whole(writer'[v].snap)
      BY <2>1, <2>2 DEF PartsInv
    <2>4. QED
      BY <1>7, <2>3 DEF Snapshot, PartsInv, Whole, Sound
  <1>8. ASSUME NEW w \in Writers, Rename(w) PROVE PartsInv'
    <2>1. \A v \in Writers : writer'[v].at = "writing" => writer'[v] = writer[v]
      BY <1>8 DEF Rename, NoWrite, JsonTypeOK
    <2>2. disk' \in SUBSET Row /\ Whole(disk')
      BY <1>8 DEF Rename, PartsInv, JsonTypeOK
    <2>3. disk' # Torn
      BY <2>2, RowsAssumption DEF RowsAssumption
    <2>4. QED
      BY <1>8, <2>1, <2>2, <2>3 DEF Rename, PartsInv, Whole, Sound
  <1>9. ASSUME NEW w \in Writers, WriteFails(w) PROVE PartsInv'
    <2>1. \A v \in Writers : writer'[v].at = "writing" => writer'[v] = writer[v]
      BY <1>9 DEF WriteFails, NoWrite, JsonTypeOK
    <2>2. QED
      BY <1>9, <2>1 DEF WriteFails, PartsInv, Whole, Sound
  <1>10. CASE Close \/ Exit
    <2>1. /\ UNCHANGED <<memory, step, writer>>
          /\ \/ /\ disk' = memory
                /\ interrupted' = interrupted \union {x \in Transactions : step[x] \in 1..(Parts - 1)}
             \/ UNCHANGED <<disk, interrupted>>
      BY <1>10 DEF Close, Exit, FlushSync
    <2>2. CASE UNCHANGED <<disk, interrupted>>
      BY <2>1, <2>2 DEF PartsInv, Whole, Sound
    <2>3. CASE /\ disk' = memory
               /\ interrupted' = interrupted \union {x \in Transactions : step[x] \in 1..(Parts - 1)}
      <3>1. Sound' \subseteq Sound
        BY <2>3 DEF Sound
      <3>2. ASSUME NEW x \in Sound', NEW i \in 1..Parts, NEW j \in 1..Parts, <<x, i>> \in memory
            PROVE  <<x, j>> \in memory
        <4>1. x \in Transactions /\ step[x] \notin 1..(Parts - 1) /\ step[x] \in 0..Idle
          BY <2>3 DEF Sound, JsonTypeOK
        <4>2. step[x] \in {0, Parts, Idle}
          BY <1>1, <4>1
        <4>3. QED
          BY <1>1, <3>1, <3>2, <4>2 DEF PartsInv
      <3>3. disk' # Torn
        BY <2>3, RowsAssumption DEF JsonTypeOK, RowsAssumption
      <3>4. Whole(disk)'
        BY <2>3, <3>2 DEF Whole
      <3>5. \A w \in Writers : writer'[w].at = "writing" => Whole(writer[w].snap)'
        BY <2>1, <3>1 DEF PartsInv, Whole
      <3>6. QED
        BY <2>1, <3>1, <3>3, <3>4, <3>5 DEF PartsInv
    <2>4. QED
      BY <2>1, <2>2, <2>3
  <1>11. CASE Reopen
    <2>1. memory' = disk \union {Meta} /\ disk' = disk
      BY <1>11 DEF Reopen, Load, PartsInv
    <2>2. \A x \in Transactions, i \in 1..Parts : <<x, i>> \in memory' <=> <<x, i>> \in disk
      BY <2>1, PartRows
    <2>3. /\ \A x \in Transactions : step'[x] = Idle
          /\ \A w \in Writers : writer'[w].at # "writing"
      BY <1>11 DEF Reopen, NoWrite
    <2>4. interrupted' = interrupted
      BY <1>11 DEF Reopen
    <2>5. QED
      BY <1>1, <2>1, <2>2, <2>3, <2>4 DEF PartsInv, Whole, Sound
  <1>12. CASE UNCHANGED jsonVars
    BY <1>12 DEF jsonVars, PartsInv, Whole, Sound
  <1>13. QED
    BY <1>2, <1>3, <1>4, <1>5, <1>6, <1>7, <1>8, <1>9, <1>10, <1>11, <1>12 DEF JsonNext

(* Every step leaves what no write has read to something that will save.   *)
LEMMA SaveStep == JsonTypeOK /\ SaveInv /\ [JsonNext]_jsonVars => SaveInv'
  <1> SUFFICES ASSUME JsonTypeOK, SaveInv, [JsonNext]_jsonVars PROVE SaveInv'
    OBVIOUS
  <1> USE DEF SaveInv, UnsavedIsScheduled
  <1>1. Parts \in Nat /\ Idle = Parts + 1 /\ 0 # Idle
    BY JsonAssumption DEF JsonAssumption, Idle
  <1>2. ASSUME NEW u \in Updates, Update(u) PROVE SaveInv'
    BY <1>2 DEF Update, Save, BetweenTransactions, Idle
  <1>3. ASSUME NEW x \in Transactions, BeginTransaction(x) PROVE SaveInv'
    <2>1. step'[x] # Idle
      BY <1>1, <1>3 DEF BeginTransaction, JsonTypeOK
    <2>2. ~BetweenTransactions'
      BY <2>1 DEF BetweenTransactions, Idle
    <2>3. QED
      BY <2>2
  <1>4. ASSUME NEW x \in Transactions, AddPart(x) PROVE SaveInv'
    <2>1. step[x] \in 0..Idle /\ step[x] < Parts /\ step'[x] = step[x] + 1
      BY <1>4 DEF AddPart, JsonTypeOK
    <2>2. step'[x] # Idle
      BY <1>1, <2>1
    <2>3. ~BetweenTransactions'
      BY <2>2 DEF BetweenTransactions, Idle
    <2>4. QED
      BY <2>3
  <1>5. ASSUME NEW x \in Transactions, Commit(x) PROVE SaveInv'
    BY <1>5 DEF Commit
  <1>6. ASSUME NEW w \in Writers, TimerFires(w) \/ Flush(w) PROVE SaveInv'
    <2>1. UNCHANGED <<inTransaction, step>>
      BY <1>6 DEF TimerFires, Flush, StartWrite
    <2>2. writer'[w].at = "opening"
      BY <1>6 DEF TimerFires, Flush, StartWrite, JsonTypeOK
    <2>3. QED
      BY <2>1, <2>2 DEF BetweenTransactions, Idle
  <1>7. ASSUME NEW w \in Writers, Snapshot(w) PROVE SaveInv'
    BY <1>7 DEF Snapshot, BetweenTransactions, Idle
  <1>8. ASSUME NEW w \in Writers, Rename(w) PROVE SaveInv'
    <2>1. \A v \in Writers : writer[v].at = "opening" => writer'[v] = writer[v]
      BY <1>8 DEF Rename, JsonTypeOK
    <2>2. QED
      BY <1>8, <2>1 DEF Rename, BetweenTransactions, Idle
  <1>9. ASSUME NEW w \in Writers, WriteFails(w) PROVE SaveInv'
    BY <1>9 DEF WriteFails, BetweenTransactions, Idle
  <1>10. CASE Close \/ Exit
    <2>1. UNCHANGED <<inTransaction, step>> /\ (~unsaved' \/ dropped')
      BY <1>10 DEF Close, Exit, FlushSync
    <2>2. QED
      BY <2>1 DEF BetweenTransactions, Idle
  <1>11. CASE Reopen
    BY <1>11 DEF Reopen, Load, BetweenTransactions, Idle
  <1>12. CASE UNCHANGED jsonVars
    BY <1>12 DEF jsonVars, BetweenTransactions, Idle
  <1>13. QED
    BY <1>2, <1>3, <1>4, <1>5, <1>6, <1>7, <1>8, <1>9, <1>10, <1>11, <1>12 DEF JsonNext

(* Nothing happens to the file after the exit has flushed it.              *)
LEMMA ExitStep == JsonTypeOK /\ ExitInv /\ [JsonNext]_jsonVars => ExitInv'
  <1> SUFFICES ASSUME JsonTypeOK, ExitInv, [JsonNext]_jsonVars PROVE ExitInv'
    OBVIOUS
  <1> USE DEF ExitInv, ExitSaves
  <1>1. Parts \in Nat /\ Idle = Parts + 1
    BY JsonAssumption DEF JsonAssumption, Idle
  <1>2. CASE Exit
    <2>1. LoopEmpty /\ UNCHANGED <<memory, step, writer>> /\ ~timer'
      BY <1>2 DEF Exit, FlushSync, JsonTypeOK
    <2>2. LoopEmpty'
      BY <2>1 DEF LoopEmpty, BetweenTransactions, Idle
    <2>3. dropped' \/ disk' = memory
      BY <1>2 DEF Exit, FlushSync
    <2>4. QED
      BY <2>1, <2>2, <2>3
  <1>3. CASE Close \/ Reopen \/ \E u \in Updates : Update(u)
    <2>1. phase' # "exited"
      BY <1>3 DEF Close, Reopen, Update
    <2>2. QED
      BY <2>1
  <1>4. ASSUME NEW x \in Transactions, BeginTransaction(x) \/ AddPart(x) \/ Commit(x)
        PROVE  ExitInv'
    <2>1. phase' = phase
      BY <1>4 DEF BeginTransaction, AddPart, Commit
    <2>2. phase # "exited"
      <3>1. CASE BeginTransaction(x)
        BY <3>1 DEF BeginTransaction
      <3>2. CASE AddPart(x) \/ Commit(x)
        <4>1. step[x] # Idle
          BY <1>1, <3>2 DEF AddPart, Commit, JsonTypeOK
        <4>2. QED
          BY <4>1 DEF LoopEmpty, BetweenTransactions
      <3>3. QED
        BY <1>4, <3>1, <3>2
    <2>3. QED
      BY <2>1, <2>2
  <1>5. ASSUME NEW w \in Writers,
               TimerFires(w) \/ Flush(w) \/ Snapshot(w) \/ Rename(w) \/ WriteFails(w)
        PROVE  ExitInv'
    <2>1. phase' = phase
      BY <1>5 DEF TimerFires, Flush, StartWrite, Snapshot, Rename, WriteFails
    <2>2. phase # "exited"
      <3>1. timer \/ phase # "exited" \/ writer[w].at # "idle"
        BY <1>5 DEF TimerFires, Flush, Snapshot, Rename, WriteFails
      <3>2. QED
        BY <3>1 DEF LoopEmpty
    <2>3. QED
      BY <2>1, <2>2
  <1>6. CASE UNCHANGED jsonVars
    BY <1>6 DEF jsonVars, LoopEmpty, BetweenTransactions, Idle
  <1>7. QED
    BY <1>2, <1>3, <1>4, <1>5, <1>6 DEF JsonNext

(* So the invariant of the JSON store always holds.                        *)
LEMMA JsonAlways == JsonSpec => []JsonInv
  <1>1. JsonInv /\ [JsonNext]_jsonVars => JsonInv'
    BY JsonTypeStep, PartsStep, SaveStep, ExitStep DEF JsonInv
  <1>2. QED
    BY JsonInitial, <1>1, PTL DEF JsonSpec

(* As long as no write has failed, no change is forgotten: what no write   *)
(* has read yet is covered by a timer, a write about to read it or a       *)
(* commit to come, for any number of overlapping writes and transactions,  *)
(* and wherever a close comes.  After a failure this holds again from the  *)
(* next change or write on.                                                *)
THEOREM UnsavedIsScheduledHolds == JsonSpec => []UnsavedIsScheduled
  <1>1. JsonInv => UnsavedIsScheduled
    BY DEF JsonInv, SaveInv
  <1>2. QED
    BY JsonAlways, <1>1, PTL

(* Whenever the process dies, the file parses and holds exchanges whole,   *)
(* for any number of parts; excepted are those that a close() met half     *)
(* done.                                                                   *)
THEOREM ExchangeWholeOnDiskHolds == JsonSpec => []ExchangeWholeOnDisk
  <1>1. JsonInv => ExchangeWholeOnDisk
    BY DEF JsonInv, PartsInv, Whole, Sound, ExchangeWholeOnDisk
  <1>2. QED
    BY JsonAlways, <1>1, PTL

(* A process that exits in order, its last flush not refused, leaves what  *)
(* it had in memory, whatever its asynchronous writes left before.         *)
THEOREM ExitSavesHolds == JsonSpec => []ExitSaves
  <1>1. JsonInv => ExitSaves
    BY DEF JsonInv, ExitInv
  <1>2. QED
    BY JsonAlways, <1>1, PTL
===============================================================================
