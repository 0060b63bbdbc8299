--------------------------- MODULE Dashboard_proofs ---------------------------
(***************************************************************************)
(* Theorems of Dashboard: for any actions, any number of polls in flight,  *)
(* of schedules and of failures of the network.                            *)
(***************************************************************************)
EXTENDS Dashboard, TLAPS

(***************************************************************************)
(* The inductive invariant.  The server has an action whenever it is not   *)
(* idle; an answer that carries one, and one that says its time is up,     *)
(* says it is pending; the page shows an action only if pending was the    *)
(* last it heard, and marks one as fired only if idle was not.             *)
(***************************************************************************)
ServerOK ==
    /\ server \in [state : {"idle", "pending", "executing"}, pending : Scheduled \cup {None}]
    /\ power \in {"on", "asleep", "going", "off"} /\ lastId \in 0..MaxIds
    /\ server.state # "idle" => server.pending \in Scheduled

WorldOK == passed \subseteq Ids /\ network \in BOOLEAN /\ outages \in 0..MaxOutages

Tells(answer) ==
    /\ answer.pending # None => answer.state = "pending"
    /\ answer.zero => answer.state = "pending" /\ answer.pending \in Scheduled

PollsOK ==
    /\ polls \in [Polls -> {Free} \cup Answers]
    /\ \A p \in Polls : polls[p].at = "answered" => Tells(polls[p])

PostOK == post \in Posts \cup {None}

PageOK ==
    /\ shown \in Scheduled \cup {None} /\ fired \in Actions \cup {None}
    /\ failed \in 0..2 /\ badge \in {"online", "offline", "unreachable"}
    /\ heard \in {"idle", "pending", "executing"} /\ ranOut \subseteq Ids
    /\ shown # None => heard = "pending"
    /\ fired # None => heard # "idle"

CancelOK == cancelled \subseteq {c \in Ids \X Ids : c[1] = c[2]}

PageInv == ServerOK /\ WorldOK /\ PollsOK /\ PostOK /\ PageOK /\ CancelOK

LEMMA Numbers ==
    /\ PoweringOff \subseteq Actions /\ None \notin Actions /\ MaxIds \in Nat /\ MaxOutages \in Nat
BY PageAssumption

LEMMA PageStarts == Init => PageInv
<1> SUFFICES ASSUME Init PROVE PageInv
  OBVIOUS
<1>1. ServerOK
  BY Numbers DEF Init, ServerOK
<1>2. WorldOK /\ PostOK /\ CancelOK
  BY Numbers DEF Init, WorldOK, PostOK, CancelOK
<1>3. PollsOK
  <2>1. Free.at # "answered"
    BY DEF Free
  <2> QED
    BY <2>1 DEF Init, PollsOK
<1>4. PageOK
  BY DEF Init, PageOK
<1> QED
  BY <1>1, <1>2, <1>3, <1>4 DEF PageInv

-----------------------------------------------------------------------------
(* The server's side. *)

\* What a new schedule is.
LEMMA Accepting ==
    \A a \in Actions : ServerOK /\ Accepts(a) /\ power' = power
       => ServerOK' /\ server'.pending \in Scheduled
<1> SUFFICES ASSUME NEW a \in Actions, ServerOK, Accepts(a), power' = power
             PROVE  ServerOK' /\ server'.pending \in Scheduled
  OBVIOUS
<1>1. lastId + 1 \in Ids /\ lastId' \in 0..MaxIds
  BY Numbers DEF ServerOK, Accepts, Ids
<1>2. [id |-> lastId + 1, action |-> a] \in Scheduled
  BY <1>1 DEF Scheduled
<1> QED
  BY <1>1, <1>2 DEF ServerOK, Accepts

LEMMA ServerSteps ==
    ServerOK /\ (Tick \/ Suspends \/ ExecuteReturns \/ PowersOff \/ AbortElsewhere) => ServerOK'
<1> SUFFICES ASSUME ServerOK, Tick \/ Suspends \/ ExecuteReturns \/ PowersOff \/ AbortElsewhere
             PROVE  ServerOK'
  OBVIOUS
<1>1. Idle \in [state : {"idle", "pending", "executing"}, pending : Scheduled \cup {None}]
      /\ Idle.state = "idle"
  BY DEF Idle
<1>2. CASE Tick
  BY <1>1, <1>2 DEF Tick, ServerOK
<1>3. CASE Suspends
  BY <1>3 DEF Suspends, ServerOK
<1>4. CASE ExecuteReturns
  BY <1>1, <1>4 DEF ExecuteReturns, ServerOK
<1>5. CASE PowersOff
  BY <1>5 DEF PowersOff, ServerOK
<1>6. CASE AbortElsewhere
  BY <1>1, <1>6 DEF AbortElsewhere, ServerOK
<1> QED
  BY <1>2, <1>3, <1>4, <1>5, <1>6

\* What a poll is answered.
LEMMA StatusIs == ServerOK => Status \in Answers /\ Tells(Status)
<1> SUFFICES ASSUME ServerOK PROVE Status \in Answers /\ Tells(Status)
  OBVIOUS
<1> DEFINE pending == IF server.state = "pending" THEN server.pending ELSE None
           zero    == server.state = "pending" /\ server.pending.id \in passed
<1>1. /\ server.state \in {"idle", "pending", "executing"} /\ pending \in Scheduled \cup {None}
      /\ pending # None => server.state = "pending"
      /\ server.state = "pending" => pending \in Scheduled
  BY DEF ServerOK
<1>2. zero \in BOOLEAN /\ (zero => server.state = "pending")
  OBVIOUS
<1>3. Status = [at |-> "answered", state |-> server.state, pending |-> pending, zero |-> zero]
  BY DEF Status
<1> HIDE DEF pending, zero
<1>4. Status \in Answers
  BY <1>1, <1>2, <1>3 DEF Answers
<1>5. Tells(Status)
  BY <1>1, <1>2, <1>3 DEF Tells
<1> QED
  BY <1>4, <1>5

-----------------------------------------------------------------------------
(* The page's side. *)

LEMMA AnswerSteps ==
    \A p \in Polls : ServerOK /\ PollsOK /\ AnswerPoll(p) => PollsOK'
<1> SUFFICES ASSUME NEW p \in Polls, ServerOK, PollsOK, AnswerPoll(p) PROVE PollsOK'
  OBVIOUS
<1>1. PICK s : s = Status
  OBVIOUS
<1>2. s \in Answers /\ Tells(s) /\ polls' = [polls EXCEPT ![p] = s]
  BY <1>1, StatusIs DEF AnswerPoll
<1> QED
  BY <1>2 DEF PollsOK

LEMMA FreeSteps ==
    \A p \in Polls : PollsOK /\ polls' = [polls EXCEPT ![p] = Free] => PollsOK'
<1> SUFFICES ASSUME NEW p \in Polls, PollsOK, polls' = [polls EXCEPT ![p] = Free] PROVE PollsOK'
  OBVIOUS
<1>1. Free.at # "answered"
  BY DEF Free
<1> QED
  BY <1>1 DEF PollsOK

LEMMA ApplySteps ==
    \A p \in Polls : PollsOK /\ PageOK /\ ApplyStatus(p) => PageOK'
<1> SUFFICES ASSUME NEW p \in Polls, PollsOK, PageOK, ApplyStatus(p) PROVE PageOK'
  OBVIOUS
<1>1. PICK r : r = polls[p]
  OBVIOUS
<1>2. r \in Answers /\ Tells(r)
  BY <1>1 DEF ApplyStatus, PollsOK, Free
<1>3. /\ r.state \in {"idle", "pending", "executing"} /\ r.pending \in Scheduled \cup {None}
      /\ r.zero => r.state = "pending" /\ r.pending.action \in Actions /\ r.pending.id \in Ids
      /\ r.pending # None => r.state = "pending"
  BY <1>2 DEF Answers, Tells, Scheduled
<1>4. /\ failed' = 0 /\ badge' = "online" /\ shown' = r.pending /\ heard' = r.state
      /\ fired' = IF r.zero THEN r.pending.action ELSE IF r.state = "executing" THEN fired ELSE None
      /\ ranOut' = IF r.zero /\ r.pending.action \in PoweringOff THEN ranOut \cup {r.pending.id} ELSE ranOut
  BY <1>1 DEF ApplyStatus, Rendered
<1>5. fired' \in Actions \cup {None} /\ (fired' # None => r.state # "idle")
  BY <1>3, <1>4 DEF PageOK
<1>6. ranOut' \subseteq Ids
  BY <1>3, <1>4 DEF PageOK
<1> QED
  BY <1>3, <1>4, <1>5, <1>6 DEF PageOK

LEMMA PageSteps ==
    PostOK /\ PageOK /\ (CountdownEnds \/ PostAnswered \/ \E p \in Polls : PollFails(p)) => PageOK'
<1> SUFFICES ASSUME PostOK, PageOK, CountdownEnds \/ PostAnswered \/ \E p \in Polls : PollFails(p)
             PROVE  PageOK'
  OBVIOUS
<1>1. CASE CountdownEnds
  <2>1. /\ shown \in Scheduled /\ heard = "pending" /\ shown.action \in Actions /\ shown.id \in Ids
    BY <1>1 DEF CountdownEnds, PageOK, Scheduled
  <2>2. fired' = shown.action /\ ranOut' \subseteq Ids
    BY <1>1, <2>1 DEF CountdownEnds, Rendered, PageOK
  <2> QED
    BY <1>1, <2>1, <2>2 DEF CountdownEnds, PageOK
<1>2. CASE PostAnswered
  <2>1. post.kind = "scheduled" => post.pending \in Scheduled
    BY <1>2 DEF PostAnswered, PostOK, Posts
  <2> QED
    BY <1>2, <2>1 DEF PostAnswered, PageOK
<1>3. CASE \E p \in Polls : PollFails(p)
  BY <1>3 DEF PollFails, PageOK, history
<1> QED
  BY <1>1, <1>2, <1>3

LEMMA PostSteps ==
    ServerOK /\ PostOK /\ PageOK /\ CancelOK /\ (PressAbort \/ HandleAction \/ HandleAbort)
      => ServerOK' /\ PostOK' /\ CancelOK'
<1> SUFFICES ASSUME ServerOK, PostOK, PageOK, CancelOK, PressAbort \/ HandleAction \/ HandleAbort
             PROVE  ServerOK' /\ PostOK' /\ CancelOK'
  OBVIOUS
<1>1. CASE PressAbort
  <2>1. shown.id \in Ids
    BY <1>1 DEF PressAbort, PageOK, Scheduled
  <2> QED
    BY <1>1, <2>1 DEF PressAbort, PostOK, Posts, PC, history, ServerOK, CancelOK
<1>2. CASE HandleAction
  <2>1. post.action \in Actions
    BY <1>2 DEF HandleAction, PostOK, Posts
  <2>2. CASE Accepts(post.action) /\ post' = [kind |-> "scheduled", pending |-> server'.pending]
    <3>1. ServerOK' /\ server'.pending \in Scheduled
      BY <1>2, <2>1, <2>2, Accepting DEF HandleAction
    <3> QED
      BY <1>2, <2>2, <3>1 DEF HandleAction, PostOK, Posts, history, CancelOK
  <2>3. CASE post' = [kind |-> "refused"] /\ UNCHANGED <<server, lastId>>
    BY <1>2, <2>3 DEF HandleAction, PostOK, Posts, history, ServerOK, CancelOK
  <2> QED
    BY <1>2, <2>2, <2>3 DEF HandleAction
<1>3. CASE HandleAbort
  <2>1. post.id \in Ids
    BY <1>3 DEF HandleAbort, PostOK, Posts
  <2>2. cancelled' = cancelled \/ cancelled' = cancelled \cup {<<post.id, post.id>>}
    BY <1>3 DEF HandleAbort
  <2>3. CancelOK'
    <3>1. <<post.id, post.id>> \in {c \in Ids \X Ids : c[1] = c[2]}
      BY <2>1
    <3> QED
      BY <2>2, <3>1 DEF CancelOK
  <2>4. ServerOK'
    BY <1>3 DEF HandleAbort, ServerOK, Idle
  <2>5. PostOK'
    BY <1>3 DEF HandleAbort, PostOK, Posts
  <2> QED
    BY <2>3, <2>4, <2>5
<1> QED
  BY <1>1, <1>2, <1>3

-----------------------------------------------------------------------------
(* Every step. *)

LEMMA PageStep == PageInv /\ [Next]_vars => PageInv'
<1> SUFFICES ASSUME PageInv, [Next]_vars PROVE PageInv'
  OBVIOUS
<1>1. ServerOK /\ WorldOK /\ PollsOK /\ PostOK /\ PageOK /\ CancelOK
  BY DEF PageInv
<1>2. ASSUME UNCHANGED <<server, power, lastId>> PROVE ServerOK'
  BY <1>1, <1>2 DEF ServerOK
<1>3. ASSUME UNCHANGED <<passed, network, outages>> PROVE WorldOK'
  BY <1>1, <1>3 DEF WorldOK
<1>4. ASSUME UNCHANGED polls PROVE PollsOK'
  BY <1>1, <1>4 DEF PollsOK
<1>5. ASSUME UNCHANGED post PROVE PostOK'
  BY <1>1, <1>5 DEF PostOK
<1>6. ASSUME UNCHANGED <<shown, fired, failed, badge, heard, ranOut>> PROVE PageOK'
  BY <1>1, <1>6 DEF PageOK
<1>7. ASSUME UNCHANGED cancelled PROVE CancelOK'
  BY <1>1, <1>7 DEF CancelOK
<1>8. ASSUME NEW a \in Actions, ScheduleElsewhere(a) PROVE PageInv'
  BY <1>1, <1>3, <1>4, <1>5, <1>6, <1>7, <1>8, Accepting
     DEF ScheduleElsewhere, world, page, history, PageInv
<1>9. ASSUME NEW a \in Actions, Confirm(a) PROVE PageInv'
  <2>1. PostOK'
    BY <1>9 DEF Confirm, PostOK, Posts
  <2> QED
    BY <1>2, <1>3, <1>4, <1>6, <1>7, <1>9, <2>1 DEF Confirm, PC, world, page, history, PageInv
<1>10. ASSUME Tick \/ Suspends \/ ExecuteReturns \/ PowersOff \/ AbortElsewhere PROVE PageInv'
  <2>1. ServerOK'
    BY <1>1, <1>10, ServerSteps
  <2>2. UNCHANGED <<world, polls, post, page, history>>
    BY <1>10 DEF Tick, Suspends, ExecuteReturns, PowersOff, AbortElsewhere
  <2> QED
    BY <1>3, <1>4, <1>5, <1>6, <1>7, <2>1, <2>2 DEF world, page, history, PageInv
<1>11. ASSUME (\E i \in Ids : DeadlinePasses(i)) \/ NetworkFails \/ NetworkReturns PROVE PageInv'
  <2>1. WorldOK'
    <3>1. CASE \E i \in Ids : DeadlinePasses(i)
      BY <1>1, <3>1 DEF DeadlinePasses, WorldOK
    <3>2. CASE NetworkFails
      <4>1. outages' = outages + 1 /\ outages < MaxOutages /\ outages \in 0..MaxOutages
        BY <1>1, <3>2 DEF NetworkFails, WorldOK
      <4>2. outages' \in 0..MaxOutages
        BY <4>1, Numbers
      <4>3. network' \in BOOLEAN /\ passed' \subseteq Ids
        BY <1>1, <3>2 DEF NetworkFails, WorldOK
      <4> QED
        BY <4>2, <4>3 DEF WorldOK
    <3>3. CASE NetworkReturns
      BY <1>1, <3>3 DEF NetworkReturns, WorldOK
    <3> QED
      BY <1>11, <3>1, <3>2, <3>3
  <2>2. UNCHANGED <<PC, polls, post, page, history>>
    BY <1>11 DEF DeadlinePasses, NetworkFails, NetworkReturns
  <2> QED
    BY <1>2, <1>4, <1>5, <1>6, <1>7, <2>1, <2>2 DEF PC, page, history, PageInv
<1>12. ASSUME NEW p \in Polls, AnswerPoll(p) PROVE PageInv'
  <2>1. PollsOK'
    BY <1>1, <1>12, AnswerSteps
  <2> QED
    BY <1>2, <1>3, <1>5, <1>6, <1>7, <1>12, <2>1 DEF AnswerPoll, PC, world, page, history, PageInv
<1>13. ASSUME NEW p \in Polls, ApplyStatus(p) PROVE PageInv'
  <2>1. PollsOK' /\ PageOK'
    BY <1>1, <1>13, FreeSteps, ApplySteps DEF ApplyStatus
  <2> QED
    BY <1>2, <1>3, <1>5, <1>7, <1>13, <2>1 DEF ApplyStatus, PC, world, PageInv
<1>14. ASSUME NEW p \in Polls, PollFails(p) PROVE PageInv'
  <2>1. PollsOK' /\ PageOK'
    BY <1>1, <1>14, FreeSteps, PageSteps DEF PollFails
  <2> QED
    BY <1>2, <1>3, <1>5, <1>7, <1>14, <2>1 DEF PollFails, PC, world, history, PageInv
<1>15. ASSUME CountdownEnds PROVE PageInv'
  <2>1. PageOK'
    BY <1>1, <1>15, PageSteps
  <2> QED
    BY <1>2, <1>3, <1>4, <1>5, <1>7, <1>15, <2>1 DEF CountdownEnds, PC, world, PageInv
<1>16. ASSUME PostAnswered PROVE PageInv'
  <2>1. PageOK'
    BY <1>1, <1>16, PageSteps
  <2>2. PostOK'
    BY <1>16 DEF PostAnswered, PostOK
  <2> QED
    BY <1>2, <1>3, <1>4, <1>7, <1>16, <2>1, <2>2 DEF PostAnswered, PC, world, PageInv
<1>17. ASSUME PressAbort \/ HandleAction \/ HandleAbort PROVE PageInv'
  <2>1. ServerOK' /\ PostOK' /\ CancelOK'
    BY <1>1, <1>17, PostSteps
  <2>2. UNCHANGED <<world, polls, page, heard, ranOut>>
    BY <1>17 DEF PressAbort, HandleAction, HandleAbort, history
  <2> QED
    BY <1>3, <1>4, <1>6, <2>1, <2>2 DEF world, page, PageInv
<1>18. ASSUME PostFails PROVE PageInv'
  <2>1. PostOK'
    BY <1>18 DEF PostFails, PostOK
  <2> QED
    BY <1>2, <1>3, <1>4, <1>6, <1>7, <1>18, <2>1 DEF PostFails, PC, world, page, history, PageInv
<1>19. ASSUME UNCHANGED vars PROVE PageInv'
  BY <1>2, <1>3, <1>4, <1>5, <1>6, <1>7, <1>19 DEF vars, PC, world, page, history, PageInv
<1> QED
  BY <1>8, <1>9, <1>10, <1>11, <1>12, <1>13, <1>14, <1>15, <1>16, <1>17, <1>18, <1>19 DEF Next

LEMMA AlwaysInv == Spec => []PageInv
BY PageStarts, PageStep, PTL DEF Spec

\* Only a poll that fails takes the badge to "PC is offline", and only while a
\* shutdown is marked as fired.
LEMMA OfflineSteps ==
    Next /\ badge' # badge /\ badge' = "offline" => fired \in PoweringOff
<1> SUFFICES ASSUME Next, badge' # badge, badge' = "offline" PROVE fired \in PoweringOff
  OBVIOUS
<1>1. ASSUME NEW a \in Actions, ScheduleElsewhere(a) \/ Confirm(a) PROVE FALSE
  BY <1>1 DEF ScheduleElsewhere, Confirm, page
<1>2. ASSUME Tick \/ Suspends \/ ExecuteReturns \/ PowersOff \/ AbortElsewhere PROVE FALSE
  BY <1>2 DEF Tick, Suspends, ExecuteReturns, PowersOff, AbortElsewhere, page
<1>3. ASSUME (\E i \in Ids : DeadlinePasses(i)) \/ NetworkFails \/ NetworkReturns PROVE FALSE
  BY <1>3 DEF DeadlinePasses, NetworkFails, NetworkReturns, page
<1>4. ASSUME NEW p \in Polls, AnswerPoll(p) \/ ApplyStatus(p) PROVE FALSE
  BY <1>4 DEF AnswerPoll, ApplyStatus, page
<1>5. ASSUME NEW p \in Polls, PollFails(p) PROVE fired \in PoweringOff
  BY <1>5 DEF PollFails
<1>6. ASSUME CountdownEnds \/ PostAnswered PROVE FALSE
  BY <1>6 DEF CountdownEnds, PostAnswered
<1>7. ASSUME PressAbort \/ HandleAction \/ HandleAbort \/ PostFails PROVE FALSE
  BY <1>7 DEF PressAbort, HandleAction, HandleAbort, PostFails, page
<1> QED
  BY <1>1, <1>2, <1>3, <1>4, <1>5, <1>6, <1>7 DEF Next

-----------------------------------------------------------------------------
(* Theorems. *)

\* Server, messages and page stay in the states they are declared for, in whatever
\* order the answers come in.
THEOREM TypeCorrect == Spec => []TypeOK
<1>1. PageInv => TypeOK
  BY DEF PageInv, ServerOK, WorldOK, PollsOK, PostOK, PageOK, CancelOK, TypeOK
<1> QED
  BY <1>1, AlwaysInv, PTL

\* An abort cancels the action its page showed, and no other device's.
THEOREM AbortCancelsShown == Spec => []AbortCancelsWhatWasShown
<1>1. PageInv => AbortCancelsWhatWasShown
  BY DEF PageInv, CancelOK, AbortCancelsWhatWasShown
<1> QED
  BY <1>1, AlwaysInv, PTL

\* The page comes to say the PC is offline only if, by the last answer it took in,
\* an action was pending or executing.
THEOREM OfflineUnderWay == Spec => OfflineOnlyIfUnderWay
<1> DEFINE UnderWay == badge' # badge /\ badge' = "offline" => heard # "idle"
<1>1. PageInv /\ [Next]_vars => [UnderWay]_vars
  <2> SUFFICES ASSUME PageInv, Next, badge' # badge, badge' = "offline" PROVE heard # "idle"
    OBVIOUS
  <2>1. fired \in PoweringOff
    BY OfflineSteps
  <2>2. fired # None
    BY <2>1, Numbers
  <2> QED
    BY <2>2 DEF PageInv, PageOK
<1>2. Spec => [][UnderWay]_vars
  <2> HIDE DEF UnderWay
  <2> QED
    BY <1>1, AlwaysInv, PTL DEF Spec
<1> QED
  BY <1>2 DEF OfflineOnlyIfUnderWay
=============================================================================
