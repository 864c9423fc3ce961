------------------------- MODULE ReaderLoop_proofs -------------------------
(***************************************************************************)
(* Theorems about the main loop, for any number of readers and tags, for   *)
(* cleared and uncleared memory, with and without missed selects.          *)
(***************************************************************************)
EXTENDS ReaderLoop, TLAPS

(* A poll that asks for a tag finds that tag or none, one that asks for    *)
(* none finds a tag within reach or none; and without missed selects it    *)
(* finds none only when there is none to find.                             *)
LEMMA PollResult ==
    ASSUME TypeOK, NEW r \in Readers, NEW old \in Tags \cup {NULL, Garbage},
           NEW tag \in ned_get_tag(r, old)
    PROVE  /\ tag \in Tags \cup {NULL}
           /\ tag # NULL => tag \in Reachable(r)
           /\ old # NULL => tag \in {old, NULL}
           /\ tag = NULL /\ ~LossySelect /\ old = NULL => Reachable(r) = {}
           /\ tag = NULL /\ ~LossySelect /\ old # NULL => old \notin Reachable(r)
  BY PointersAssumption, SwitchesAssumption
     DEF TypeOK, ned_get_tag, Reachable, Missed

(* The for loop visits readers only.                                       *)
LEMMA NextReaderInRange ==
    ASSUME idx \in Readers, NextReader
    PROVE  /\ idx' \in 0 .. NumReaders
           /\ pc' \in {"sleep", "scan"}
           /\ pc' = "scan" => idx' \in Readers
  BY ReadersAssumption DEF NextReader, Readers

-----------------------------------------------------------------------------

LEMMA TypeInit == Init => TypeOK
  BY ReadersAssumption, PointersAssumption
     DEF Init, TypeOK, Readers, Uninitialised, Locations

LEMMA TypeStep == TypeOK /\ [Next]_vars => TypeOK'
<1> SUFFICES ASSUME TypeOK, [Next]_vars PROVE TypeOK'
  OBVIOUS
<1> USE DEF TypeOK, Locations, program, world
<1>1. ASSUME NEW r \in Readers, Attach(r) PROVE TypeOK'
  BY <1>1 DEF Attach
<1>2. ASSUME NEW r \in Readers, Detach(r) PROVE TypeOK'
  BY <1>2 DEF Detach
<1>3. ASSUME NEW r \in Readers, NEW t \in Tags, TagEnter(r, t) PROVE TypeOK'
  BY <1>3 DEF TagEnter
<1>4. ASSUME NEW r \in Readers, NEW t \in Tags, TagLeave(r, t) PROVE TypeOK'
  BY <1>4 DEF TagLeave
<1>5. CASE CallInitGate
  BY <1>5 DEF CallInitGate
<1>6. CASE Wake
  BY <1>6, ReadersAssumption DEF Wake, Readers
<1>7. CASE ConnectOk
  <2>1. idx \in Readers
    BY <1>7 DEF ConnectOk
  <2> QED BY <1>7, <2>1, NextReaderInRange DEF ConnectOk
<1>8. CASE ConnectFails
  <2>1. idx \in Readers
    BY <1>8 DEF ConnectFails
  <2> QED BY <1>8, <2>1, NextReaderInRange DEF ConnectFails
<1>9. ASSUME NEW tag, Poll(tag) PROVE idx \in Readers /\ tag \in Tags \cup {NULL} /\ new_tag' = tag
  <2>1. idx \in Readers /\ oldtag_list[idx] \in Tags \cup {NULL, Garbage}
    BY <1>9 DEF Poll
  <2> QED BY <1>9, <2>1, PollResult DEF Poll
<1>10. CASE PollUnchanged
  <2>1. idx \in Readers /\ new_tag' \in Tags \cup {NULL}
    BY <1>9, <1>10 DEF PollUnchanged
  <2> QED BY <1>10, <2>1, NextReaderInRange DEF PollUnchanged
<1>11. CASE PollRemoved
  <2>1. idx \in Readers /\ new_tag' = NULL
    BY <1>9, <1>11 DEF PollRemoved
  <2> QED BY <1>11, <2>1, NextReaderInRange DEF PollRemoved
<1>12. ASSUME NEW t \in Tags, PollInserted(t) PROVE TypeOK'
  <2>1. idx \in Readers /\ new_tag' = t
    BY <1>9, <1>12 DEF PollInserted
  <2> QED BY <1>12, <2>1 DEF PollInserted
<1>13. CASE PollCrashes
  BY <1>13 DEF PollCrashes
<1>14. CASE InitGateReturns
  BY <1>14 DEF InitGateReturns
<1>15. CASE InsertReturns
  <2>1. idx \in Readers /\ new_tag \in Tags
    BY <1>15 DEF InsertReturns
  <2> QED BY <1>15, <2>1, NextReaderInRange DEF InsertReturns
<1>16. CASE HandlerQuit
  BY <1>16 DEF HandlerQuit
<1>17. CASE UNCHANGED vars
  BY <1>17 DEF vars
<1> QED
  BY <1>1, <1>2, <1>3, <1>4, <1>5, <1>6, <1>7, <1>8, <1>10, <1>11, <1>12, <1>13,
     <1>14, <1>15, <1>16, <1>17
     DEF Next, World, Main, Handler, HandlerReturn

(* Whatever the world does, the variables of the loop keep their types,    *)
(* and the loop stays within its readers.                                  *)
THEOREM TypeCorrect == SafeSpec => []TypeOK
<1>1. Init => TypeOK
  BY TypeInit
<1>2. TypeOK /\ [Next]_vars => TypeOK'
  BY TypeStep
<1> QED BY <1>1, <1>2, PTL DEF SafeSpec

-----------------------------------------------------------------------------

(* What a tag that a poll newly finds implies about the record.            *)
LEMMA InsertedOverNothing ==
    ASSUME TypeOK, NEW t \in Tags, PollInserted(t)
    PROVE  /\ idx \in Readers
           /\ oldtag_list[idx] = NULL
           /\ t \in Reachable(idx)
           /\ new_tag' = t
           /\ pc = "scan"
<1>1. idx \in Readers /\ oldtag_list[idx] \in Tags \cup {NULL, Garbage}
  BY DEF PollInserted, Poll, TypeOK
<1>2. t \in ned_get_tag(idx, oldtag_list[idx]) /\ t # NULL
  BY PointersAssumption DEF PollInserted, Poll
<1> QED BY <1>1, <1>2, PollResult DEF PollInserted, Poll

(* What a tag that a poll no longer finds implies about its reader.        *)
LEMMA RemovedOutOfReach ==
    ASSUME TypeOK, PollRemoved
    PROVE  /\ idx \in Readers
           /\ oldtag_list[idx] # NULL
           /\ ~LossySelect => oldtag_list[idx] \notin Reachable(idx)
           /\ pc = "scan"
<1>1. idx \in Readers /\ oldtag_list[idx] \in Tags \cup {NULL, Garbage}
  BY DEF PollRemoved, Poll, TypeOK
<1>2. NULL \in ned_get_tag(idx, oldtag_list[idx]) /\ oldtag_list[idx] # NULL
  BY DEF PollRemoved, Poll
<1> QED BY <1>1, <1>2, PollResult DEF PollRemoved, Poll

(* A step of the loop that reports nothing new leaves the record alone.    *)
LEMMA RecordKept ==
    ASSUME NEW r \in Readers, TypeOK, pc \notin {"tag_insert"}, ~Stopped,
           pc' \notin {"tag_insert"}, ~Stopped', oldtag_list'[r] = oldtag_list[r]
    PROVE  Reported(r)' = Reported(r)
  BY DEF Reported, Stopped

LEMMA ServedStep == TypeOK /\ ServedIsReported /\ [Next]_vars => ServedIsReported'
<1> SUFFICES ASSUME TypeOK, ServedIsReported, [Next]_vars, ~LossySelect, ~Stopped'
             PROVE  \A r \in Readers : (served[r] \subseteq {Reported(r)} \cap Reachable(r))'
  BY DEF ServedIsReported
<1> USE DEF program, world
<1>1. ~Stopped
  BY DEF Stopped, Next, World, Main, Handler, HandlerReturn, Attach, Detach, TagEnter,
         TagLeave, CallInitGate, Wake, ConnectOk, ConnectFails, PollUnchanged, PollRemoved,
         PollInserted, Poll, PollCrashes, InitGateReturns, InsertReturns, HandlerQuit,
         Handling, vars
<1>2. \A r \in Readers : served[r] \subseteq {Reported(r)} \cap Reachable(r)
  BY <1>1 DEF ServedIsReported
<1> DEFINE Kept == pc' = pc /\ UNCHANGED <<idx, oldtag_list, new_tag>>
<1>3. ASSUME Kept PROVE \A r \in Readers : Reported(r)' = Reported(r)
  BY <1>3 DEF Reported, Stopped
<1>4. ASSUME NEW q \in Readers, Attach(q)
      PROVE  \A r \in Readers : (served[r] \subseteq {Reported(r)} \cap Reachable(r))'
  BY <1>2, <1>3, <1>4 DEF Attach, Reachable
<1>5. ASSUME NEW q \in Readers, Detach(q)
      PROVE  \A r \in Readers : (served[r] \subseteq {Reported(r)} \cap Reachable(r))'
  BY <1>2, <1>3, <1>5 DEF Detach, Reachable, TypeOK
<1>6. ASSUME NEW q \in Readers, NEW t \in Tags, TagEnter(q, t)
      PROVE  \A r \in Readers : (served[r] \subseteq {Reported(r)} \cap Reachable(r))'
  BY <1>2, <1>3, <1>6 DEF TagEnter, Reachable, TypeOK
<1>7. ASSUME NEW q \in Readers, NEW t \in Tags, TagLeave(q, t)
      PROVE  \A r \in Readers : (served[r] \subseteq {Reported(r)} \cap Reachable(r))'
  BY <1>2, <1>3, <1>7 DEF TagLeave, Reachable, TypeOK
<1>8. ASSUME pc # "tag_insert", pc' # "tag_insert",
             UNCHANGED <<oldtag_list, usable, field, served>>
      PROVE  \A r \in Readers : (served[r] \subseteq {Reported(r)} \cap Reachable(r))'
  BY <1>1, <1>2, <1>8, RecordKept DEF Reachable
<1>9. CASE ConnectOk
  <2>1. idx \in Readers /\ pc = "scan" /\ pc' # "tag_insert"
    BY <1>9 DEF ConnectOk, NextReader, TypeOK
  <2>2. \A r \in Readers : Reachable(r) \subseteq Reachable(r)'
    BY <1>9, <2>1 DEF ConnectOk, Reachable, TypeOK
  <2>3. \A r \in Readers : Reported(r)' = Reported(r)
    BY <1>1, <1>9, <2>1, RecordKept DEF ConnectOk
  <2> QED BY <1>2, <1>9, <2>2, <2>3 DEF ConnectOk
<1>10. CASE PollRemoved
  <2>1. /\ idx \in Readers /\ pc = "scan" /\ pc' # "tag_insert"
        /\ oldtag_list[idx] \notin Reachable(idx)
    BY <1>10, RemovedOutOfReach DEF PollRemoved, NextReader
  <2>2. served[idx] = {}
    BY <1>1, <1>2, <2>1, PointersAssumption DEF Reported, Stopped, Reachable, TypeOK
  <2>3. \A r \in Readers : r # idx => Reported(r)' = Reported(r)
    BY <1>1, <1>10, <2>1, RecordKept DEF PollRemoved, TypeOK
  <2> QED BY <1>2, <1>10, <2>1, <2>2, <2>3 DEF PollRemoved, Reachable
<1>11. ASSUME NEW t \in Tags, PollInserted(t)
       PROVE  \A r \in Readers : (served[r] \subseteq {Reported(r)} \cap Reachable(r))'
  <2>1. /\ idx \in Readers /\ pc = "scan" /\ oldtag_list[idx] = NULL
        /\ t \in Reachable(idx) /\ new_tag' = t
    BY <1>11, InsertedOverNothing
  <2>2. served[idx] = {}
    BY <1>1, <1>2, <2>1, PointersAssumption DEF Reported, Stopped, Reachable, TypeOK
  <2>3. Reported(idx)' = t
    BY <1>11, <2>1 DEF PollInserted, Reported, Stopped
  <2>4. \A r \in Readers : r # idx => Reported(r)' = Reported(r)
    BY <1>1, <1>11, <2>1 DEF PollInserted, Reported, Stopped
  <2>5. served' = [served EXCEPT ![idx] = {t}]
    BY <1>11, <2>2 DEF PollInserted
  <2>6. \A r \in Readers : Reachable(r)' = Reachable(r)
    BY <1>11 DEF PollInserted, Reachable
  <2> QED BY <1>2, <2>1, <2>3, <2>4, <2>5, <2>6 DEF TypeOK
<1>12. CASE InsertReturns
  <2>1. idx \in Readers /\ pc = "tag_insert" /\ new_tag \in Tags /\ pc' # "tag_insert"
    BY <1>12 DEF InsertReturns, NextReader, TypeOK
  <2>2. Reported(idx) = new_tag
    BY <1>1, <2>1 DEF Reported
  <2>3. oldtag_list' = [oldtag_list EXCEPT ![idx] = new_tag]
    BY <1>12 DEF InsertReturns
  <2>4. ASSUME NEW r \in Readers PROVE Reported(r)' = Reported(r)
    <3>1. CASE r = idx
      BY <2>1, <2>2, <2>3, <3>1 DEF Reported, TypeOK
    <3>2. CASE r # idx
      BY <1>1, <2>1, <2>3, <3>2 DEF Reported, TypeOK
    <3> QED BY <3>1, <3>2
  <2> QED BY <1>2, <1>12, <2>4 DEF InsertReturns, Reachable
<1>13. CASE CallInitGate \/ Wake \/ ConnectFails \/ PollUnchanged \/ InitGateReturns
  <2>1. pc # "tag_insert" /\ pc' # "tag_insert"
    BY <1>13 DEF CallInitGate, Wake, ConnectFails, PollUnchanged, Poll, InitGateReturns, NextReader
  <2>2. UNCHANGED <<oldtag_list, usable, field, served>>
    BY <1>13 DEF CallInitGate, Wake, ConnectFails, PollUnchanged, InitGateReturns
  <2> QED BY <1>8, <2>1, <2>2
<1>14. CASE HandlerQuit \/ PollCrashes
  BY <1>14 DEF HandlerQuit, PollCrashes, Stopped
<1>15. CASE UNCHANGED vars
  BY <1>2, <1>3, <1>15 DEF vars, Reachable
<1> QED
  BY <1>4, <1>5, <1>6, <1>7, <1>9, <1>10, <1>11, <1>12, <1>13, <1>14, <1>15
     DEF Next, World, Main, Handler, HandlerReturn

(* As long as no select is missed, the tags served at a reader and still   *)
(* there are at most the one tag the daemon has on record for it.          *)
THEOREM ServedOnRecord == SafeSpec => []ServedIsReported
<1>1. Init => ServedIsReported
  BY DEF Init, ServedIsReported
<1> QED BY <1>1, TypeCorrect, ServedStep, PTL DEF SafeSpec

(* One pass per presentation: as long as no select is missed, no tag is    *)
(* handed to the handler twice without having left in between.             *)
THEOREM PassedOnce == SafeSpec => OncePerPresentation
<1> DEFINE Fresh ==
      ~LossySelect => \A r \in Readers, t \in Tags : NewPass(r, t) => t \notin served[r]
<1>1. TypeOK /\ ServedIsReported /\ [Next]_vars => [Fresh]_vars
  <2> SUFFICES ASSUME TypeOK, ServedIsReported, Next, ~LossySelect,
                      NEW r \in Readers, NEW t \in Tags, NewPass(r, t)
               PROVE  t \notin served[r]
    OBVIOUS
  <2>1. PICK u \in Tags : PollInserted(u)
    BY DEF NewPass, Next, World, Main, Handler, HandlerReturn, Attach, Detach, TagEnter,
           TagLeave, CallInitGate, Wake, ConnectOk, ConnectFails, PollUnchanged, PollRemoved,
           PollCrashes, InitGateReturns, InsertReturns, HandlerQuit, NextReader, program
  <2>2. idx = r /\ oldtag_list[r] = NULL /\ pc = "scan"
    BY <2>1, InsertedOverNothing DEF NewPass
  <2>3. Reported(r) = NULL /\ ~Stopped
    BY <2>2, PointersAssumption DEF Reported, Stopped
  <2> QED BY <2>3, PointersAssumption DEF ServedIsReported
<1> QED BY <1>1, TypeCorrect, ServedOnRecord, PTL DEF SafeSpec, OncePerPresentation

-----------------------------------------------------------------------------
(* The loop implements GateEvents.                                         *)

present == [r \in Readers |-> Reachable(r)]
reported == [r \in Readers |-> Reported(r)]

(* A step that changes neither the record nor whether the daemon runs is   *)
(* one of the world, whatever it does to the tags within reach.            *)
LEMMA WorldMoves ==
    ASSUME TypeOK', ~Stopped' <=> ~Stopped, \A r \in Readers : Reported(r)' = Reported(r)
    PROVE  Promise!Move
<1>1. present' \in [Readers -> SUBSET Tags]
  BY DEF present, Reachable, TypeOK
<1>2. reported' = reported
  BY DEF reported
<1> QED BY <1>1, <1>2 DEF Promise!Move, present, reported

LEMMA RefinementStep ==
    TypeOK /\ TypeOK' /\ [Next]_vars => [Promise!Next]_(Promise!vars)
<1> SUFFICES ASSUME TypeOK, TypeOK', [Next]_vars
             PROVE  Promise!Next \/ UNCHANGED Promise!vars
  OBVIOUS
<1> USE DEF program, world
<1>1. ASSUME UNCHANGED program PROVE Promise!Next
  <2>1. \A r \in Readers : Reported(r)' = Reported(r)
    BY <1>1 DEF Reported, Stopped
  <2>2. ~Stopped' <=> ~Stopped
    BY <1>1 DEF Stopped
  <2> QED BY <2>1, <2>2, WorldMoves DEF Promise!Next
<1>2. CASE World
  BY <1>1, <1>2 DEF World, Attach, Detach, TagEnter, TagLeave
<1>3. ASSUME pc \notin {"tag_insert", "exited", "crashed"},
             pc' \notin {"tag_insert", "exited", "crashed"}, UNCHANGED oldtag_list
      PROVE  Promise!Next
  <2>1. \A r \in Readers : Reported(r)' = Reported(r)
    BY <1>3 DEF Reported, Stopped
  <2>2. ~Stopped' <=> ~Stopped
    BY <1>3 DEF Stopped
  <2> QED BY <2>1, <2>2, WorldMoves DEF Promise!Next
<1>4. CASE CallInitGate \/ Wake \/ ConnectOk \/ ConnectFails \/ PollUnchanged \/ InitGateReturns
  <2>1. pc \notin {"tag_insert", "exited", "crashed"} /\ pc' \notin {"tag_insert", "exited", "crashed"}
    BY <1>4 DEF CallInitGate, Wake, ConnectOk, ConnectFails, PollUnchanged, Poll,
                InitGateReturns, NextReader
  <2>2. UNCHANGED oldtag_list
    BY <1>4 DEF CallInitGate, Wake, ConnectOk, ConnectFails, PollUnchanged, InitGateReturns
  <2> QED BY <1>3, <2>1, <2>2
<1>5. CASE PollRemoved
  <2> DEFINE q == idx
  <2>1. /\ q \in Readers /\ pc = "scan" /\ oldtag_list[q] # NULL
        /\ pc' \notin {"tag_insert", "exited", "crashed"}
        /\ ~LossySelect => oldtag_list[q] \notin Reachable(q)
        /\ oldtag_list' = [oldtag_list EXCEPT ![q] = NULL]
    BY <1>5, RemovedOutOfReach DEF PollRemoved, NextReader
  <2>2. ~Stopped /\ ~Stopped'
    BY <2>1 DEF Stopped
  <2>3. ASSUME NEW r \in Readers PROVE Reported(r)' = IF r = q THEN NULL ELSE Reported(r)
    BY <2>1, <2>2, PointersAssumption DEF Reported, TypeOK
  <2>4. CASE oldtag_list[q] \in Tags
    <3>1. Reported(q) = oldtag_list[q]
      BY <2>1, <2>2, <2>4 DEF Reported
    <3>2. LossySelect \/ ~LossySelect
      BY SwitchesAssumption
    <3>3. reported' = [reported EXCEPT ![q] = NULL]
      BY <2>1, <2>3 DEF reported
    <3>4. present' = present
      BY <1>5 DEF PollRemoved, present, Reachable
    <3>5. reported[q] # NULL /\ (LossySelect \/ reported[q] \notin present[q])
      BY <2>1, <3>1, <3>2 DEF reported, present
    <3>6. Promise!Forget(q)
      BY <2>2, <3>3, <3>4, <3>5 DEF Promise!Forget, present, reported
    <3> QED BY <2>1, <3>6 DEF Promise!Next
  <2>5. CASE oldtag_list[q] \notin Tags
    <3>1. \A r \in Readers : Reported(r)' = Reported(r)
      BY <2>1, <2>2, <2>3, <2>5 DEF Reported
    <3> QED BY <2>2, <3>1, WorldMoves DEF Promise!Next
  <2> QED BY <2>4, <2>5
<1>6. ASSUME NEW t \in Tags, PollInserted(t) PROVE Promise!Next
  <2>1. /\ idx \in Readers /\ pc = "scan" /\ oldtag_list[idx] = NULL
        /\ t \in Reachable(idx) /\ new_tag' = t
        /\ pc' = "tag_insert" /\ UNCHANGED <<idx, oldtag_list>>
    BY <1>6, InsertedOverNothing DEF PollInserted
  <2>2. ~Stopped /\ ~Stopped'
    BY <2>1 DEF Stopped
  <2>3. Reported(idx) = NULL /\ Reported(idx)' = t
    BY <2>1, <2>2, PointersAssumption DEF Reported
  <2>4. \A r \in Readers : r # idx => Reported(r)' = Reported(r)
    BY <2>1, <2>2 DEF Reported
  <2>5. reported' = [reported EXCEPT ![idx] = t]
    BY <2>1, <2>3, <2>4 DEF reported
  <2>6. present' = present
    BY <1>6 DEF PollInserted, present, Reachable
  <2>7. reported[idx] = NULL /\ t \in present[idx]
    BY <2>1, <2>3 DEF reported, present
  <2>8. Promise!Report(idx, t)
    BY <2>2, <2>5, <2>6, <2>7 DEF Promise!Report, present, reported
  <2> QED BY <2>1, <2>8 DEF Promise!Next
<1>7. CASE InsertReturns
  <2>1. /\ idx \in Readers /\ pc = "tag_insert" /\ new_tag \in Tags
        /\ pc' \notin {"tag_insert", "exited", "crashed"}
        /\ oldtag_list' = [oldtag_list EXCEPT ![idx] = new_tag]
    BY <1>7 DEF InsertReturns, NextReader, TypeOK
  <2>2. ~Stopped /\ ~Stopped'
    BY <2>1 DEF Stopped
  <2>3. ASSUME NEW r \in Readers PROVE Reported(r)' = Reported(r)
    <3>1. CASE r = idx
      BY <2>1, <2>2, <3>1 DEF Reported, TypeOK
    <3>2. CASE r # idx
      BY <2>1, <2>2, <3>2 DEF Reported, TypeOK
    <3> QED BY <3>1, <3>2
  <2> QED BY <2>2, <2>3, WorldMoves DEF Promise!Next
<1>8. CASE HandlerQuit \/ PollCrashes
  <2>1. ~Stopped /\ Stopped' /\ UNCHANGED <<usable, field>>
    BY <1>8 DEF HandlerQuit, PollCrashes, Handling, Stopped
  <2>2. reported' = Promise!NoneReported
    BY <2>1 DEF reported, Reported, Promise!NoneReported
  <2>3. present' = present
    BY <2>1 DEF present, Reachable
  <2>4. Promise!Stop
    BY <2>1, <2>2, <2>3 DEF Promise!Stop, present, reported
  <2> QED BY <2>4 DEF Promise!Next
<1>9. CASE UNCHANGED vars
  BY <1>1, <1>9 DEF vars
<1> QED
  BY <1>2, <1>4, <1>5, <1>6, <1>7, <1>8, <1>9 DEF Next, Main, Handler, HandlerReturn

(* The loop does what GateEvents promises: it reports only tags within     *)
(* reach, one at a time per reader, and forgets them only when a poll did  *)
(* not find them.                                                          *)
THEOREM LoopKeepsPromise == SafeSpec => Refinement
<1>1. Init => Promise!Init
  BY PointersAssumption
     DEF Init, Promise!Init, Promise!NoneReported, Reachable, Reported, Stopped, Uninitialised
<1>2. QED
  BY <1>1, TypeCorrect, RefinementStep, PTL DEF SafeSpec, Refinement, Promise!Spec
=============================================================================
