----------------------------- MODULE ServerProofs -----------------------------
(***************************************************************************)
(* Theorems about Server, for any finite set of requests and any number of  *)
(* permits: a permit is in the semaphore or held by exactly one task.       *)
(***************************************************************************)
EXTENDS Server, FiniteSetTheorems, TLAPS

-------------------------------------------------------------------------------
(* The inductive invariant.                                                 *)

TypeOK ==
  /\ phase \in {"serving", "draining", "closing", "stopped"}
  /\ client \in [Requests -> {"absent", "sent", "waiting", "gone"} \cup Answers]
  /\ task \in [Requests -> {"none", "queued", "running", "done", "panicked", "cancelled"}]
  /\ permits \in Nat

\* A request that has not been handled has no task, so the task it is given adds one.
NoTaskBeforeRun == \A r \in Requests : client[r] \in {"absent", "sent"} => task[r] = "none"

PermitsHeld == permits + Cardinality(Active) = MAX_OPERATIONS

\* Once drained, no request is in progress, and none is sent any more.
DrainedStays ==
  /\ phase \in {"closing", "stopped"} => Pending = {}
  /\ phase = "stopped" => Active = {}

ServerInv == TypeOK /\ NoTaskBeforeRun /\ PermitsHeld /\ DrainedStays

-------------------------------------------------------------------------------

\* The operations running are finite in number.
LEMMA ActiveFinite == IsFiniteSet(Active) /\ Cardinality(Active) \in Nat
<1>1. Active \in SUBSET Requests
  BY DEF Active
<1>2. IsFiniteSet(Active)
  BY <1>1, FS_Subset, ServerAssumption
<1> QED
  BY <1>2, FS_CardinalityType

\* A task that starts or ends changes their number by one.
LEMMA OneMoreActive ==
  ASSUME NEW r \in Requests, r \notin Active, Active' = Active \cup {r}
  PROVE  Cardinality(Active') = Cardinality(Active) + 1
BY ActiveFinite, FS_AddElement

\* An operation that ends leaves one less.
LEMMA OneLessActive ==
  ASSUME NEW r \in Requests, r \in Active, Active' = Active \ {r}
  PROVE  Cardinality(Active') = Cardinality(Active) - 1
BY ActiveFinite, FS_RemoveElement

\* A server that has just started holds all its permits.
LEMMA InitHolds == Init => ServerInv
<1> SUFFICES ASSUME Init PROVE ServerInv
  OBVIOUS
<1>1. Active = {} /\ Pending = {}
  BY DEF Init, Active, Pending
<1>2. Cardinality(Active) = 0
  BY <1>1, FS_EmptySet
<1> QED
  BY <1>1, <1>2, ServerAssumption
     DEF Init, ServerInv, TypeOK, NoTaskBeforeRun, PermitsHeld, DrainedStays, Answers

\* The invariant is inductive.
LEMMA NextPreserves ==
  ASSUME ServerInv, [Next]_vars
  PROVE  ServerInv'
<1> USE DEF ServerInv, TypeOK, NoTaskBeforeRun, PermitsHeld, DrainedStays
<1>c. ServerAssumption /\ Cardinality(Active) \in Nat
  BY ActiveFinite, ServerAssumption
<1> SUFFICES ASSUME Next PROVE ServerInv'
  <2>1. CASE UNCHANGED vars
    BY <2>1 DEF vars, Active, Pending
  <2> QED
    BY <2>1
<1>1. ASSUME NEW r \in Requests, Send(r) PROVE ServerInv'
  <2>1. Active' = Active
    BY <1>1 DEF Send, Active
  <2> QED
    BY <1>1, <2>1 DEF Send, Answers
<1>2. ASSUME NEW r \in Requests, Reject(r) PROVE ServerInv'
  <2>1. Active' = Active /\ Pending' \subseteq Pending /\ r \in Pending
    BY <1>2 DEF Reject, Active, Pending
  <2> QED
    BY <1>2, <2>1 DEF Reject, Answers
<1>3. ASSUME NEW r \in Requests, Run(r) PROVE ServerInv'
  <2>1. r \in Pending /\ r \notin Active
    BY <1>3 DEF Run, Pending, Active
  <2>2. CASE permits = 0
    <3>1. Active' = Active
      BY <1>3, <2>2 DEF Run, Active
    <3> QED
      BY <1>3, <2>1, <2>2, <3>1 DEF Run, Answers
  <2>3. CASE permits # 0
    <3>1. Active' = Active \cup {r}
      BY <1>3, <2>3 DEF Run, Active
    <3>2. Cardinality(Active') = Cardinality(Active) + 1
      BY <2>1, <3>1, OneMoreActive
    <3> QED
      BY <1>3, <1>c, <2>1, <2>3, <3>2 DEF Run, Answers
  <2> QED
    BY <2>2, <2>3
<1>4. ASSUME NEW r \in Requests, Begin(r) PROVE ServerInv'
  <2>1. Active' = Active /\ r \in Active /\ Pending' = Pending
    BY <1>4 DEF Begin, Active, Pending
  <2> QED
    BY <1>4, <2>1 DEF Begin
<1>5. ASSUME NEW r \in Requests, Finish(r) PROVE ServerInv'
  <2>1. Active' = Active \ {r} /\ r \in Active /\ Pending' = Pending
    BY <1>5 DEF Finish, Active, Pending
  <2>2. Cardinality(Active') = Cardinality(Active) - 1
    BY <2>1, OneLessActive
  <2> QED
    BY <1>5, <1>c, <2>1, <2>2 DEF Finish
<1>6. ASSUME NEW r \in Requests, Respond(r) PROVE ServerInv'
  <2>1. Active' = Active /\ Pending' \subseteq Pending
    BY <1>6 DEF Respond, Active, Pending
  <2> QED
    BY <1>6, <2>1 DEF Respond, Answers
<1>7. ASSUME NEW r \in Requests, Disconnect(r) PROVE ServerInv'
  <2>1. Active' = Active /\ Pending' \subseteq Pending
    BY <1>7 DEF Disconnect, Active, Pending
  <2> QED
    BY <1>7, <2>1 DEF Disconnect
<1>8. ASSUME NEW r \in Requests, Cancel(r) PROVE ServerInv'
  <2>1. Active' = Active \ {r} /\ r \in Active /\ Pending' = Pending
    BY <1>8 DEF Cancel, Active, Pending
  <2>2. Cardinality(Active') = Cardinality(Active) - 1
    BY <2>1, OneLessActive
  <2> QED
    BY <1>8, <1>c, <2>1, <2>2 DEF Cancel
<1>9. ASSUME Signal \/ Drained \/ Exit \/ Stopped PROVE ServerInv'
  <2>1. Active' = Active /\ Pending' = Pending
    BY <1>9 DEF Signal, Drained, Exit, Stopped, vars, Active, Pending
  <2> QED
    BY <1>9, <2>1 DEF Signal, Drained, Exit, Stopped, vars
<1> QED
  BY <1>1, <1>2, <1>3, <1>4, <1>5, <1>6, <1>7, <1>8, <1>9 DEF Next

\* The permits left and the operations running account for all permits, throughout.
THEOREM ServerInvariant == Spec => []ServerInv
BY InitHolds, NextPreserves, PTL DEF Spec

-------------------------------------------------------------------------------

\* Whatever the number of requests, at most MAX_OPERATIONS tasks hold resources,
\* and a server that has stopped has every permit back and has left no client
\* waiting (AppState::run).
THEOREM OperationsBounded == Spec => []AtMostMaxOperations
<1>1. ServerInv => AtMostMaxOperations
  <2> SUFFICES ASSUME ServerInv PROVE AtMostMaxOperations
    OBVIOUS
  <2>1. Active = {} => Cardinality(Active) = 0
    BY FS_EmptySet
  <2> QED
    BY <2>1, ActiveFinite, ServerAssumption
       DEF ServerInv, TypeOK, PermitsHeld, DrainedStays, AtMostMaxOperations
<1> QED
  BY <1>1, ServerInvariant, PTL

\* A request is refused only while every permit is held by the task of another.
THEOREM RefusalsJustified == Spec => RefusedOnlyWhenBusy
<1> DEFINE Justified(r) == client[r] # "busy" /\ client'[r] = "busy" =>
                             Cardinality(Active \ {r}) = MAX_OPERATIONS
<1>1. ASSUME ServerInv, [Next]_vars PROVE \A r \in Requests : Justified(r)
  <2> SUFFICES ASSUME NEW r \in Requests, client[r] # "busy", client'[r] = "busy"
               PROVE  Cardinality(Active \ {r}) = MAX_OPERATIONS
    OBVIOUS
  <2>1. client[r] = "sent" /\ permits = 0
    BY <1>1 DEF ServerInv, TypeOK, Next, vars, Send, Reject, Run, Begin, Finish, Respond,
                Disconnect, Cancel, Signal, Drained, Exit, Stopped
  <2>2. Active \ {r} = Active
    BY <1>1, <2>1 DEF ServerInv, NoTaskBeforeRun, Active
  <2> QED
    BY <1>1, <2>1, <2>2, ActiveFinite, ServerAssumption DEF ServerInv, PermitsHeld
<1>2. ServerInv /\ [Next]_vars => [\A r \in Requests : Justified(r)]_vars
  BY <1>1
<1> QED
  BY <1>2, ServerInvariant, PTL DEF Spec, RefusedOnlyWhenBusy
===============================================================================
