------------------------------ MODULE OnceCell ------------------------------
(***************************************************************************)
(* The lazy cell that holds the one static CeltMode (compat::OnceCell).    *)
(*                                                                         *)
(* state is the AtomicU8 (0 idle, 1 initializing, 2 live) and storage the  *)
(* non-atomic UnsafeCell.  The memory model is kept: a thread sees state   *)
(* through seen[t], which only moves forward along the order of the stores *)
(* and may lag behind them (Propagate), and synced holds the threads that  *)
(* the write of storage happens before.  Only an Acquire load that reads   *)
(* the Release store of 2 adds a thread to it; the failure ordering of the *)
(* compare_exchange is Relaxed and does not.  A read of storage that is    *)
(* not ordered after the write is a data race: it may return anything, of  *)
(* which the uninitialised value None is kept.                             *)
(*                                                                         *)
(* An operator Mut<Name> is <Name> with a slip the properties must catch;  *)
(* nothing here uses it.                                                   *)
(***************************************************************************)
EXTENDS Naturals, TLAPS

CONSTANTS Threads,       \* the threads calling get()
          None,          \* uninitialised memory
          InitMayPanic   \* whether the closure given to get() may panic

ASSUME NoneAssumption == None \notin Threads
ASSUME PanicAssumption == InitMayPanic \in BOOLEAN

VARIABLES state, storage, pc, seen, synced, got

vars == <<state, storage, pc, seen, synced, got>>

Locations == {"idle", "load", "cas", "reload", "init", "publish", "deref",
              "panicked"}

Init == /\ state = 0
        /\ storage = None
        /\ pc = [t \in Threads |-> "idle"]
        /\ seen = [t \in Threads |-> 0]
        /\ synced = {}
        /\ got = [t \in Threads |-> None]

Goto(t, from, to) == pc[t] = from /\ pc' = [pc EXCEPT ![t] = to]

(***************************************************************************)
(* get(): the fast path, one Acquire load.                                 *)
(***************************************************************************)
Get(t) == /\ Goto(t, "idle", "load")
          /\ UNCHANGED <<state, storage, seen, synced, got>>

\* An Acquire load of state by t, compared with 2.
AcquireTwo(t) == /\ seen[t] = 2
                 /\ synced' = synced \cup {t}
                 /\ UNCHANGED <<state, storage, seen, got>>

AcquireOther(t) == /\ seen[t] # 2
                   /\ UNCHANGED <<state, storage, seen, synced, got>>

MutFastPath(t) == \/ /\ Goto(t, "load", "deref")
                     /\ seen[t] = 2
                     /\ UNCHANGED <<state, storage, seen, synced, got>>
                  \/ Goto(t, "load", "cas") /\ AcquireOther(t)
FastPath(t) == \/ Goto(t, "load", "deref") /\ AcquireTwo(t)
               \/ Goto(t, "load", "cas") /\ AcquireOther(t)

(***************************************************************************)
(* get_slow(): the compare_exchange loop, then the construction.           *)
(***************************************************************************)
\* The exchange succeeds on the newest value of state only.
MutClaim(t) == /\ Goto(t, "cas", "init")
               /\ seen[t] = 0
               /\ state' = 1
               /\ seen' = [seen EXCEPT ![t] = 1]
               /\ UNCHANGED <<storage, synced, got>>
Claim(t) == /\ Goto(t, "cas", "init")
            /\ state = 0
            /\ state' = 1
            /\ seen' = [seen EXCEPT ![t] = 1]
            /\ UNCHANGED <<storage, synced, got>>

\* It fails on a value other than 0, not necessarily the newest one.
Refused(t) == /\ Goto(t, "cas", "reload")
              /\ \E v \in 1..state : /\ v >= seen[t]
                                     /\ seen' = [seen EXCEPT ![t] = v]
              /\ UNCHANGED <<state, storage, synced, got>>

MutReload(t) == /\ Goto(t, "reload", "cas")
                /\ UNCHANGED <<state, storage, seen, synced, got>>
Reload(t) == \/ Goto(t, "reload", "deref") /\ AcquireTwo(t)
             \/ Goto(t, "reload", "cas") /\ AcquireOther(t)

Construct(t) == /\ Goto(t, "init", "publish")
                /\ storage' = t
                /\ synced' = synced \cup {t}
                /\ UNCHANGED <<state, seen, got>>

\* init() unwinds: the cell stays in state 1.
Panic(t) == /\ InitMayPanic
            /\ Goto(t, "init", "panicked")
            /\ UNCHANGED <<state, storage, seen, synced, got>>

MutPublish(t) == /\ Goto(t, "publish", "deref")
                 /\ state' = state + 2
                 /\ seen' = [seen EXCEPT ![t] = state + 2]
                 /\ UNCHANGED <<storage, synced, got>>
Publish(t) == /\ Goto(t, "publish", "deref")
              /\ state' = 2
              /\ seen' = [seen EXCEPT ![t] = 2]
              /\ UNCHANGED <<storage, synced, got>>

\* assume_init_ref(), and the caller's first use of the reference.
Deref(t) == /\ Goto(t, "deref", "idle")
            /\ \E v \in IF t \in synced THEN {storage} ELSE {storage, None} :
                  got' = [got EXCEPT ![t] = v]
            /\ UNCHANGED <<state, storage, seen, synced>>

\* A store of another thread becomes visible to t.
Propagate(t) == /\ \E v \in 1..state : /\ v > seen[t]
                                       /\ seen' = [seen EXCEPT ![t] = v]
                /\ UNCHANGED <<state, storage, pc, synced, got>>

Step(t) == \/ FastPath(t) \/ Claim(t) \/ Refused(t) \/ Reload(t)
           \/ Construct(t) \/ Panic(t) \/ Publish(t) \/ Deref(t)

Next == \E t \in Threads : Get(t) \/ Step(t) \/ Propagate(t)

Spec == Init /\ [][Next]_vars

\* A thread inside get() keeps being scheduled, and stores reach every core.
FairSpec == /\ Spec
            /\ \A t \in Threads : WF_vars(Step(t)) /\ WF_vars(Propagate(t))

(***************************************************************************)
(* Properties.                                                             *)
(***************************************************************************)
TypeOK == /\ state \in 0..2
          /\ storage \in Threads \cup {None}
          /\ pc \in [Threads -> Locations]
          /\ seen \in [Threads -> 0..2]
          /\ synced \subseteq Threads
          /\ got \in [Threads -> Threads \cup {None}]

\* The write of the inline storage by get_slow() races with nothing: while a
\* thread is about to write it, no other writes it and none reads it; and a
\* thread about to read it is ordered after the write (the SAFETY comments).
NoDataRace ==
    \A t \in Threads :
        /\ pc[t] = "init" => \A u \in Threads \ {t} :
                                 pc[u] \notin {"init", "publish", "deref"}
        /\ pc[t] = "deref" => t \in synced /\ storage # None

\* The cell keeps the promise of Once: one construction, and the constructed
\* value behind every reference get() returns.
CellImplementsOnce ==
    INSTANCE Once WITH cell <- IF state = 2 THEN storage ELSE None,
                       calling <- {t \in Threads : pc[t] # "idle"}
ImplementsOnce == CellImplementsOnce!Spec

\* Every get() returns, unless the closure panicked: a thread that lost the
\* race does not spin forever on stale values of state.
Panicked == \E t \in Threads : pc[t] = "panicked"

GetReturns == \A t \in Threads : pc[t] = "load" ~> pc[t] = "idle" \/ Panicked

(***************************************************************************)
(* Proofs, for any set of threads and a closure that may or may not panic. *)
(***************************************************************************)
\* The threads that own state 1.
Busy(t) == pc[t] \in {"init", "publish", "panicked"}

\* The state number follows the initialiser: it is 1 exactly while somebody
\* owns the storage, and a thread that left the spin loop has read the 2.
IInv == /\ TypeOK
        /\ \A t, u \in Threads : Busy(t) /\ Busy(u) => t = u
        /\ \A t \in Threads : /\ seen[t] =< state
                              /\ Busy(t) => state = 1
                              /\ pc[t] = "init" => storage = None
                              /\ pc[t] = "publish" => storage = t /\ t \in synced
                              /\ pc[t] = "deref" => state = 2 /\ t \in synced
        /\ state = 0 => storage = None
        /\ state = 2 => storage # None

LEMMA InitEstablishes == Init => IInv
BY DEF Init, IInv, TypeOK, Busy, Locations

\* Each step keeps the invariant.
LEMMA StepPreserves == IInv /\ [Next]_vars => IInv'
<1> SUFFICES ASSUME IInv, [Next]_vars PROVE IInv'
  OBVIOUS
<1> USE NoneAssumption DEF IInv, TypeOK, Locations, Busy
<1>1. CASE UNCHANGED vars
  BY <1>1 DEF vars
<1>2. ASSUME NEW t \in Threads, Get(t) PROVE IInv'
  BY <1>2 DEF Get, Goto
<1>3. ASSUME NEW t \in Threads, FastPath(t) PROVE IInv'
  BY <1>3 DEF FastPath, Goto, AcquireTwo, AcquireOther
<1>4. ASSUME NEW t \in Threads, Claim(t) PROVE IInv'
  BY <1>4 DEF Claim, Goto
<1>5. ASSUME NEW t \in Threads, Refused(t) PROVE IInv'
  BY <1>5 DEF Refused, Goto
<1>6. ASSUME NEW t \in Threads, Reload(t) PROVE IInv'
  BY <1>6 DEF Reload, Goto, AcquireTwo, AcquireOther
<1>7. ASSUME NEW t \in Threads, Construct(t) PROVE IInv'
  BY <1>7 DEF Construct, Goto
<1>8. ASSUME NEW t \in Threads, Panic(t) PROVE IInv'
  BY <1>8 DEF Panic, Goto
<1>9. ASSUME NEW t \in Threads, Publish(t) PROVE IInv'
  BY <1>9 DEF Publish, Goto
<1>10. ASSUME NEW t \in Threads, Deref(t) PROVE IInv'
  BY <1>10 DEF Deref, Goto
<1>11. ASSUME NEW t \in Threads, Propagate(t) PROVE IInv'
  BY <1>11 DEF Propagate
<1>12. QED
  BY <1>1, <1>2, <1>3, <1>4, <1>5, <1>6, <1>7, <1>8, <1>9, <1>10, <1>11
  DEF Next, Step

\* The strengthened invariant holds in every reachable state of the cell.
THEOREM InvariantHolds == Spec => []IInv
BY InitEstablishes, StepPreserves, PTL DEF Spec

\* get() never reads the inline storage of the cell before, or concurrently
\* with, the write of the value, and no two threads write it.
THEOREM RaceFree == Spec => []NoDataRace
<1>1. IInv => NoDataRace
  BY NoneAssumption DEF IInv, TypeOK, NoDataRace, Busy
<1>2. QED
  BY <1>1, InvariantHolds, PTL

\* The refinement of the initial states and of the steps.
LEMMA RefinesInit == Init => CellImplementsOnce!Init
BY DEF Init, CellImplementsOnce!Init

LEMMA RefinesStep ==
    IInv /\ [Next]_vars => [CellImplementsOnce!Next]_CellImplementsOnce!vars
<1> SUFFICES ASSUME IInv, [Next]_vars
             PROVE  [CellImplementsOnce!Next]_CellImplementsOnce!vars
  OBVIOUS
<1> USE NoneAssumption DEF IInv, TypeOK, Locations, Busy,
        CellImplementsOnce!vars
<1>1. CASE UNCHANGED vars
  BY <1>1 DEF vars
<1>2. ASSUME NEW t \in Threads, Get(t)
      PROVE  CellImplementsOnce!Call(t)
  BY <1>2 DEF Get, Goto, CellImplementsOnce!Call
<1>3. ASSUME NEW t \in Threads, Publish(t)
      PROVE  CellImplementsOnce!Fill(t)
  BY <1>3 DEF Publish, Goto, CellImplementsOnce!Fill
<1>4. ASSUME NEW t \in Threads, Deref(t)
      PROVE  CellImplementsOnce!Return(t)
  BY <1>4 DEF Deref, Goto, CellImplementsOnce!Return
<1>5. ASSUME NEW t \in Threads,
             FastPath(t) \/ Claim(t) \/ Refused(t) \/ Reload(t)
               \/ Construct(t) \/ Panic(t) \/ Propagate(t)
      PROVE  UNCHANGED CellImplementsOnce!vars
  <2>1. CASE FastPath(t)
    BY <2>1 DEF FastPath, Goto, AcquireTwo, AcquireOther
  <2>2. CASE Claim(t)
    BY <2>2 DEF Claim, Goto
  <2>3. CASE Refused(t)
    BY <2>3 DEF Refused, Goto
  <2>4. CASE Reload(t)
    BY <2>4 DEF Reload, Goto, AcquireTwo, AcquireOther
  <2>5. CASE Construct(t)
    BY <2>5 DEF Construct, Goto
  <2>6. CASE Panic(t)
    BY <2>6 DEF Panic, Goto
  <2>7. CASE Propagate(t)
    BY <2>7 DEF Propagate
  <2>8. QED
    BY <1>5, <2>1, <2>2, <2>3, <2>4, <2>5, <2>6, <2>7
<1>6. QED
  BY <1>1, <1>2, <1>3, <1>4, <1>5 DEF Next, Step, CellImplementsOnce!Next

\* OnceCell::get implements the once-only cell: a value is constructed once
\* and every returned reference points at it.
THEOREM CellIsOnce == Spec => ImplementsOnce
<1>1. Init => CellImplementsOnce!Init
  BY RefinesInit
<1>2. QED
  BY <1>1, RefinesStep, InvariantHolds, PTL
  DEF Spec, ImplementsOnce, CellImplementsOnce!Spec
=============================================================================
