------------------------ MODULE BackendConnectProofs ------------------------
(* Proofs about BackendConnect, for any number of callers.                  *)
EXTENDS BackendConnect, TLAPS

(* A disconnect's outcome leaves the excuse a truth value.                  *)
LEMMA ExcuseTyped ==
    ASSUME excused \in BOOLEAN, Disconnected \/ ReleaseLost
    PROVE  excused' \in BOOLEAN
<1>1. ReleaseLost => excused' \in BOOLEAN
  BY Zenon DEF ReleaseLost
<1> QED
  BY <1>1 DEF Disconnected

(* Every step of a call, a detached disconnect or the system keeps types.   *)
LEMMA TypeStep == TypeOK /\ [Next]_vars => TypeOK'
<1> SUFFICES ASSUME TypeOK, [Next]_vars PROVE TypeOK'
  OBVIOUS
<1> USE DEF TypeOK, Owning, Guarded, Goto
<1>1. ASSUME NEW c \in Callers,
             Call(c) \/ LookupFails(c) \/ Up(c) \/ Discovered(c)
             \/ AttemptFails(c)
      PROVE  TypeOK'
  BY <1>1 DEF Call, LookupFails, Up, Discovered, AttemptFails
<1>2. ASSUME NEW c \in Callers, Attempt(c) PROVE TypeOK'
  BY <1>2 DEF Attempt
<1>3. ASSUME NEW c \in Callers, Released(c) \/ Disconnect(c) PROVE TypeOK'
  BY <1>3, ExcuseTyped DEF Released, Disconnect, Disconnected
<1>4. ASSUME NEW c \in Callers, DropCall(c) PROVE TypeOK'
  BY <1>4, PendingAssumption, ExcuseTyped DEF DropCall
<1>5. CASE Detached
  <2>1. excused' \in BOOLEAN
    BY <1>5, ExcuseTyped DEF Detached
  <2>2. pending' \in 0..MaxPending /\ UNCHANGED <<pc, runtime>>
    BY <1>5, PendingAssumption DEF Detached
  <2>3. os' \in {"idle", os}
    BY <1>5 DEF Detached, Disconnected
  <2> QED
    BY <2>1, <2>2, <2>3
<1>6. CASE Shutdown
  <2>1. excused' \in BOOLEAN
    BY <1>6, ExcuseTyped DEF Shutdown
  <2>2. pending' \in 0..MaxPending /\ UNCHANGED <<pc, os>>
    BY <1>6, PendingAssumption DEF Shutdown
  <2> QED
    BY <1>6, <2>1, <2>2 DEF Shutdown
<1>7. CASE OsConnects \/ OsLoses
  BY <1>7 DEF OsConnects, OsLoses
<1>8. ASSUME NEW c \in Callers, DropDisconnect(c) PROVE TypeOK'
  BY <1>8, PendingAssumption DEF DropDisconnect
<1>9. ASSUME NEW c \in Callers, Forget(c) PROVE TypeOK'
  BY <1>9, ExcuseTyped DEF Forget
<1>10. CASE UNCHANGED vars
  BY <1>10 DEF vars
<1> QED
  BY <1>1, <1>2, <1>3, <1>4, <1>5, <1>6, <1>7, <1>8, <1>9, <1>10
  DEF Next, CallSteps

(* connect_with_timeout and its guard keep their state typed, the           *)
(* disconnects in flight within their bound.                                *)
THEOREM TypeCorrect == Spec => []TypeOK
<1>1. Init => TypeOK
  <2> SUFFICES ASSUME Init PROVE TypeOK
    OBVIOUS
  <2>1. pending \in 0..MaxPending
    BY PendingAssumption DEF Init
  <2>2. pc \in [Callers -> Owning \cup {"idle", "lookup"}]
    BY DEF Init
  <2> QED
    BY <2>1, <2>2 DEF Init, TypeOK
<1> QED
  BY <1>1, TypeStep, PTL DEF Spec

(* A caller that gives a connection up does so with a disconnect issued or  *)
(* spawned, so the invariant is inductive.                                  *)
LEMMA HeldStep == TypeOK /\ NothingHeld /\ [Next]_vars => NothingHeld'
<1> SUFFICES ASSUME TypeOK, NothingHeld, [Next]_vars PROVE NothingHeld'
  OBVIOUS
<1>t. TypeOK'
  BY TypeStep
<1> USE DEF TypeOK, NothingHeld, Unowned, Owning, Guarded, Goto
<1>1. ASSUME NEW c \in Callers,
             Call(c) \/ LookupFails(c) \/ Up(c) \/ Discovered(c)
             \/ AttemptFails(c)
      PROVE  NothingHeld'
  <2>1. pc[c] \in Owning <=> pc'[c] \in Owning
    BY <1>1 DEF Call, LookupFails, Up, Discovered, AttemptFails
  <2>2. \A d \in Callers : d # c => pc'[d] = pc[d]
    BY <1>1 DEF Call, LookupFails, Up, Discovered, AttemptFails
  <2>3. UNCHANGED <<os, pending, excused>>
    BY <1>1 DEF Call, LookupFails, Up, Discovered, AttemptFails
  <2> QED
    BY <2>1, <2>2, <2>3
<1>2. ASSUME NEW c \in Callers, Attempt(c) PROVE NothingHeld'
  <2>1. pc'[c] \in Owning
    BY <1>2 DEF Attempt
  <2> QED
    BY <2>1
<1>3. ASSUME NEW c \in Callers, Released(c) \/ Disconnect(c)
      PROVE  NothingHeld'
  BY <1>3, <1>t DEF Released, Disconnect, Disconnected, ReleaseLost
<1>4. ASSUME NEW c \in Callers, DropCall(c) PROVE NothingHeld'
  <2>1. CASE pc[c] = "release" \/ (pc[c] \in Guarded /\ runtime)
    BY <1>4, <1>t, <2>1 DEF DropCall
  <2>2. CASE pc[c] \in Guarded /\ ~runtime
    <3>1. ReleaseLost
      BY <1>4, <2>2 DEF DropCall
    <3>2. os' # "idle" /\ Unowned' => excused'
      BY <3>1, Zenon DEF ReleaseLost
    <3> QED
      BY <1>t, <3>2
  <2>3. CASE pc[c] = "lookup"
    <3>1. \A d \in Callers : pc[d] \in Owning => pc'[d] = pc[d]
      BY <1>4, <2>3 DEF DropCall
    <3> QED
      BY <1>4, <2>3, <3>1 DEF DropCall
  <2> QED
    BY <1>4, <2>1, <2>2, <2>3 DEF DropCall
<1>5. CASE Detached
  BY <1>5, <1>t DEF Detached, Disconnected, ReleaseLost
<1>6. CASE Shutdown
  BY <1>6, <1>t DEF Shutdown, ReleaseLost
<1>7. CASE OsConnects \/ OsLoses
  BY <1>7 DEF OsConnects, OsLoses
<1>8. ASSUME NEW c \in Callers, DropDisconnect(c) PROVE NothingHeld'
  BY <1>8, <1>t DEF DropDisconnect
<1>9. ASSUME NEW c \in Callers, Forget(c) PROVE NothingHeld'
  <2>1. ReleaseLost
    BY <1>9 DEF Forget
  <2>2. os' # "idle" /\ Unowned' => excused'
    BY <2>1, Zenon DEF ReleaseLost
  <2> QED
    BY <1>t, <2>2
<1>10. CASE UNCHANGED vars
  BY <1>10 DEF vars
<1> QED
  BY <1>1, <1>2, <1>3, <1>4, <1>5, <1>6, <1>7, <1>8, <1>9, <1>10
  DEF Next, CallSteps

(* The operating system never holds a connection for an abandoned or failed *)
(* connect without a disconnect on its way, unless one failed, could not be *)
(* spawned or was not asked for; for any number of callers.                 *)
THEOREM NoConnectionHeld == Spec => []NothingHeld
<1>1. Init => NothingHeld
  BY DEF Init, NothingHeld
<1> QED
  BY <1>1, TypeCorrect, HeldStep, PTL DEF Spec
=============================================================================
