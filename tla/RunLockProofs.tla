--------------------------- MODULE RunLockProofs ---------------------------
(***************************************************************************)
(* Mutual exclusion of the run lock, for any number of operations, any     *)
(* owner strings and any crashes, until a row gets older than StaleAfter.  *)
(* MutualExclusion is not inductive: that at most one operation is at      *)
(* "held" depends on what the row says, and that the row is not taken over *)
(* on how young it is.  Inv adds both, for as long as no row has aged.     *)
(***************************************************************************)
EXTENDS RunLock, TLAPS

(* The row belongs to the holder, and was stamped with the holder's clock. *)
RowIsHolders ==
    \A c \in Clients :
        pc[c] = "held" => lock = [owner |-> Owner[c], at |-> stamp[c]]

(* Where there is a row there is one operation that holds it. *)
RowHasHolder == lock # NoLock => \E c \in Clients : pc[c] = "held"

OneHolder == \A c, d \in Clients : pc[c] = "held" /\ pc[d] = "held" => c = d

(* Nobody decides to take a lock over. *)
NoTakeover == \A c \in Clients : pc[c] # "delete"

(* Nobody asked in the future. *)
InTime == \A c \in Clients : stamp[c] <= now

Young == RowIsHolders /\ RowHasHolder /\ OneHolder /\ NoTakeover /\ ~Expired

Inv == TypeOK /\ InTime /\ (~aged => Young)

(* Every variable has its type at first. *)
LEMMA TypeInit == Init => TypeOK
<1>1. Init => aged \in BOOLEAN
  BY Zenon DEF Init
<1> QED
  BY <1>1, OwnerAssumption DEF Init, TypeOK, Places

(* A step keeps the type of every variable. *)
LEMMA TypeStep == TypeOK /\ [Next]_vars => TypeOK'
<1> SUFFICES ASSUME TypeOK, [Next]_vars PROVE TypeOK'
  OBVIOUS
<1> USE OwnerAssumption, TimeAssumption DEF TypeOK, Places, Goto, Lock
<1>1. ASSUME NEW c \in Clients, Step(c) \/ Crash(c)
      PROVE  /\ lock' \in Lock \cup {NoLock} /\ pc' \in [Clients -> Places]
             /\ stamp' \in [Clients -> Nat] /\ alive' \subseteq Clients /\ now' \in Nat
  <2>1. CASE Ask(c)
    BY <2>1 DEF Ask
  <2>2. CASE ReadLock(c)
    BY <2>2 DEF ReadLock
  <2>3. CASE DeleteLock(c)
    BY <2>3 DEF DeleteLock
  <2>4. CASE InsertLock(c)
    BY <2>4 DEF InsertLock
  <2>5. CASE Release(c)
    BY <2>5 DEF Release
  <2>6. CASE Crash(c)
    BY <2>6 DEF Crash
  <2> QED
    BY <1>1, <2>1, <2>2, <2>3, <2>4, <2>5, <2>6 DEF Step
<1>2. ASSUME NoteAge PROVE aged' \in BOOLEAN
  BY <1>2 DEF NoteAge, Expired
<1>3. CASE Tick /\ NoteAge
  BY <1>2, <1>3 DEF Tick
<1>4. CASE UNCHANGED vars
  BY <1>4 DEF vars
<1> QED
  BY <1>1, <1>2, <1>3, <1>4 DEF Next

(* Every variable keeps its type: with any holding times and any crashes.  *)
THEOREM TypeCorrect == Spec => []TypeOK
<1> QED
  BY TypeInit, TypeStep, PTL DEF Spec

(* A row that has not aged is not stale for whoever looks at it. *)
LEMMA NeverStale ==
    ASSUME Inv, ~aged, NEW c \in Clients
    PROVE  ~IsStale(c)
<1>1. stamp[c] <= now /\ stamp[c] \in Nat /\ now \in Nat
  BY DEF Inv, InTime, TypeOK
<1>2. lock # NoLock => lock.at \in Nat /\ now <= lock.at + StaleAfter
  BY <1>1, TimeAssumption DEF Inv, Young, Expired, TypeOK, Lock
<1> QED
  BY <1>1, <1>2, TimeAssumption DEF IsStale

(* Clocks are read forward only. *)
LEMMA InTimeStep ==
    ASSUME Inv, [Next]_vars
    PROVE  InTime'
<1> USE DEF Inv, TypeOK, InTime, Goto, At
<1>1. ASSUME NEW c \in Clients, Step(c) \/ Crash(c) PROVE InTime'
  BY <1>1 DEF Step, Ask, ReadLock, DeleteLock, InsertLock, Release, Crash
<1>2. CASE Tick
  BY <1>2 DEF Tick
<1>3. CASE UNCHANGED vars
  BY <1>3 DEF vars
<1> QED
  BY <1>1, <1>2, <1>3 DEF Next

(* As long as no row has aged, a step leaves one holder, whose row it is. *)
LEMMA YoungStep ==
    ASSUME Inv, [Next]_vars, ~aged'
    PROVE  Young'
<1>1. ~aged /\ ~Expired'
  <2>1. CASE NoteAge
    BY <2>1, Zenon DEF NoteAge
  <2>2. CASE UNCHANGED vars
    <3>1. lock' = lock /\ now' = now /\ aged' = aged
      BY <2>2 DEF vars
    <3>2. ~aged
      BY <3>1, Zenon
    <3> QED
      BY <3>1, <3>2 DEF Inv, Young, Expired
  <2> QED
    BY <2>1, <2>2 DEF Next
<1>2. TypeOK /\ Young
  BY <1>1 DEF Inv
<1> USE OwnerAssumption, TimeAssumption DEF TypeOK, Places, Goto, At, RowIsHolders,
        RowHasHolder, OneHolder, NoTakeover, Lock
<1> SUFFICES (RowIsHolders /\ RowHasHolder /\ OneHolder /\ NoTakeover)'
  BY <1>1 DEF Young
<1> USE <1>2 DEF Young
<1>3. ASSUME NEW c \in Clients, Ask(c) PROVE (RowIsHolders /\ RowHasHolder /\ OneHolder /\ NoTakeover)'
  BY <1>3 DEF Ask
<1>4. ASSUME NEW c \in Clients, ReadLock(c) PROVE (RowIsHolders /\ RowHasHolder /\ OneHolder /\ NoTakeover)'
  <2>1. ~IsStale(c)
    BY <1>1, NeverStale
  <2> QED
    BY <1>4, <2>1 DEF ReadLock
<1>5. ASSUME NEW c \in Clients, DeleteLock(c) PROVE (RowIsHolders /\ RowHasHolder /\ OneHolder /\ NoTakeover)'
  BY <1>5 DEF DeleteLock
<1>6. ASSUME NEW c \in Clients, InsertLock(c) PROVE (RowIsHolders /\ RowHasHolder /\ OneHolder /\ NoTakeover)'
  <2>1. CASE lock = NoLock
    <3>1. \A d \in Clients : pc[d] # "held"
      BY <2>1, NoLockAssumption
    <3> QED
      BY <1>6, <2>1, <3>1 DEF InsertLock
  <2>2. CASE lock # NoLock
    BY <1>6, <2>2 DEF InsertLock
  <2> QED
    BY <2>1, <2>2
<1>7. ASSUME NEW c \in Clients, Release(c) PROVE (RowIsHolders /\ RowHasHolder /\ OneHolder /\ NoTakeover)'
  <2>1. lock = [owner |-> Owner[c], at |-> stamp[c]]
    BY <1>7 DEF Release
  <2>2. lock' = NoLock
    BY <1>7, <2>1, NoLockAssumption DEF Release
  <2>3. \A d \in Clients : pc'[d] # "held"
    BY <1>7 DEF Release
  <2> QED
    BY <1>7, <2>2, <2>3 DEF Release
<1>8. ASSUME NEW c \in Clients, Crash(c) PROVE (RowIsHolders /\ RowHasHolder /\ OneHolder /\ NoTakeover)'
  BY <1>8 DEF Crash
<1>9. CASE Tick
  BY <1>9 DEF Tick
<1>10. CASE UNCHANGED vars
  BY <1>10 DEF vars
<1> QED
  BY <1>3, <1>4, <1>5, <1>6, <1>7, <1>8, <1>9, <1>10 DEF Next, Step

(* Two operations never hold the lock of a run together before a row of it *)
(* has aged, for any operations, owner strings and crashes.                *)
THEOREM LockExcludes == Spec => []MutualExclusion
<1>1. Init => Inv
  <2>1. Init => InTime /\ Young
    BY DEF Init, Young, RowIsHolders, RowHasHolder, OneHolder, InTime, NoTakeover, Expired
  <2> QED
    BY <2>1, TypeInit DEF Inv
<1>2. Inv /\ [Next]_vars => Inv'
  <2> SUFFICES ASSUME Inv, [Next]_vars PROVE Inv'
    OBVIOUS
  <2>1. TypeOK'
    BY TypeStep DEF Inv
  <2> QED
    BY <2>1, InTimeStep, YoungStep DEF Inv
<1>3. Inv => MutualExclusion
  BY DEF Inv, Young, OneHolder, MutualExclusion, Holders, At
<1> QED
  BY <1>1, <1>2, <1>3, PTL DEF Spec

(* Nobody else has the owner string of c. *)
OwnsAlone(c) == \A d \in Clients \ {c} : Owner[d] # Owner[c]

(* A row that names an operation, and can only mean it, is the one this    *)
(* operation inserted and has not released: it is never left behind by an  *)
(* earlier request of it.                                                  *)
RowIsOfNamed ==
    \A c \in Clients :
        /\ OwnsAlone(c)
        /\ lock # NoLock /\ lock.owner = Owner[c]
        => pc[c] = "held" /\ lock.at = stamp[c]

NamedInv == TypeOK /\ RowIsOfNamed

(* What an operation does of its own row and of the rows of others. *)
LEMMA RowIsOfNamedStep ==
    ASSUME NamedInv, [Next]_vars
    PROVE  RowIsOfNamed'
<1> USE OwnerAssumption, NoLockAssumption DEF NamedInv, TypeOK, Places, Lock, At, Goto
<1> SUFFICES ASSUME NEW c \in Clients, OwnsAlone(c), lock' # NoLock, lock'.owner = Owner[c]
             PROVE  pc'[c] = "held" /\ lock'.at = stamp'[c]
  BY DEF RowIsOfNamed, OwnsAlone
<1>1. lock # NoLock /\ lock.owner = Owner[c] => pc[c] = "held" /\ lock.at = stamp[c]
  BY DEF RowIsOfNamed
<1>2. ASSUME NEW d \in Clients, Ask(d) PROVE pc'[c] = "held" /\ lock'.at = stamp'[c]
  BY <1>1, <1>2 DEF Ask
<1>3. ASSUME NEW d \in Clients, ReadLock(d) PROVE pc'[c] = "held" /\ lock'.at = stamp'[c]
  BY <1>1, <1>3 DEF ReadLock
<1>4. ASSUME NEW d \in Clients, DeleteLock(d) PROVE pc'[c] = "held" /\ lock'.at = stamp'[c]
  BY <1>4 DEF DeleteLock
<1>5. ASSUME NEW d \in Clients, InsertLock(d) PROVE pc'[c] = "held" /\ lock'.at = stamp'[c]
  <2>1. CASE lock # NoLock
    BY <1>1, <1>5, <2>1 DEF InsertLock
  <2>2. CASE lock = NoLock
    <3>1. d = c
      BY <1>5, <2>2 DEF InsertLock, OwnsAlone
    <3> QED
      BY <1>5, <2>2, <3>1 DEF InsertLock
  <2> QED
    BY <2>1, <2>2
<1>6. ASSUME NEW d \in Clients, Release(d) PROVE pc'[c] = "held" /\ lock'.at = stamp'[c]
  <2>1. lock' = lock /\ lock.owner # Owner[d]
    BY <1>6 DEF Release
  <2> QED
    BY <1>1, <1>6, <2>1 DEF Release
<1>7. ASSUME NEW d \in Clients, Crash(d) PROVE pc'[c] = "held" /\ lock'.at = stamp'[c]
  BY <1>1, <1>7 DEF Crash
<1>8. CASE Tick
  BY <1>1, <1>8 DEF Tick
<1>9. CASE UNCHANGED vars
  BY <1>1, <1>9 DEF vars
<1> QED
  BY <1>2, <1>3, <1>4, <1>5, <1>6, <1>7, <1>8, <1>9 DEF Next, Step

(* Only its own release takes an operation from "held" to "idle", and it   *)
(* deletes the row that names it.                                          *)
LEMMA ReleaseDeletesOwn ==
    ASSUME NamedInv, [Next]_vars, NEW c \in Clients, OwnsAlone(c),
           At(c, "held"), pc'[c] = "idle", lock # NoLock, lock' = NoLock
    PROVE  lock = [owner |-> Owner[c], at |-> stamp[c]]
<1> USE OwnerAssumption, NoLockAssumption DEF NamedInv, TypeOK, Places, Lock, At, Goto
<1>1. lock.owner = Owner[c]
  <2>1. ASSUME NEW d \in Clients, Ask(d) \/ ReadLock(d) \/ InsertLock(d) \/ Crash(d) PROVE FALSE
    BY <2>1 DEF Ask, ReadLock, InsertLock, Crash
  <2>2. ASSUME NEW d \in Clients, DeleteLock(d) PROVE FALSE
    BY <2>2 DEF DeleteLock
  <2>3. ASSUME NEW d \in Clients, Release(d) PROVE lock.owner = Owner[c]
    <3>1. d = c
      BY <2>3 DEF Release
    <3> QED
      BY <2>3, <3>1 DEF Release
  <2>4. ~Tick /\ ~UNCHANGED vars
    BY DEF Tick, vars
  <2> QED
    BY <2>1, <2>2, <2>3, <2>4 DEF Next, Step
<1>2. lock.at = stamp[c]
  BY <1>1 DEF RowIsOfNamed
<1> QED
  BY <1>1, <1>2

(* An operation never frees a lock that was taken over from it, whatever   *)
(* was taken over, by whom and how often, and whoever died: what it        *)
(* releases is the row it inserted itself.                                 *)
THEOREM ReleasesAreOwn == Spec => ReleaseIsOwn
<1>1. Init => NamedInv
  BY TypeInit DEF NamedInv, RowIsOfNamed, Init
<1>2. NamedInv /\ [Next]_vars => NamedInv'
  BY TypeStep, RowIsOfNamedStep DEF NamedInv
<1>3. ASSUME NamedInv, [Next]_vars
      PROVE  [\A c \in Clients :
                 /\ At(c, "held") /\ pc'[c] = "idle" /\ lock # NoLock /\ lock' = NoLock
                 /\ \A d \in Clients \ {c} : Owner[d] # Owner[c]
                 => lock = [owner |-> Owner[c], at |-> stamp[c]]]_vars
  BY <1>3, ReleaseDeletesOwn DEF OwnsAlone
<1> QED
  BY <1>1, <1>2, <1>3, PTL DEF Spec, ReleaseIsOwn
=============================================================================
