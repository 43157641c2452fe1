------------------------------ MODULE RunLock ------------------------------
(***************************************************************************)
(* The run lock: one row of the SQLite table run_locks per run, taken by   *)
(* `resume` and by every control command before they touch the run and     *)
(* deleted when they are done (Database.acquire_run_lock,                  *)
(* release_run_lock and _release_stale_run_lock in storage/database.py).   *)
(*                                                                         *)
(* A client is one such operation in one process.  Each database call is a *)
(* transaction of its own, hence an action of its own; what a client       *)
(* learned in an earlier call may be out of date in a later one.  Time is  *)
(* counted in ticks; a lock older than StaleAfter ticks may be taken over. *)
(***************************************************************************)
EXTENDS Integers

CONSTANTS
    Clients,       \* operations that may ask for the lock of the run
    Owners,        \* owner strings, "<operation>:<pid>": two requests of one web
                   \* server for the same operation have the same
    Owner,         \* the owner string of every client
    StaleAfter,    \* RUN_LOCK_STALE_AFTER_SECONDS, in ticks
    MaxTime,       \* bound: the last instant of the clock
    MayCrash,      \* the clients whose process may die
    NoLock         \* the table has no row for the run

ASSUME OwnerAssumption == Owner \in [Clients -> Owners]
ASSUME TimeAssumption == StaleAfter \in Nat /\ MaxTime \in Nat
ASSUME CrashAssumption == MayCrash \subseteq Clients

Lock == [owner : Owners, at : Nat]

ASSUME NoLockAssumption == NoLock \notin Lock

VARIABLES
    lock,    \* the row of run_locks, or NoLock
    pc,      \* where each client is
    stamp,   \* the `now` each client computed when it asked
    alive,   \* the clients whose process still runs
    now,     \* the wall clock
    (* history *)
    aged     \* some row got older than StaleAfter

vars == <<lock, pc, stamp, alive, now, aged>>

Places == {"idle", "check", "delete", "insert", "held"}

Init ==
    /\ lock = NoLock
    /\ pc = [c \in Clients |-> "idle"]
    /\ stamp = [c \in Clients |-> 0]
    /\ alive = Clients
    /\ now = 0
    /\ aged = FALSE

At(c, place) == c \in alive /\ pc[c] = place
Goto(c, place) == pc' = [pc EXCEPT ![c] = place]

-----------------------------------------------------------------------------
(* Mutant of Ask: the timestamp is computed before the clock it is compared with. *)
AskSkewed(c) ==
    /\ At(c, "idle")
    /\ stamp' = [stamp EXCEPT ![c] = now - 1]
    /\ Goto(c, "check")
    /\ UNCHANGED <<lock, alive, now>>

(* acquire_run_lock reads the clock once, before its first query. *)
Ask(c) ==
    /\ At(c, "idle")
    /\ stamp' = [stamp EXCEPT ![c] = now]
    /\ Goto(c, "check")
    /\ UNCHANGED <<lock, alive, now>>

(* Mutant of IsStale: the bound is taken for expired. *)
IsStaleEarly(c) == lock # NoLock /\ stamp[c] >= lock.at + StaleAfter

(* elapsed > stale_after_seconds, both ends taken from the callers' clocks. *)
IsStale(c) == lock # NoLock /\ stamp[c] > lock.at + StaleAfter

ReadLock(c) ==
    /\ At(c, "check")
    /\ Goto(c, IF IsStale(c) THEN "delete" ELSE "insert")
    /\ UNCHANGED <<lock, stamp, alive, now>>

(* Mutant of DeleteLock: the take-over deletes only a row of the same owner. *)
DeleteOwnLock(c) ==
    /\ At(c, "delete")
    /\ lock' = IF lock # NoLock /\ lock.owner = Owner[c] THEN NoLock ELSE lock
    /\ Goto(c, "insert")
    /\ UNCHANGED <<stamp, alive, now>>

(* The row is deleted by run_id alone, whatever it has become since it was *)
(* read.                                                                   *)
DeleteLock(c) ==
    /\ At(c, "delete")
    /\ lock' = NoLock
    /\ Goto(c, "insert")
    /\ UNCHANGED <<stamp, alive, now>>

(* The primary key lets one insert through; the other callers are refused. *)
InsertLock(c) ==
    /\ At(c, "insert")
    /\ IF lock = NoLock
       THEN /\ lock' = [owner |-> Owner[c], at |-> stamp[c]]
            /\ Goto(c, "held")
       ELSE /\ UNCHANGED lock
            /\ Goto(c, "idle")
    /\ UNCHANGED <<stamp, alive, now>>

(* Mutant of Release: the owner is forgotten in the where clause. *)
ReleaseAny(c) ==
    /\ At(c, "held")
    /\ lock' = NoLock
    /\ Goto(c, "idle")
    /\ UNCHANGED <<stamp, alive, now>>

(* delete ... where run_id = ? and owner = ? *)
Release(c) ==
    /\ At(c, "held")
    /\ lock' = IF lock # NoLock /\ lock.owner = Owner[c] THEN NoLock ELSE lock
    /\ Goto(c, "idle")
    /\ UNCHANGED <<stamp, alive, now>>

(* A killed process releases nothing. *)
Crash(c) ==
    /\ c \in alive \cap MayCrash
    /\ pc[c] # "idle"
    /\ alive' = alive \ {c}
    /\ UNCHANGED <<lock, pc, stamp, now>>

(* Operations may be slow: one worker may take longer than StaleAfter. *)
Tick ==
    /\ now < MaxTime
    /\ now' = now + 1
    /\ UNCHANGED <<lock, pc, stamp, alive>>

Step(c) == Ask(c) \/ ReadLock(c) \/ DeleteLock(c) \/ InsertLock(c) \/ Release(c)

(* An operation that asked long ago inserts a row that is old already. *)
Expired == lock # NoLock /\ now > lock.at + StaleAfter

NoteAge == aged' = (aged \/ Expired')

Next == ((\E c \in Clients : Step(c) \/ Crash(c)) \/ Tick) /\ NoteAge

Spec == Init /\ [][Next]_vars

(* Once it has asked, an operation runs its database calls one after the   *)
(* other; nobody is obliged to ask.                                        *)
Acquiring(c) == (ReadLock(c) \/ DeleteLock(c) \/ InsertLock(c)) /\ NoteAge

FairSpec == Spec /\ \A c \in Clients : WF_vars(Acquiring(c))

-----------------------------------------------------------------------------
(* Every variable has its type. *)
TypeOK ==
    /\ lock \in Lock \cup {NoLock}
    /\ pc \in [Clients -> Places]
    /\ stamp \in [Clients -> Nat]
    /\ alive \subseteq Clients
    /\ now \in Nat
    /\ aged \in BOOLEAN

Holders == {c \in Clients : At(c, "held")}

(* Two operations never work on the run together as long as no lock of it  *)
(* ever got older than StaleAfter: whoever dies or is refused meanwhile,   *)
(* and although requests of one web server share an owner string.          *)
MutualExclusion == ~aged => \A c, d \in Holders : c = d

(* Two operations that are both within StaleAfter of asking never work on  *)
(* the run together, whatever was taken over before (the run lock is a     *)
(* mutex that supports the release of stale locks:                         *)
(* docs/architecture/architecture_inventory.md).                           *)
FreshHoldersExclude ==
    \A c, d \in Holders :
        c # d => now > stamp[c] + StaleAfter \/ now > stamp[d] + StaleAfter

(* Releasing never frees somebody else's lock: an operation whose lock was *)
(* taken over while it was still working leaves the row of the operation   *)
(* that took it (release_run_lock deletes by owner), provided that nobody  *)
(* has its owner string, as requests of one web server may.                *)
ReleaseIsOwn ==
    [][\A c \in Clients :
         /\ At(c, "held") /\ pc'[c] = "idle" /\ lock # NoLock /\ lock' = NoLock
         /\ \A d \in Clients \ {c} : Owner[d] # Owner[c]
         => lock = [owner |-> Owner[c], at |-> stamp[c]]]_vars

(* A lock left behind by a dead process does not block the run for ever:   *)
(* once somebody asks later than StaleAfter after it was taken, the row    *)
(* goes away, unless the process that asked dies too.                      *)
ExpiredLockYields ==
    \A c \in Clients : \A a \in 0..MaxTime :
        (At(c, "check") /\ IsStale(c) /\ lock.at = a)
            ~> (lock = NoLock \/ lock.at # a \/ c \notin alive)
=============================================================================
