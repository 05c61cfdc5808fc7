------------------------------- MODULE VFSLocks -------------------------------
(***************************************************************************)
(* The lock ladder of a file of the SQLite VFS (pkg/c2db/vfs_locks.go) and *)
(* the bridge calls that climb it (pkg/c2db/vfs_bridge.go).                *)
(*                                                                         *)
(* FileLockState.holders maps a connection to its level.  Every call is    *)
(* atomic under FileLockState.mu.  Lock(EXCLUSIVE) leaves the caller at    *)
(* PENDING when other connections are still there, and may skip RESERVED   *)
(* (the recovery of a hot journal), so that one connection can be PENDING  *)
(* while another is RESERVED.  The clients are the connections of SQLite,  *)
(* which calls Lock and Unlock in any order the code accepts and writes    *)
(* the file at EXCLUSIVE only; xRead and xWrite look at no lock.           *)
(***************************************************************************)
EXTENDS Integers, FiniteSets

CONSTANTS
    Conns,       \* the open handles: each has a connID of its own
    MaxWrites    \* bound: writes of the file

ASSUME VFSLocksAssumption == IsFiniteSet(Conns) /\ MaxWrites \in Nat

LockNone == 0
LockShared == 1
LockReserved == 2
LockPending == 3
LockExclusive == 4
Levels == LockNone .. LockExclusive

VARIABLES
    holders,     \* FileLockState.holders (LockNone: no entry)
    file,        \* the content of the file: the number of writes
    seen         \* history: the content a connection found when it got SHARED, or wrote

vars == <<holders, file, seen>>

\* The types, and the two rungs that only one connection stands on: RESERVED itself,
\* and PENDING or above (Lock, Unlock).
TypeOK ==
    /\ holders \in [Conns -> Levels]
    /\ file \in 0 .. MaxWrites /\ seen \in [Conns -> 0 .. MaxWrites]
    /\ \A c, d \in Conns : c # d =>
          /\ ~(holders[c] = LockReserved /\ holders[d] = LockReserved)
          /\ ~(holders[c] >= LockPending /\ holders[d] >= LockPending)

Init ==
    /\ holders = [c \in Conns |-> LockNone]
    /\ file = 0 /\ seen = [c \in Conns |-> 0]

\* maxOther(c) >= l, hasOther(c)
AnyOther(c, l) == \E d \in Conns \ {c} : holders[d] >= l

Raise(c, l) == holders' = [holders EXCEPT ![c] = l]

-----------------------------------------------------------------------------
(* Lock.  A call that is refused, or asks for no more than it has, changes *)
(* nothing.                                                                *)

\* Mutant of LockToShared: a pending writer does not keep readers out.
LockToSharedLate(c) ==
    /\ holders[c] = LockNone /\ ~AnyOther(c, LockExclusive)
    /\ Raise(c, LockShared) /\ seen' = [seen EXCEPT ![c] = file]
    /\ UNCHANGED file

LockToShared(c) ==
    /\ holders[c] = LockNone /\ ~AnyOther(c, LockPending)
    /\ Raise(c, LockShared) /\ seen' = [seen EXCEPT ![c] = file]
    /\ UNCHANGED file

LockToReserved(c) ==
    /\ holders[c] = LockShared /\ ~AnyOther(c, LockReserved)
    /\ Raise(c, LockReserved)
    /\ UNCHANGED <<file, seen>>

LockToPending(c) ==
    /\ holders[c] = LockReserved /\ ~AnyOther(c, LockPending)
    /\ Raise(c, LockPending)
    /\ UNCHANGED <<file, seen>>

\* Mutant of LockToExclusive: readers are not waited for.
LockToExclusiveEarly(c) ==
    /\ holders[c] \in LockShared .. LockPending /\ ~AnyOther(c, LockPending)
    /\ Raise(c, LockExclusive)
    /\ UNCHANGED <<file, seen>>

\* PENDING first; EXCLUSIVE when no other connection is left, else ErrBusy.
LockToExclusive(c) ==
    /\ holders[c] \in LockShared .. LockPending /\ ~AnyOther(c, LockPending)
    /\ Raise(c, IF AnyOther(c, LockShared) THEN LockPending ELSE LockExclusive)
    /\ UNCHANGED <<file, seen>>

-----------------------------------------------------------------------------
(* Unlock.  Going down to RESERVED is refused when another connection has  *)
(* taken it meanwhile.                                                     *)

\* Mutant of Unlock: the way down to RESERVED is not checked.
UnlockBlind(c, l) ==
    /\ l < holders[c]
    /\ Raise(c, l)
    /\ UNCHANGED <<file, seen>>

Unlock(c, l) ==
    /\ l < holders[c]
    /\ l = LockReserved => ~AnyOther(c, LockReserved)
    /\ Raise(c, l)
    /\ UNCHANGED <<file, seen>>

\* xWrite and xTruncate, as SQLite calls them.
Write(c) ==
    /\ holders[c] = LockExclusive /\ file < MaxWrites
    /\ file' = file + 1 /\ seen' = [seen EXCEPT ![c] = file + 1]
    /\ UNCHANGED holders

ConnNext(c) ==
    \/ LockToShared(c)
    \/ LockToReserved(c)
    \/ LockToPending(c)
    \/ LockToExclusive(c)
    \/ \E l \in LockNone .. LockPending : Unlock(c, l)
    \/ Write(c)

Next == \E c \in Conns : ConnNext(c)

Spec == Init /\ [][Next]_vars

(* A statement ends, and a transaction that keeps getting SQLITE_BUSY at   *)
(* RESERVED gives up: xUnlock(NONE) or xClose.  SQLite's busy handler goes *)
(* on asking for EXCLUSIVE.                                                *)
Leaves(c) == holders[c] \in {LockShared, LockReserved} /\ Unlock(c, LockNone)
Fairness == \A c \in Conns : WF_vars(Leaves(c)) /\ WF_vars(holders[c] = LockPending /\ LockToExclusive(c))

FairSpec == Spec /\ Fairness

-----------------------------------------------------------------------------
(* Properties.                                                             *)

\* As long as a connection holds at least SHARED, the file is what it was when the
\* lock was granted, but for the connection's own writes: no statement reads a file
\* that changes under it, and no writer commits over a change it has not seen, the
\* recovery of a hot journal (SHARED to EXCLUSIVE) included.
ReadStable == \A c \in Conns : holders[c] >= LockShared => seen[c] = file

\* A pending writer is not starved by late readers: it gets EXCLUSIVE or gives up.
PendingEnds == \A c \in Conns : holders[c] = LockPending ~> holders[c] # LockPending

=============================================================================
