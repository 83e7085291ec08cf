------------------------------ MODULE Publication ------------------------------
(***************************************************************************)
(* What the result publication of one session promises to its readers      *)
(* (docs/api/APTA-THREADING-0.1.md, sections 3 to 5), with no pool, no     *)
(* reference count and no lock: generations are issued one after another,  *)
(* an acquisition takes the latest one atomically, and what a reader has   *)
(* acquired stays exactly what it was until that reader releases it, even  *)
(* after the session is gone.                                              *)
(*                                                                         *)
(* ResultPool is shown to implement this specification.                    *)
(***************************************************************************)
EXTENDS Naturals

CONSTANTS
    Readers,         \* threads that acquire, inspect and release results
    MaxGeneration    \* UINT64_MAX: the last generation a session can issue

VARIABLES
    latest,          \* generation of the current result, 0 when there is none
    issued,          \* number of generations issued so far
    snapshot         \* generation each reader has acquired, 0 when none

vars == <<latest, issued, snapshot>>

Init ==
    /\ latest = 0
    /\ issued = 0
    /\ snapshot = [r \in Readers |-> 0]

(* The session exists from here on: generation 1 is its empty result.     *)
Open ==
    /\ issued = 0
    /\ issued' = 1
    /\ latest' = 1
    /\ UNCHANGED snapshot

Publish ==
    /\ latest # 0
    /\ issued < MaxGeneration
    /\ issued' = issued + 1
    /\ latest' = issued'
    /\ UNCHANGED snapshot

Acquire(r) ==
    /\ latest # 0
    /\ snapshot[r] = 0
    /\ snapshot' = [snapshot EXCEPT ![r] = latest]
    /\ UNCHANGED <<latest, issued>>

Release(r) ==
    /\ snapshot[r] # 0
    /\ snapshot' = [snapshot EXCEPT ![r] = 0]
    /\ UNCHANGED <<latest, issued>>

Close ==
    /\ latest # 0
    /\ latest' = 0
    /\ UNCHANGED <<issued, snapshot>>

Next ==
    \/ Open
    \/ Publish
    \/ Close
    \/ \E r \in Readers : Acquire(r) \/ Release(r)

Spec == Init /\ [][Next]_vars

================================================================================
