----------------------------- MODULE Coroutines -----------------------------
(***************************************************************************)
(* The user-mode coroutines of cpu/coroutine.h and .cpp: a pool that maps  *)
(* a random key to a coroutine, Go, which leaves the main context for one  *)
(* of them, Yield, which hands control over, and Finish, which frees the   *)
(* slot of a callback that has returned.  Keys order the pool; the main    *)
(* context has key 0.  A callback yields a number of times, may create     *)
(* another coroutine before, and returns.                                  *)
(***************************************************************************)
EXTENDS Integers, FiniteSets, FiniteSetsExt

CONSTANTS
    MaxKey,      \* the keys /dev/urandom may give
    MaxYields,   \* bound: yields of one callback
    MaxCreated   \* bound: coroutines ever created

ASSUME CoroutineAssumption ==
    /\ MaxKey \in Nat /\ MaxYields \in Nat /\ MaxCreated \in Nat \ {0}
    /\ MaxKey >= MaxCreated

VARIABLES
    grths,    \* CoroutinePool::grths: [rng, state, yields], yields as its callback has left
    gid,      \* local_gid
    where,    \* main's position: "setup", "away" in Go, "back", "gone"
    created,  \* coroutines created so far
    reused,   \* a freed slot was given to a new coroutine
    fate      \* "ok", "crashed" by undefined behaviour or "exception"

vars == <<grths, gid, where, created, reused, fate>>

Key == 1 .. MaxKey

\* Mutant: whoever does not run.
Stopped_OrFree == {k \in DOMAIN grths : grths[k].state # "Running"}

\* Who may get control, and which slots may be used again.
Stopped == {k \in DOMAIN grths : grths[k].state = "Stopped"}
FreeSlots == {k \in DOMAIN grths : grths[k].state = "Free"}

Init ==
    /\ grths = <<>> /\ gid = 0 /\ where = "setup"
    /\ created = 0 /\ reused = FALSE /\ fate = "ok"

\* The constructor: a new key and a callback that is to yield n times.
Coroutine(r, n) == [rng |-> r, state |-> "Stopped", yields |-> n]

\* grths[k] = slot.
With(pool, k, slot) == [j \in DOMAIN pool \cup {k} |-> IF j = k THEN slot ELSE pool[j]]

\* Mutant: a slot whose coroutine only waits is used again.
CreateIn_TakesStopped(r, n) ==
    IF Stopped = {} THEN With(grths, r, Coroutine(r, n))
    ELSE [grths EXCEPT ![Min(Stopped)] = Coroutine(r, n)]

\* CoroutinePool::Create, by main or by the running callback.
CreateIn(r, n) ==
    IF FreeSlots = {} THEN With(grths, r, Coroutine(r, n))
    ELSE [grths EXCEPT ![Min(FreeSlots)] = Coroutine(r, n)]

Create ==
    /\ fate = "ok" /\ where \in {"setup", "away"} /\ created < MaxCreated
    /\ \E r \in Key \ ({grths[k].rng : k \in DOMAIN grths} \cup DOMAIN grths), n \in 0 .. MaxYields :
          grths' = CreateIn(r, n)
    /\ created' = created + 1
    /\ reused' = (reused \/ FreeSlots # {})
    /\ UNCHANGED <<gid, where, fate>>

\* CoroutinePool::Swap, with Deactivate and Activate.
Swap(pool, prev, next) ==
    /\ grths' = [pool EXCEPT ![prev].state = IF @ = "Running" THEN "Stopped" ELSE @,
                             ![next].state = "Running"]
    /\ gid' = next
    /\ where' = IF next = 0 THEN "back" ELSE "away"
    /\ UNCHANGED fate

\* Go: main gets the key 0 and the first coroutine runs.  A pool that is empty
\* has nothing to run.
Go ==
    /\ fate = "ok" /\ where = "setup"
    /\ IF DOMAIN grths = {} THEN where' = "back" /\ UNCHANGED <<grths, gid, fate>>
       ELSE Swap(With(grths, 0, Coroutine(0, 0)), 0, Min(DOMAIN grths))
    /\ UNCHANGED <<created, reused>>

\* Mutant: the last one the walk could meet.
Chosen_Last == Min(Stopped)

\* Yield walks the keys downwards until it has met the current coroutine and a
\* stopped one; what it meets above the current one is replaced on the way.
Chosen == LET above == {k \in Stopped : k > gid}
          IN IF above # {} THEN Min(above) ELSE Max({k \in Stopped : k < gid})

\* Control goes to the coroutine in the chosen slot, looked up by its own key:
\* a reused slot has another one, operator[] then makes an empty coroutine and
\* the jump loads a null stack.
HandOver(pool) ==
    IF grths[Chosen].rng \in DOMAIN grths THEN Swap(pool, gid, grths[Chosen].rng)
    ELSE fate' = "crashed" /\ UNCHANGED <<grths, gid, where>>

Running == fate = "ok" /\ where = "away"

\* Main, back from Go, may yield too; with nobody to run the walk leaves next
\* empty: its value is undefined, main's own key or one of no coroutine.
YieldByMain ==
    /\ fate = "ok" /\ where = "back" /\ gid \in DOMAIN grths
    /\ IF Stopped # {} THEN HandOver(grths)
       ELSE fate' \in {"ok", "crashed"} /\ UNCHANGED <<grths, gid, where>>
    /\ UNCHANGED <<created, reused>>

\* The running callback calls Yield.
Yield ==
    /\ Running /\ grths[gid].yields > 0
    /\ HandOver([grths EXCEPT ![gid].yields = @ - 1])
    /\ UNCHANGED <<created, reused>>

\* Mutant: the slot is not freed.
Finish_KeepsSlot ==
    /\ Running /\ grths[gid].yields = 0
    /\ HandOver(grths)
    /\ UNCHANGED <<created, reused>>

\* The running callback returns: Finish frees the slot and yields.
Finish ==
    /\ Running /\ grths[gid].yields = 0
    /\ HandOver([grths EXCEPT ![gid].state = "Free"])
    /\ UNCHANGED <<created, reused>>

\* Destroy, by the thread that called Initialize, while it has control.
Destroy ==
    /\ fate = "ok" /\ where \in {"setup", "back"}
    /\ IF \E k \in DOMAIN grths : grths[k].rng # 0 /\ grths[k].state = "Running"
       THEN fate' = "exception" /\ UNCHANGED <<grths, where>>
       ELSE where' = "gone" /\ grths' = <<>> /\ UNCHANGED fate
    /\ UNCHANGED <<gid, created, reused>>

Next == Create \/ Go \/ Yield \/ YieldByMain \/ Finish \/ Destroy

Spec == Init /\ [][Next]_vars

\* A callback that has control goes on.
FairSpec == Spec /\ WF_vars(Yield) /\ WF_vars(Finish)
-----------------------------------------------------------------------------
\* Every slot holds a coroutine; the main context has the slot 0 once Go was called.
TypeOK ==
    /\ DOMAIN grths \subseteq Key \cup {0}
    /\ \A k \in DOMAIN grths :
          grths[k] \in [rng : Key \cup {0}, state : {"Free", "Running", "Stopped"},
                        yields : 0 .. MaxYields]
    /\ gid \in Key \cup {0} /\ where \in {"setup", "away", "back", "gone"}
    /\ created \in 0 .. MaxCreated /\ reused \in BOOLEAN
    /\ fate \in {"ok", "crashed", "exception"}

\* While Go is in progress the coroutine named by local_gid runs and no other
\* does, whoever yields, returns or creates (coroutine.cpp:110-118, 164-169).
OneRuns ==
    where \in {"away", "back"} /\ fate = "ok" /\ DOMAIN grths # {} =>
        {k \in DOMAIN grths : grths[k].state = "Running"} = {gid}

\* Go returns to main when nobody but the one who yields can run: at most one
\* coroutine is left unfinished, the one a Destroy would drop without throwing.
MainIsLast ==
    /\ where = "back" => Cardinality(Stopped) <= 1
    /\ fate # "exception"

\* The walk of Yield ends at somebody who can run, unless main yields when all
\* have finished; and control is lost only to a slot that was given to a second
\* coroutine (coroutine.cpp:171-177).
CrashNeedsReuse == fate = "crashed" => reused \/ (gid = 0 /\ Stopped = {})

\* What Swap needs of the pool: one coroutine runs, and there is one to go on with.
PoolOK == TypeOK /\ OneRuns /\ CrashNeedsReuse

\* A coroutine that has finished never gets control again, unless its slot was
\* given to another one: Finish's endless loop is left at its first Yield.
FinishedStaysFinished ==
    [][\A k \in DOMAIN grths \cap DOMAIN grths' :
          grths[k].state = "Free" /\ ~reused' => grths'[k].state = "Free"]_vars

\* When every callback yields finitely often, Go returns, although Yield hands
\* control back and forth between neighbours (tests/coroutines/main.cpp:22).
GoReturns == where = "away" ~> (where = "back" \/ fate # "ok")
=============================================================================
