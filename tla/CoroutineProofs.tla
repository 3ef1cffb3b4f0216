-------------------------- MODULE CoroutineProofs ---------------------------
(***************************************************************************)
(* Proofs about Coroutines, for every number of keys, coroutines and       *)
(* yields: who runs, that the walk of Yield always ends at somebody who    *)
(* can, and that one who has finished stays so.                            *)
(***************************************************************************)
EXTENDS Coroutines, NaturalsInduction, WellFoundedInduction, FiniteSetTheorems, TLAPS
-----------------------------------------------------------------------------
(* The inductive invariant. *)

Slot == [rng : Key \cup {0}, state : {"Free", "Running", "Stopped"}, yields : 0 .. MaxYields]

\* A slot has the coroutine of its own key or, when it was used again, one whose key
\* is no slot's: operator[] of a coroutine's key never finds another coroutine.
KeysApart ==
    \A k \in DOMAIN grths :
        /\ grths[k].rng = k \/ grths[k].rng \notin DOMAIN grths
        /\ ~reused => grths[k].rng = k

\* Until Go the coroutines wait, each in the slot of its key.
SetupState ==
    /\ gid = 0 /\ 0 \notin DOMAIN grths /\ ~reused
    /\ \A k \in DOMAIN grths : grths[k].state = "Stopped"

\* While main is away it waits in its slot.
AwayState ==
    /\ 0 \in DOMAIN grths /\ grths[0].state = "Stopped" /\ grths[0].rng = 0
    /\ gid \in DOMAIN grths /\ gid # 0
    /\ \A k \in DOMAIN grths : grths[k].state = "Running" <=> k = gid

\* When main is back at most one coroutine waits.
BackState ==
    /\ gid = 0
    /\ DOMAIN grths # {} =>
          /\ 0 \in DOMAIN grths /\ grths[0].rng = 0
          /\ \A k \in DOMAIN grths : grths[k].state = "Running" <=> k = 0
    /\ \A j, k \in Stopped : j = k

\* Where the main context is tells who runs and who waits.
Positions ==
    /\ where = "setup" => SetupState
    /\ where = "away" => AwayState
    /\ where = "back" => BackState

PoolInv ==
    /\ TypeOK /\ grths \in [DOMAIN grths -> Slot]
    /\ KeysApart /\ Positions /\ CrashNeedsReuse /\ fate # "exception"
-----------------------------------------------------------------------------
(* Lemmas about the operators. *)

\* A set of naturals has a least element.
LEMMA LeastNatural ==
    ASSUME NEW T \in SUBSET Nat, T # {}
    PROVE  \E x \in T : \A y \in T : x <= y
<1> DEFINE R == OpToRel(<, Nat)
<1>1. PICK x \in T : \A y \in T : ~(<<y, x>> \in R)
  <2> HIDE DEF R
  <2> QED BY NatLessThanWellFounded, WFMin DEF R
<1>2. \A y \in T : ~(y < x)
  BY <1>1 DEF OpToRel
<1> QED BY <1>2

\* The first key and the last one of some keys are among them.
LEMMA EndsAreKeys ==
    ASSUME NEW T \in SUBSET (Key \cup {0}), T # {}
    PROVE  /\ Min(T) \in T /\ \A x \in T : Min(T) <= x
           /\ Max(T) \in T /\ \A x \in T : x <= Max(T)
<1>1. T \in SUBSET Nat /\ MaxKey \in Nat /\ \A x \in T : x <= MaxKey
  BY CoroutineAssumption DEF Key
<1>2. \E x \in T : \A y \in T : x <= y
  BY <1>1, LeastNatural
<1>3. \E x \in T : \A y \in T : x >= y
  <2> DEFINE U == {MaxKey - x : x \in T}
  <2>1. U \in SUBSET Nat
    <3>1. \A x \in T : MaxKey - x \in Nat
      BY <1>1
    <3> QED BY <3>1
  <2>5. U # {}
    OBVIOUS
  <2>2. PICK u \in U : \A v \in U : u <= v
    <3> HIDE DEF U
    <3> QED BY <2>1, <2>5, LeastNatural
  <2>3. PICK x \in T : u = MaxKey - x
    OBVIOUS
  <2>4. \A y \in T : x >= y
    <3> TAKE y \in T
    <3>1. MaxKey - x <= MaxKey - y
      BY <2>2, <2>3
    <3>2. x \in Nat /\ y \in Nat
      BY <1>1
    <3> QED BY <1>1, <3>1, <3>2
  <2> QED BY <2>4
<1>4. Max(T) \in T /\ \A x \in T : Max(T) >= x
  BY <1>3 DEF Max
<1> QED BY <1>1, <1>2, <1>4 DEF Min

\* What Swap makes of the pool.
Swapped(pool, prev, next) ==
    [pool EXCEPT ![prev].state = IF @ = "Running" THEN "Stopped" ELSE @,
                 ![next].state = "Running"]

LEMMA SwapStates ==
    ASSUME NEW pool, pool \in [DOMAIN pool -> Slot],
           NEW prev \in DOMAIN pool, NEW next \in DOMAIN pool,
           prev # next
    PROVE  /\ Swapped(pool, prev, next) \in [DOMAIN pool -> Slot]
           /\ DOMAIN Swapped(pool, prev, next) = DOMAIN pool
           /\ \A k \in DOMAIN pool :
                 /\ Swapped(pool, prev, next)[k].rng = pool[k].rng
                 /\ Swapped(pool, prev, next)[k].state =
                       IF k = next THEN "Running"
                       ELSE IF k = prev /\ pool[k].state = "Running" THEN "Stopped"
                       ELSE pool[k].state
<1>1. \A k \in DOMAIN pool :
         /\ pool[k] \in Slot /\ pool[k].rng \in Key \cup {0} /\ pool[k].yields \in 0 .. MaxYields
         /\ pool[k].state \in {"Free", "Running", "Stopped"}
  BY DEF Slot
<1>2. DOMAIN Swapped(pool, prev, next) = DOMAIN pool
  BY DEF Swapped
<1>3. \A k \in DOMAIN pool :
         Swapped(pool, prev, next)[k] =
            [rng |-> pool[k].rng, yields |-> pool[k].yields,
             state |-> IF k = next THEN "Running"
                       ELSE IF k = prev /\ pool[k].state = "Running" THEN "Stopped"
                       ELSE pool[k].state]
  BY <1>1 DEF Swapped, Slot
<1>4. Swapped(pool, prev, next) \in [DOMAIN pool -> Slot]
  <2>1. \A k \in DOMAIN pool : Swapped(pool, prev, next)[k] \in Slot
    <3> TAKE k \in DOMAIN pool
    <3> DEFINE s == IF k = next THEN "Running"
                    ELSE IF k = prev /\ pool[k].state = "Running" THEN "Stopped"
                    ELSE pool[k].state
    <3>1. s \in {"Free", "Running", "Stopped"}
      BY <1>1
    <3>2. Swapped(pool, prev, next)[k] = [rng |-> pool[k].rng, yields |-> pool[k].yields, state |-> s]
      BY <1>3
    <3> HIDE DEF s
    <3> QED BY <1>1, <3>1, <3>2 DEF Slot
  <2>2. Swapped(pool, prev, next) = [k \in DOMAIN pool |-> Swapped(pool, prev, next)[k]]
    BY DEF Swapped
  <2> QED BY <2>1, <2>2
<1> QED BY <1>2, <1>3, <1>4
-----------------------------------------------------------------------------
LEMMA PoolInit == Init => PoolInv
<1> SUFFICES ASSUME Init PROVE PoolInv
  OBVIOUS
<1>1. DOMAIN grths = {} /\ grths \in [{} -> Slot]
  BY DEF Init
<1>2. TypeOK
  <2>1. 0 \in 0 .. MaxCreated
    BY CoroutineAssumption
  <2> QED BY <1>1, <2>1 DEF Init, TypeOK
<1> QED BY <1>1, <1>2 DEF Init, PoolInv, KeysApart, Positions, SetupState, CrashNeedsReuse

\* The walk ends at one who waits; at main only when nobody else does.
LEMMA WalkEnds ==
    ASSUME TypeOK, Stopped # {}, gid \notin Stopped
    PROVE  Chosen \in Stopped /\ (Chosen = 0 => Stopped = {0})
<1> DEFINE above == {k \in Stopped : k > gid}
           below == {k \in Stopped : k < gid}
<1>1. Stopped \in SUBSET (Key \cup {0}) /\ Key \subseteq Nat \ {0} /\ gid \in Nat
  BY CoroutineAssumption DEF TypeOK, Stopped, Key
<1>2. Chosen = IF above # {} THEN Min(above) ELSE Max(below)
  BY DEF Chosen
<1>3. \A k \in Stopped : k \in above \/ k \in below
  BY <1>1
<1>4. above \in SUBSET (Key \cup {0}) /\ below \in SUBSET (Key \cup {0})
  BY <1>1
<1>5. CASE above # {}
  <2>1. Min(above) \in above
    <3> HIDE DEF above
    <3> QED BY <1>4, <1>5, EndsAreKeys
  <2>2. Min(above) \in Stopped /\ Min(above) > gid
    BY <2>1
  <2>3. Min(above) # 0
    BY <1>1, <2>2
  <2> QED BY <1>2, <1>5, <2>2, <2>3
<1>6. CASE above = {}
  <2>1. below # {} /\ below = Stopped
    BY <1>3, <1>6
  <2>2. Max(Stopped) \in Stopped /\ \A k \in Stopped : k <= Max(Stopped)
    BY <1>1, EndsAreKeys
  <2>3. Chosen = Max(Stopped)
    BY <1>2, <1>6, <2>1
  <2>4. Max(Stopped) = 0 => Stopped = {0}
    <3> SUFFICES ASSUME Max(Stopped) = 0, NEW k \in Stopped PROVE k = 0
      BY <2>2
    <3>1. k \in Nat /\ k <= 0
      BY <1>1, <2>2
    <3> QED BY <3>1
  <2> QED BY <2>2, <2>3, <2>4
<1> QED BY <1>5, <1>6

\* Control that is handed over: by a callback that goes on or has returned, or by main.
LEMMA HandOverKeeps ==
    ASSUME PoolInv, fate = "ok", where \in {"away", "back"}, gid \in DOMAIN grths, Stopped # {},
           NEW pool, pool \in [DOMAIN grths -> Slot],
           \A k \in DOMAIN grths : pool[k].rng = grths[k].rng /\ (k # gid => pool[k] = grths[k]),
           pool[gid].state = "Running" \/ (gid # 0 /\ pool[gid].state = "Free"),
           HandOver(pool), UNCHANGED <<created, reused>>
    PROVE  /\ PoolInv' /\ DOMAIN grths' = DOMAIN grths
           /\ \A k \in DOMAIN grths : grths[k].state = "Free" => grths'[k].state = "Free"
<1>1. /\ TypeOK /\ grths \in [DOMAIN grths -> Slot] /\ KeysApart /\ Positions
      /\ DOMAIN pool = DOMAIN grths
  BY DEF PoolInv
<1>2. /\ where = "away" => AwayState
      /\ where = "back" => BackState
      /\ 0 \in DOMAIN grths /\ grths[0].rng = 0
      /\ \A k \in DOMAIN grths : grths[k].state = "Running" <=> k = gid
      /\ where = "away" => gid # 0 /\ grths[0].state = "Stopped"
      /\ where = "back" => gid = 0
  BY <1>1 DEF Positions, AwayState, BackState
<1>3. gid \notin Stopped
  BY <1>2 DEF Stopped
<1> DEFINE c == Chosen
<1>4. /\ c \in DOMAIN grths /\ grths[c].state = "Stopped" /\ c # gid
      /\ c = 0 => Stopped = {0}
  BY <1>1, <1>3, WalkEnds DEF Stopped
<1> HIDE DEF c
<1>5. CASE grths[c].rng \in DOMAIN grths
  <2>1. grths[c].rng = c
    BY <1>1, <1>4, <1>5 DEF KeysApart
  <2>2. /\ grths' = Swapped(pool, gid, c) /\ gid' = c /\ fate' = fate
        /\ where' = IF c = 0 THEN "back" ELSE "away"
    BY <1>5, <2>1 DEF HandOver, Swap, Swapped, c
  <2>3. /\ grths' \in [DOMAIN grths -> Slot] /\ DOMAIN grths' = DOMAIN grths
        /\ \A k \in DOMAIN grths :
              /\ grths'[k].rng = grths[k].rng
              /\ grths'[k].state = IF k = c THEN "Running"
                                   ELSE IF k = gid /\ pool[k].state = "Running" THEN "Stopped"
                                   ELSE pool[k].state
    <3>1. /\ Swapped(pool, gid, c) \in [DOMAIN pool -> Slot]
          /\ DOMAIN Swapped(pool, gid, c) = DOMAIN pool
          /\ \A k \in DOMAIN pool :
                /\ Swapped(pool, gid, c)[k].rng = pool[k].rng
                /\ Swapped(pool, gid, c)[k].state =
                      IF k = c THEN "Running"
                      ELSE IF k = gid /\ pool[k].state = "Running" THEN "Stopped"
                      ELSE pool[k].state
      BY <1>1, <1>4, SwapStates
    <3> QED BY <1>1, <2>2, <3>1
  <2>4. \A k \in DOMAIN grths :
           /\ k = c => grths'[k].state = "Running"
           /\ k = gid => grths'[k].state \in {"Stopped", "Free"}
           /\ k = gid /\ gid = 0 => grths'[k].state = "Stopped"
           /\ k # c /\ k # gid => grths'[k].state = grths[k].state
    BY <1>4, <2>3
  <2>5. TypeOK'
    <3>1. c \in Key \cup {0}
      BY <1>1, <1>4 DEF TypeOK
    <3> QED BY <1>1, <2>2, <2>3, <3>1 DEF TypeOK, Slot
  <2>6. KeysApart'
    BY <1>1, <2>3 DEF KeysApart
  <2>7. where' = "away" => AwayState'
    <3> SUFFICES ASSUME c # 0 PROVE AwayState'
      BY <2>2
    <3>1. grths'[0].state = "Stopped"
      BY <1>2, <2>4
    <3>2. \A k \in DOMAIN grths : grths'[k].state = "Running" <=> k = c
      BY <1>2, <1>4, <2>4
    <3> QED BY <1>2, <1>4, <2>2, <2>3, <3>1, <3>2 DEF AwayState
  <2>8. where' = "back" => BackState'
    <3> SUFFICES ASSUME c = 0 PROVE BackState'
      BY <2>2
    <3>1. \A k \in DOMAIN grths : grths'[k].state = "Running" <=> k = 0
      BY <1>2, <1>4, <2>4
    <3>2. \A k \in DOMAIN grths : grths'[k].state = "Stopped" => k = gid
      BY <1>4, <2>4 DEF Stopped
    <3>3. \A j, k \in Stopped' : j = k
      BY <2>3, <3>2 DEF Stopped
    <3> QED BY <1>2, <2>2, <2>3, <3>1, <3>3 DEF BackState
  <2>9. CrashNeedsReuse' /\ fate' # "exception" /\ where' # "setup"
    BY <2>2 DEF CrashNeedsReuse
  <2>10. \A k \in DOMAIN grths : grths[k].state = "Free" => grths'[k].state = "Free"
    BY <1>2, <1>4, <2>4
  <2> QED BY <2>3, <2>5, <2>6, <2>7, <2>8, <2>9, <2>10 DEF PoolInv, Positions
<1>6. CASE grths[c].rng \notin DOMAIN grths
  <2>1. fate' = "crashed" /\ UNCHANGED <<grths, gid, where, created, reused>>
    BY <1>6 DEF HandOver, c
  <2>2. reused
    BY <1>1, <1>4, <1>6 DEF KeysApart
  <2>3. TypeOK' /\ KeysApart'
    BY <1>1, <2>1 DEF TypeOK, KeysApart
  <2>4. Positions'
    BY <1>1, <2>1 DEF Positions, SetupState, AwayState, BackState, Stopped
  <2> QED BY <1>1, <2>1, <2>2, <2>3, <2>4 DEF PoolInv, CrashNeedsReuse
<1> QED BY <1>5, <1>6
-----------------------------------------------------------------------------
(* The steps. *)

\* A slot that is free stays so until a coroutine is created in it.
FreeStays ==
    \A k \in DOMAIN grths \cap DOMAIN grths' :
        grths[k].state = "Free" /\ ~reused' => grths'[k].state = "Free"

LEMMA CreateKeeps == ASSUME PoolInv, Create PROVE PoolInv' /\ FreeStays
<1>1. TypeOK /\ grths \in [DOMAIN grths -> Slot] /\ KeysApart /\ Positions
  BY DEF PoolInv
<1>2. /\ fate = "ok" /\ where \in {"setup", "away"} /\ created < MaxCreated
      /\ created' = created + 1 /\ reused' = (reused \/ FreeSlots # {})
      /\ UNCHANGED <<gid, where, fate>>
  BY DEF Create
<1>3. PICK r \in Key \ ({grths[k].rng : k \in DOMAIN grths} \cup DOMAIN grths),
           n \in 0 .. MaxYields : grths' = CreateIn(r, n)
  BY DEF Create
<1>4. Coroutine(r, n) \in Slot /\ Coroutine(r, n).rng = r /\ Coroutine(r, n).state = "Stopped"
  BY <1>3 DEF Coroutine, Slot
<1>5. PICK k \in Key : grths' = With(grths, k, Coroutine(r, n))
                       /\ (IF FreeSlots = {} THEN k = r ELSE k \in FreeSlots)
  <2>1. CASE FreeSlots = {}
    BY <1>3, <2>1 DEF CreateIn
  <2>2. CASE FreeSlots # {}
    <3> DEFINE m == Min(FreeSlots)
    <3>1. m \in FreeSlots
      <4>1. FreeSlots \in SUBSET (Key \cup {0})
        BY <1>1 DEF TypeOK, FreeSlots
      <4> QED BY <2>2, <4>1, EndsAreKeys
    <3> HIDE DEF m
    <3>2. m \in DOMAIN grths /\ grths[m].state = "Free"
      BY <3>1 DEF FreeSlots
    <3>3. m # 0
      BY <1>1, <1>2, <3>2 DEF Positions, SetupState, AwayState
    <3>4. m \in Key
      BY <1>1, <3>2, <3>3 DEF TypeOK
    <3>5. grths' = [grths EXCEPT ![m] = Coroutine(r, n)]
      BY <1>3, <2>2 DEF CreateIn, m
    <3>6. [grths EXCEPT ![m] = Coroutine(r, n)] = With(grths, m, Coroutine(r, n))
      <4>1. DOMAIN grths \cup {m} = DOMAIN grths
        BY <3>2
      <4> QED BY <1>1, <4>1 DEF With
    <3> QED BY <2>2, <3>1, <3>4, <3>5, <3>6
  <2> QED BY <2>1, <2>2
<1>6. k # 0 /\ k # gid
  <2>1. 0 \notin Key
    BY CoroutineAssumption DEF Key
  <2>2. CASE FreeSlots = {}
    <3>1. k \notin DOMAIN grths
      BY <1>3, <1>5, <2>2
    <3> QED BY <1>1, <1>2, <2>1, <3>1 DEF Positions, SetupState, AwayState
  <2>3. CASE FreeSlots # {}
    <3>1. k \in DOMAIN grths /\ grths[k].state = "Free"
      BY <1>5, <2>3 DEF FreeSlots
    <3> QED BY <1>1, <1>2, <2>1, <3>1 DEF Positions, SetupState, AwayState
  <2> QED BY <2>2, <2>3
<1>7. /\ grths' \in [DOMAIN grths' -> Slot] /\ DOMAIN grths' = DOMAIN grths \cup {k}
      /\ grths'[k].rng = r /\ grths'[k].state = "Stopped"
      /\ \A j \in DOMAIN grths : j # k => grths'[j] = grths[j]
  <2>1. /\ With(grths, k, Coroutine(r, n)) \in [DOMAIN grths \cup {k} -> Slot]
        /\ DOMAIN With(grths, k, Coroutine(r, n)) = DOMAIN grths \cup {k}
        /\ With(grths, k, Coroutine(r, n))[k] = Coroutine(r, n)
        /\ \A j \in DOMAIN grths : j # k => With(grths, k, Coroutine(r, n))[j] = grths[j]
    BY <1>1, <1>4 DEF With
  <2> QED BY <1>4, <1>5, <2>1
<1>8. TypeOK'
  <2>1. created' \in 0 .. MaxCreated
    BY <1>1, <1>2, CoroutineAssumption DEF TypeOK
  <2>2. DOMAIN grths' \subseteq Key \cup {0}
    BY <1>1, <1>7 DEF TypeOK
  <2>3. reused' \in BOOLEAN
    BY <1>1, <1>2 DEF TypeOK
  <2> QED BY <1>1, <1>2, <1>7, <2>1, <2>2, <2>3 DEF TypeOK, Slot
<1>9. KeysApart'
  <2> SUFFICES ASSUME NEW j \in DOMAIN grths'
               PROVE  /\ grths'[j].rng = j \/ grths'[j].rng \notin DOMAIN grths'
                      /\ ~reused' => grths'[j].rng = j
    BY DEF KeysApart
  <2>1. r \notin DOMAIN grths /\ \A i \in DOMAIN grths : r # grths[i].rng
    BY <1>3
  <2>2. reused' \/ k = r
    BY <1>2, <1>5
  <2>3. FreeSlots = {} => k = r
    BY <1>5
  <2>4. FreeSlots # {} => k \in DOMAIN grths
    BY <1>5 DEF FreeSlots
  <2>5. CASE j = k
    <3>1. k = r \/ r \notin DOMAIN grths'
      BY <1>7, <2>1, <2>3, <2>4
    <3> QED BY <1>7, <2>2, <2>5, <3>1
  <2>6. CASE j # k
    <3>1. j \in DOMAIN grths /\ grths'[j] = grths[j]
      BY <1>7, <2>6
    <3>2. grths[j].rng = j \/ grths[j].rng \notin DOMAIN grths'
      BY <1>1, <1>7, <2>1, <2>3, <2>4, <3>1 DEF KeysApart
    <3> QED BY <1>1, <1>2, <3>1, <3>2 DEF KeysApart
  <2> QED BY <2>5, <2>6
<1>10. Positions'
  <2>1. where = "setup" => SetupState'
    <3>1. where = "setup" => ~reused'
      BY <1>1, <1>2 DEF Positions, SetupState, FreeSlots
    <3> QED BY <1>1, <1>2, <1>6, <1>7, <3>1 DEF Positions, SetupState
  <2>2. where = "away" => AwayState'
    BY <1>1, <1>2, <1>6, <1>7 DEF Positions, AwayState
  <2> QED BY <1>2, <2>1, <2>2 DEF Positions
<1>11. FreeStays
  <2> SUFFICES ASSUME ~reused', NEW j \in DOMAIN grths, grths[j].state = "Free" PROVE FALSE
    BY DEF FreeStays
  <2> QED BY <1>2 DEF FreeSlots
<1> QED BY <1>2, <1>7, <1>8, <1>9, <1>10, <1>11 DEF PoolInv, CrashNeedsReuse

LEMMA GoKeeps == ASSUME PoolInv, Go PROVE PoolInv' /\ FreeStays
<1>1. TypeOK /\ grths \in [DOMAIN grths -> Slot] /\ KeysApart /\ SetupState
  BY DEF PoolInv, Positions, Go
<1>2. fate = "ok" /\ where = "setup" /\ UNCHANGED <<created, reused>>
  BY DEF Go
<1>3. CASE DOMAIN grths = {}
  <2>1. where' = "back" /\ UNCHANGED <<grths, gid, fate>>
    BY <1>3 DEF Go
  <2>2. TypeOK'
    BY <1>1, <1>2, <2>1 DEF TypeOK
  <2>3. KeysApart' /\ BackState' /\ FreeStays
    BY <1>1, <1>2, <1>3, <2>1 DEF KeysApart, SetupState, BackState, Stopped, FreeStays
  <2> QED BY <1>1, <1>2, <2>1, <2>2, <2>3 DEF PoolInv, Positions, CrashNeedsReuse
<1>4. CASE DOMAIN grths # {}
  <2> DEFINE pool == With(grths, 0, Coroutine(0, 0))
             next == Min(DOMAIN grths)
  <2>1. Coroutine(0, 0) \in Slot /\ Coroutine(0, 0).rng = 0 /\ Coroutine(0, 0).state = "Stopped"
    BY CoroutineAssumption DEF Coroutine, Slot
  <2>2. /\ pool \in [DOMAIN pool -> Slot] /\ DOMAIN pool = DOMAIN grths \cup {0}
        /\ pool[0].rng = 0 /\ pool[0].state = "Stopped"
        /\ \A k \in DOMAIN grths : k # 0 => pool[k] = grths[k]
    <3>1. /\ With(grths, 0, Coroutine(0, 0)) \in [DOMAIN grths \cup {0} -> Slot]
          /\ DOMAIN With(grths, 0, Coroutine(0, 0)) = DOMAIN grths \cup {0}
          /\ With(grths, 0, Coroutine(0, 0))[0] = Coroutine(0, 0)
          /\ \A k \in DOMAIN grths : k # 0 => With(grths, 0, Coroutine(0, 0))[k] = grths[k]
      BY <1>1, <2>1 DEF With
    <3> QED BY <2>1, <3>1
  <2>3. next \in DOMAIN grths
    <3>1. DOMAIN grths \in SUBSET (Key \cup {0})
      BY <1>1 DEF TypeOK
    <3> QED BY <1>4, <3>1, EndsAreKeys
  <2>4. /\ grths' = Swapped(pool, 0, next) /\ gid' = next /\ fate' = fate
        /\ where' = IF next = 0 THEN "back" ELSE "away"
    BY <1>4 DEF Go, Swap, Swapped
  <2> HIDE DEF pool, next
  <2>5. 0 \notin DOMAIN grths /\ next # 0 /\ \A k \in DOMAIN grths : grths[k].state = "Stopped"
    BY <1>1, <2>3 DEF SetupState
  <2>6. /\ grths' \in [DOMAIN grths' -> Slot] /\ DOMAIN grths' = DOMAIN grths \cup {0}
        /\ \A k \in DOMAIN pool :
              /\ grths'[k].rng = pool[k].rng
              /\ grths'[k].state = IF k = next THEN "Running"
                                   ELSE IF k = 0 /\ pool[k].state = "Running" THEN "Stopped"
                                   ELSE pool[k].state
    <3>1. /\ Swapped(pool, 0, next) \in [DOMAIN pool -> Slot]
          /\ DOMAIN Swapped(pool, 0, next) = DOMAIN pool
          /\ \A k \in DOMAIN pool :
                /\ Swapped(pool, 0, next)[k].rng = pool[k].rng
                /\ Swapped(pool, 0, next)[k].state =
                      IF k = next THEN "Running"
                      ELSE IF k = 0 /\ pool[k].state = "Running" THEN "Stopped"
                      ELSE pool[k].state
      BY <2>2, <2>3, <2>5, SwapStates
    <3> QED BY <2>2, <2>4, <3>1
  <2>7. /\ grths'[0].rng = 0 /\ grths'[0].state = "Stopped"
        /\ \A k \in DOMAIN grths :
              /\ k # 0 /\ grths'[k].rng = grths[k].rng
              /\ grths'[k].state = IF k = next THEN "Running" ELSE "Stopped"
    BY <2>2, <2>5, <2>6
  <2>8. TypeOK'
    <3>1. DOMAIN grths' \subseteq Key \cup {0} /\ next \in Key \cup {0}
      BY <1>1, <2>3, <2>6 DEF TypeOK
    <3> QED BY <1>1, <1>2, <2>4, <2>6, <3>1 DEF TypeOK, Slot
  <2>9. KeysApart'
    <3>1. ~reused /\ \A k \in DOMAIN grths : grths[k].rng = k
      BY <1>1 DEF KeysApart, SetupState
    <3>2. \A k \in DOMAIN grths' : grths'[k].rng = k
      BY <2>6, <2>7, <3>1
    <3> QED BY <3>2 DEF KeysApart
  <2>10. AwayState' /\ where' = "away"
    BY <2>3, <2>4, <2>5, <2>6, <2>7 DEF AwayState
  <2>11. FreeStays
    BY <2>5 DEF FreeStays
  <2> QED BY <1>2, <2>4, <2>6, <2>8, <2>9, <2>10, <2>11 DEF PoolInv, Positions, CrashNeedsReuse
<1> QED BY <1>3, <1>4

\* The running callback yields or returns; somebody waits, at least main.
LEMMA CallbackKeeps == ASSUME PoolInv, Yield \/ Finish PROVE PoolInv' /\ FreeStays
<1>1. TypeOK /\ grths \in [DOMAIN grths -> Slot] /\ AwayState /\ fate = "ok" /\ where = "away"
  BY DEF PoolInv, Positions, Yield, Finish, Running
<1>2. gid \in DOMAIN grths /\ Stopped # {} /\ UNCHANGED <<created, reused>>
  BY <1>1 DEF AwayState, Stopped, Yield, Finish
<1>3. /\ grths[gid] \in Slot /\ grths[gid].yields \in 0 .. MaxYields
      /\ grths[gid].state = "Running" /\ gid # 0
  BY <1>1, <1>2 DEF Slot, AwayState
<1>4. CASE Yield
  <2> DEFINE pool == [grths EXCEPT ![gid].yields = @ - 1]
  <2>1. HandOver(pool) /\ grths[gid].yields - 1 \in 0 .. MaxYields
    BY <1>3, <1>4, CoroutineAssumption DEF Yield
  <2>2. pool[gid] = [rng |-> grths[gid].rng, state |-> "Running", yields |-> grths[gid].yields - 1]
    BY <1>1, <1>2, <1>3 DEF Slot
  <2>3. pool[gid] \in Slot
    BY <1>3, <2>1, <2>2 DEF Slot
  <2>4. /\ pool \in [DOMAIN grths -> Slot] /\ pool[gid].state = "Running"
        /\ \A k \in DOMAIN grths : pool[k].rng = grths[k].rng /\ (k # gid => pool[k] = grths[k])
    BY <1>1, <1>2, <2>2, <2>3
  <2> HIDE DEF pool
  <2>5. PoolInv' /\ DOMAIN grths' = DOMAIN grths
        /\ \A k \in DOMAIN grths : grths[k].state = "Free" => grths'[k].state = "Free"
    BY <1>1, <1>2, <2>1, <2>4, HandOverKeeps
  <2> QED BY <2>5 DEF FreeStays
<1>5. CASE Finish
  <2> DEFINE pool == [grths EXCEPT ![gid].state = "Free"]
  <2>1. HandOver(pool)
    BY <1>5 DEF Finish
  <2>2. pool[gid] = [rng |-> grths[gid].rng, state |-> "Free", yields |-> grths[gid].yields]
    BY <1>1, <1>2, <1>3 DEF Slot
  <2>3. pool[gid] \in Slot
    BY <1>3, <2>2 DEF Slot
  <2>4. /\ pool \in [DOMAIN grths -> Slot] /\ pool[gid].state = "Free"
        /\ \A k \in DOMAIN grths : pool[k].rng = grths[k].rng /\ (k # gid => pool[k] = grths[k])
    BY <1>1, <1>2, <2>2, <2>3
  <2> HIDE DEF pool
  <2>5. PoolInv' /\ DOMAIN grths' = DOMAIN grths
        /\ \A k \in DOMAIN grths : grths[k].state = "Free" => grths'[k].state = "Free"
    BY <1>1, <1>2, <1>3, <2>1, <2>4, HandOverKeeps
  <2> QED BY <2>5 DEF FreeStays
<1> QED BY <1>4, <1>5

\* Main, back from Go, yields; when nobody waits the outcome is undefined.
LEMMA MainYieldKeeps == ASSUME PoolInv, YieldByMain PROVE PoolInv' /\ FreeStays
<1>1. /\ TypeOK /\ grths \in [DOMAIN grths -> Slot] /\ KeysApart /\ BackState /\ gid = 0
      /\ fate = "ok" /\ where = "back" /\ gid \in DOMAIN grths /\ UNCHANGED <<created, reused>>
  BY DEF PoolInv, Positions, YieldByMain, BackState
<1>2. CASE Stopped # {}
  <2>1. HandOver(grths) /\ grths[gid].state = "Running"
    BY <1>1, <1>2 DEF YieldByMain, BackState
  <2>2. PoolInv' /\ DOMAIN grths' = DOMAIN grths
        /\ \A k \in DOMAIN grths : grths[k].state = "Free" => grths'[k].state = "Free"
    BY <1>1, <1>2, <2>1, HandOverKeeps
  <2> QED BY <2>2 DEF FreeStays
<1>3. CASE Stopped = {}
  <2>1. fate' \in {"ok", "crashed"} /\ UNCHANGED <<grths, gid, where>>
    BY <1>3 DEF YieldByMain
  <2>2. TypeOK' /\ KeysApart' /\ BackState' /\ FreeStays
    BY <1>1, <2>1 DEF TypeOK, KeysApart, BackState, Stopped, FreeStays
  <2>3. CrashNeedsReuse'
    BY <1>1, <1>3, <2>1 DEF CrashNeedsReuse, Stopped
  <2> QED BY <1>1, <2>1, <2>2, <2>3 DEF PoolInv, Positions
<1> QED BY <1>2, <1>3

\* Nobody but main runs when the pool is destroyed: nothing is thrown.
LEMMA DestroyKeeps == ASSUME PoolInv, Destroy PROVE PoolInv' /\ FreeStays
<1>1. TypeOK /\ Positions /\ fate = "ok" /\ where \in {"setup", "back"} /\ UNCHANGED <<gid, created, reused>>
  BY DEF PoolInv, Destroy
<1>2. ~\E k \in DOMAIN grths : grths[k].rng # 0 /\ grths[k].state = "Running"
  BY <1>1 DEF Positions, SetupState, BackState
<1>3. where' = "gone" /\ grths' = <<>> /\ UNCHANGED fate
  BY <1>2 DEF Destroy
<1>4. DOMAIN grths' = {} /\ grths' \in [{} -> Slot]
  BY <1>3
<1>5. TypeOK' /\ KeysApart' /\ Positions' /\ FreeStays
  BY <1>1, <1>3, <1>4 DEF TypeOK, KeysApart, Positions, FreeStays
<1> QED BY <1>1, <1>3, <1>4, <1>5 DEF PoolInv, CrashNeedsReuse

LEMMA PoolNext == PoolInv /\ [Next]_vars => PoolInv' /\ (FreeStays \/ UNCHANGED vars)
<1> SUFFICES ASSUME PoolInv, [Next]_vars PROVE PoolInv' /\ (FreeStays \/ UNCHANGED vars)
  OBVIOUS
<1>1. CASE Create
  BY <1>1, CreateKeeps
<1>2. CASE Go
  BY <1>2, GoKeeps
<1>3. CASE Yield \/ Finish
  BY <1>3, CallbackKeeps
<1>4. CASE YieldByMain
  BY <1>4, MainYieldKeeps
<1>5. CASE Destroy
  BY <1>5, DestroyKeeps
<1>6. CASE UNCHANGED vars
  BY <1>6 DEF vars, PoolInv, TypeOK, KeysApart, Positions, SetupState, AwayState, BackState,
              CrashNeedsReuse, Stopped
<1> QED BY <1>1, <1>2, <1>3, <1>4, <1>5, <1>6 DEF Next
-----------------------------------------------------------------------------
\* The invariant holds, for every number of keys, coroutines and yields.
THEOREM Inductive == Spec => []PoolInv
BY PoolInit, PoolNext, PTL DEF Spec

\* The coroutine that local_gid names runs and no other does, and control is lost only
\* to a slot that was used again, or when main yields to nobody (coroutine.cpp:110-118,
\* 164-177).
THEOREM PoolOKAlways == Spec => []PoolOK
<1>1. PoolInv => PoolOK
  <2> SUFFICES ASSUME PoolInv PROVE OneRuns
    BY DEF PoolInv, PoolOK
  <2> QED BY DEF PoolInv, OneRuns, Positions, AwayState, BackState
<1> QED BY <1>1, Inductive, PTL

\* Go returns when nobody but the one who yields can run, and a Destroy after it never
\* throws (coroutine.cpp:65-77, 171-177).
THEOREM MainIsLastAlways == Spec => []MainIsLast
<1>1. PoolInv => MainIsLast
  <2> SUFFICES ASSUME PoolInv, where = "back" PROVE Cardinality(Stopped) <= 1
    BY DEF PoolInv, MainIsLast
  <2>1. \A j, k \in Stopped : j = k
    BY DEF PoolInv, Positions, BackState
  <2>2. CASE Stopped = {}
    BY <2>2, FS_EmptySet
  <2>3. CASE Stopped # {}
    <3>1. PICK k \in Stopped : TRUE
      BY <2>3
    <3>2. Stopped = {k}
      BY <2>1, <3>1
    <3> QED BY <3>2, FS_Singleton
  <2> QED BY <2>2, <2>3
<1> QED BY <1>1, Inductive, PTL

\* Who has finished never gets control again, unless its slot did get another
\* coroutine: the loop of Finish is left at its first Yield.
THEOREM FinishedStaysFinishedAlways == Spec => FinishedStaysFinished
<1>1. PoolInv /\ [Next]_vars =>
        [\A k \in DOMAIN grths \cap DOMAIN grths' :
            grths[k].state = "Free" /\ ~reused' => grths'[k].state = "Free"]_vars
  BY PoolNext DEF FreeStays
<1> QED BY <1>1, Inductive, PTL DEF Spec, FinishedStaysFinished
=============================================================================
