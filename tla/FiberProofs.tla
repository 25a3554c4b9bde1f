---------------------------- MODULE FiberProofs ----------------------------
(***************************************************************************)
(* Proofs about Fiber for every set of threads, every number of effects    *)
(* and both disciplines of teardown.                                       *)
(*                                                                         *)
(* CleanupAtMostOnce is not inductive: whether a cleanup may run again is  *)
(* decided by where its closure is.  The strengthening says that a closure *)
(* is in one place at most: being set up by one thread, in its slot, in    *)
(* the hands of one thread, or run.                                        *)
(*                                                                         *)
(* And about PluginHost, where the cleanups of different fibers meet, for  *)
(* every set of fibers and of keys and every number of registrations.      *)
(***************************************************************************)
EXTENDS Fiber, PluginHost, FiniteSetTheorems, SequenceTheorems, TLAPS

(* Thread t works on index i: it sets the effect up, has drained its       *)
(* cleanup or has taken it.                                                *)
HasInHand(t, i) ==
  \/ pc[t] = "d_run" /\ i \in held[t]
  \/ pc[t] \in {"e_body", "e_install", "x_run"} /\ cur[t] = i

AtMostOneHand ==
  \A t, u \in Threads, i \in Idx : HasInHand(t, i) /\ HasInHand(u, i) => t = u

InHandOnlyIfNotRun ==
  \A t \in Threads, i \in Idx :
    HasInHand(t, i) => i <= len /\ slot[i] # "full" /\ runs[i] = 0

InSlotOnlyIfNotRun == \A i \in Idx : slot[i] = "full" => i <= len /\ runs[i] = 0

BeyondLenUntouched ==
  \A i \in Idx : i > len => slot[i] = "absent" /\ runs[i] = 0 /\ handle[i] = "none"

CursorInRange ==
  \A t \in Threads :
    pc[t] \in {"e_body", "e_install", "x_take", "x_run"} => cur[t] \in 1..len

HeldOnlyInTeardown == \A t \in Threads : held[t] # {} => pc[t] = "d_run"

OnePlace ==
  /\ TypeOK
  /\ AtMostOneHand
  /\ InHandOnlyIfNotRun
  /\ InSlotOnlyIfNotRun
  /\ BeyondLenUntouched
  /\ CursorInRange
  /\ HeldOnlyInTeardown
  /\ CleanupAtMostOnce

----------------------------------------------------------------------------

(* At the start nothing is registered and no thread is inside a call. *)
LEMMA OnePlaceInit == Init => OnePlace
  BY FiberAssumption
  DEF Init, OnePlace, TypeOK, AtMostOneHand, InHandOnlyIfNotRun,
      InSlotOnlyIfNotRun, BeyondLenUntouched, CursorInRange,
      HeldOnlyInTeardown, CleanupAtMostOnce, HasInHand, FiberState, Idx,
      SetupPc, TeardownPc, DisposerPc

(* Leaving the body keeps the effect in the hands of the thread that sets  *)
(* it up, or, without a cleanup, drops it.                                 *)
LEMMA EffectBodyStep ==
  ASSUME OnePlace, NEW t \in Threads, EffectBody(t)
  PROVE  OnePlace'
  <1> USE FiberAssumption
  <1>1. TypeOK'
    BY DEF OnePlace, TypeOK, EffectBody, Goto, SetupPc, TeardownPc,
           DisposerPc, Idx, CursorInRange
  <1>2. \A u \in Threads, i \in Idx : HasInHand(u, i)' => HasInHand(u, i)
    BY DEF OnePlace, TypeOK, EffectBody, Goto, HasInHand
  <1>3. UNCHANGED <<len, slot, cur, held, runs>>
    BY DEF EffectBody
  <1>4. AtMostOneHand' /\ InHandOnlyIfNotRun'
    BY <1>2, <1>3 DEF OnePlace, AtMostOneHand, InHandOnlyIfNotRun
  <1>5. InSlotOnlyIfNotRun' /\ CleanupAtMostOnce'
    BY <1>3 DEF OnePlace, InSlotOnlyIfNotRun, CleanupAtMostOnce
  <1>6. BeyondLenUntouched'
    BY DEF OnePlace, TypeOK, BeyondLenUntouched, CursorInRange, EffectBody,
       Idx
  <1>7. CursorInRange' /\ HeldOnlyInTeardown'
    BY DEF OnePlace, TypeOK, CursorInRange, HeldOnlyInTeardown, EffectBody,
       Goto
  <1> QED
    BY <1>1, <1>4, <1>5, <1>6, <1>7 DEF OnePlace

(* A teardown runs a cleanup only it has, and lets go of it. *)
LEMMA TeardownRunStep ==
  ASSUME OnePlace, NEW t \in Threads, TeardownRun(t)
  PROVE  OnePlace'
  <1> USE FiberAssumption
  <1>1. PICK i \in held[t] :
          /\ runs' = [runs EXCEPT ![i] = @ + 1]
          /\ held' = [held EXCEPT ![t] = @ \ {i}]
    BY DEF TeardownRun
  <1>2. /\ pc[t] = "d_run"
        /\ UNCHANGED <<state, len, slot, handle, mount, pc, cur>>
    BY DEF TeardownRun
  <1>3. i \in Idx /\ HasInHand(t, i) /\ runs[i] = 0 /\ i <= len /\ slot[i] # "full"
    BY <1>1, <1>2 DEF OnePlace, TypeOK, HasInHand, InHandOnlyIfNotRun
  <1>4. TypeOK'
    BY <1>1, <1>2, <1>3 DEF OnePlace, TypeOK, Idx
  <1>5. \A u \in Threads, j \in Idx :
          HasInHand(u, j)' => HasInHand(u, j) /\ j # i
    BY <1>1, <1>2, <1>3 DEF OnePlace, TypeOK, HasInHand, AtMostOneHand
  <1>6. AtMostOneHand' /\ InHandOnlyIfNotRun'
    BY <1>1, <1>2, <1>5
    DEF OnePlace, TypeOK, AtMostOneHand, InHandOnlyIfNotRun
  <1>7. InSlotOnlyIfNotRun' /\ BeyondLenUntouched' /\ CleanupAtMostOnce'
    BY <1>1, <1>2, <1>3
    DEF OnePlace, TypeOK, Idx, InSlotOnlyIfNotRun, BeyondLenUntouched,
        CleanupAtMostOnce
  <1>8. CursorInRange' /\ HeldOnlyInTeardown'
    BY <1>1, <1>2 DEF OnePlace, TypeOK, CursorInRange, HeldOnlyInTeardown
  <1> QED
    BY <1>4, <1>6, <1>7, <1>8 DEF OnePlace

(* A step that only moves a thread, with nothing in its hands, to a place  *)
(* where it still has nothing, and writes the state.                       *)
LEMMA EmptyHandedStep ==
  ASSUME OnePlace, NEW t \in Threads,
         NEW l \in {"idle", "e_reserve", "d_enter", "d_mark", "d_back", "d_drain"},
         Goto(t, l), pc[t] # "d_run", state' \in FiberState,
         UNCHANGED <<len, slot, handle, mount, cur, held, runs>>
  PROVE  OnePlace'
  <1>1. TypeOK'
    BY FiberAssumption DEF OnePlace, TypeOK, Goto, SetupPc, TeardownPc, DisposerPc
  <1>2. \A u \in Threads, i \in Idx : HasInHand(u, i)' => HasInHand(u, i)
    BY DEF OnePlace, TypeOK, Goto, HasInHand
  <1>3. AtMostOneHand' /\ InHandOnlyIfNotRun'
    BY <1>2 DEF OnePlace, AtMostOneHand, InHandOnlyIfNotRun
  <1>4. InSlotOnlyIfNotRun' /\ BeyondLenUntouched' /\ CleanupAtMostOnce'
    BY DEF OnePlace, InSlotOnlyIfNotRun, BeyondLenUntouched, CleanupAtMostOnce
  <1>5. CursorInRange' /\ HeldOnlyInTeardown'
    BY DEF OnePlace, TypeOK, Goto, CursorInRange, HeldOnlyInTeardown
  <1> QED
    BY <1>1, <1>3, <1>4, <1>5 DEF OnePlace

(* The reserved slot is new: no thread and no slot had its index.          *)
LEMMA EffectReserveStep ==
  ASSUME OnePlace, NEW t \in Threads, EffectReserve(t)
  PROVE  OnePlace'
  <1> USE FiberAssumption
  <1>1. len + 1 \in Idx /\ len' = len + 1 /\ pc[t] = "e_reserve"
    BY DEF OnePlace, TypeOK, EffectReserve, Idx
  <1>2. TypeOK'
    BY <1>1 DEF OnePlace, TypeOK, EffectReserve, Goto, SetupPc, TeardownPc,
                DisposerPc, Idx
  <1>3. \A u \in Threads, i \in Idx :
          HasInHand(u, i)' => \/ u = t /\ i = len + 1
                              \/ u # t /\ HasInHand(u, i) /\ i # len + 1
    <2> SUFFICES ASSUME NEW u \in Threads, NEW i \in Idx, HasInHand(u, i)'
                 PROVE  \/ u = t /\ i = len + 1
                        \/ u # t /\ HasInHand(u, i) /\ i # len + 1
      OBVIOUS
    <2>1. CASE u = t
      BY <2>1, <1>1 DEF OnePlace, TypeOK, EffectReserve, Goto, HasInHand
    <2>2. CASE u # t
      <3>1. HasInHand(u, i)
        BY <2>2 DEF OnePlace, TypeOK, EffectReserve, Goto, HasInHand
      <3>2. i <= len
        BY <3>1 DEF OnePlace, InHandOnlyIfNotRun
      <3> QED
        BY <2>2, <3>1, <3>2 DEF OnePlace, TypeOK, Idx
    <2> QED
      BY <2>1, <2>2
  <1>4. AtMostOneHand'
    BY <1>3 DEF OnePlace, AtMostOneHand
  <1>5. slot' = [slot EXCEPT ![len + 1] = "vacant"] /\ UNCHANGED <<handle, held, runs>>
    BY DEF EffectReserve
  <1>6. runs[len + 1] = 0 /\ slot[len + 1] = "absent"
    BY <1>1 DEF OnePlace, TypeOK, BeyondLenUntouched, Idx
  <1>7. InHandOnlyIfNotRun'
    BY <1>1, <1>3, <1>5, <1>6 DEF OnePlace, TypeOK, InHandOnlyIfNotRun, Idx
  <1>8. InSlotOnlyIfNotRun' /\ BeyondLenUntouched' /\ CleanupAtMostOnce'
    BY <1>1, <1>5
    DEF OnePlace, TypeOK, InSlotOnlyIfNotRun, BeyondLenUntouched,
        CleanupAtMostOnce, Idx
  <1>9. CursorInRange' /\ HeldOnlyInTeardown'
    BY <1>1 DEF OnePlace, TypeOK, EffectReserve, Goto, CursorInRange,
                HeldOnlyInTeardown, Idx
  <1> QED
    BY <1>2, <1>4, <1>7, <1>8, <1>9 DEF OnePlace

(* Installing moves the cleanup from the hands of its thread to its slot.  *)
LEMMA EffectInstallStep ==
  ASSUME OnePlace, NEW t \in Threads, EffectInstall(t)
  PROVE  OnePlace'
  <1> USE FiberAssumption
  <1>1. /\ pc[t] = "e_install" /\ cur[t] \in 1..len /\ cur[t] \in Idx
        /\ HasInHand(t, cur[t]) /\ runs[cur[t]] = 0
    BY DEF OnePlace, TypeOK, EffectInstall, CursorInRange, HasInHand,
           InHandOnlyIfNotRun, Idx
  <1>2. /\ slot' = [slot EXCEPT ![cur[t]] = "full"]
        /\ handle' = [handle EXCEPT ![cur[t]] = "live"]
        /\ UNCHANGED <<state, len, mount, cur, held, runs>>
    BY DEF EffectInstall
  <1>3. TypeOK'
    BY <1>1, <1>2 DEF OnePlace, TypeOK, EffectInstall, Goto, SetupPc,
                      TeardownPc, DisposerPc
  <1>4. \A u \in Threads, i \in Idx :
          HasInHand(u, i)' => HasInHand(u, i) /\ i # cur[t]
    BY <1>1 DEF OnePlace, TypeOK, EffectInstall, Goto, HasInHand, AtMostOneHand
  <1>5. AtMostOneHand' /\ InHandOnlyIfNotRun'
    BY <1>2, <1>4 DEF OnePlace, TypeOK, AtMostOneHand, InHandOnlyIfNotRun
  <1>6. InSlotOnlyIfNotRun' /\ BeyondLenUntouched' /\ CleanupAtMostOnce'
    BY <1>1, <1>2
    DEF OnePlace, TypeOK, InSlotOnlyIfNotRun, BeyondLenUntouched,
        CleanupAtMostOnce, Idx
  <1>7. CursorInRange' /\ HeldOnlyInTeardown'
    BY <1>1 DEF OnePlace, TypeOK, EffectInstall, Goto, CursorInRange,
                HeldOnlyInTeardown
  <1> QED
    BY <1>3, <1>5, <1>6, <1>7 DEF OnePlace

(* Taking moves the cleanup, if the slot still has it, to the taker's      *)
(* hands.                                                                  *)
LEMMA DisposerTakeStep ==
  ASSUME OnePlace, NEW t \in Threads, DisposerTake(t)
  PROVE  OnePlace'
  <1> USE FiberAssumption
  <1>1. pc[t] = "x_take" /\ cur[t] \in 1..len /\ cur[t] \in Idx
    BY DEF OnePlace, TypeOK, DisposerTake, CursorInRange, Idx
  <1>2. /\ slot' = [slot EXCEPT ![cur[t]] = "vacant"]
        /\ UNCHANGED <<state, len, handle, mount, cur, held, runs>>
    BY DEF DisposerTake
  <1>3. TypeOK'
    BY <1>1, <1>2 DEF OnePlace, TypeOK, DisposerTake, Goto, SetupPc,
                      TeardownPc, DisposerPc
  <1>4. \A u \in Threads, i \in Idx :
          HasInHand(u, i)' =>
            \/ u = t /\ i = cur[t] /\ slot[i] = "full"
            \/ u # t /\ HasInHand(u, i) /\ slot[i] # "full"
    <2> SUFFICES ASSUME NEW u \in Threads, NEW i \in Idx, HasInHand(u, i)'
                 PROVE  \/ u = t /\ i = cur[t] /\ slot[i] = "full"
                        \/ u # t /\ HasInHand(u, i) /\ slot[i] # "full"
      OBVIOUS
    <2>1. CASE u = t
      BY <2>1, <1>1 DEF OnePlace, TypeOK, DisposerTake, Goto, HasInHand
    <2>2. CASE u # t
      <3>1. HasInHand(u, i)
        BY <2>2 DEF OnePlace, TypeOK, DisposerTake, Goto, HasInHand
      <3> QED
        BY <2>2, <3>1 DEF OnePlace, InHandOnlyIfNotRun
    <2> QED
      BY <2>1, <2>2
  <1>5. AtMostOneHand'
    BY <1>4 DEF OnePlace, AtMostOneHand
  <1>6. InHandOnlyIfNotRun'
    BY <1>1, <1>2, <1>4
    DEF OnePlace, TypeOK, InHandOnlyIfNotRun, InSlotOnlyIfNotRun
  <1>7. InSlotOnlyIfNotRun' /\ BeyondLenUntouched' /\ CleanupAtMostOnce'
    BY <1>1, <1>2
    DEF OnePlace, TypeOK, InSlotOnlyIfNotRun, BeyondLenUntouched,
        CleanupAtMostOnce, Idx
  <1>8. CursorInRange' /\ HeldOnlyInTeardown'
    BY <1>1 DEF OnePlace, TypeOK, DisposerTake, Goto, CursorInRange,
                HeldOnlyInTeardown
  <1> QED
    BY <1>3, <1>5, <1>6, <1>7, <1>8 DEF OnePlace

(* Running a taken cleanup lets go of it. *)
LEMMA DisposerRunStep ==
  ASSUME OnePlace, NEW t \in Threads, DisposerRun(t)
  PROVE  OnePlace'
  <1> USE FiberAssumption
  <1>1. /\ pc[t] = "x_run" /\ cur[t] \in 1..len /\ cur[t] \in Idx
        /\ HasInHand(t, cur[t]) /\ runs[cur[t]] = 0 /\ slot[cur[t]] # "full"
    BY DEF OnePlace, TypeOK, DisposerRun, CursorInRange, HasInHand,
           InHandOnlyIfNotRun, Idx
  <1>2. /\ runs' = [runs EXCEPT ![cur[t]] = @ + 1]
        /\ UNCHANGED <<state, len, slot, handle, mount, cur, held>>
    BY DEF DisposerRun
  <1>3. TypeOK'
    BY <1>1, <1>2 DEF OnePlace, TypeOK, DisposerRun, Goto
  <1>4. \A u \in Threads, i \in Idx :
          HasInHand(u, i)' => HasInHand(u, i) /\ i # cur[t]
    BY <1>1 DEF OnePlace, TypeOK, DisposerRun, Goto, HasInHand, AtMostOneHand
  <1>5. AtMostOneHand' /\ InHandOnlyIfNotRun'
    BY <1>2, <1>4 DEF OnePlace, TypeOK, AtMostOneHand, InHandOnlyIfNotRun
  <1>6. InSlotOnlyIfNotRun' /\ BeyondLenUntouched' /\ CleanupAtMostOnce'
    BY <1>1, <1>2
    DEF OnePlace, TypeOK, InSlotOnlyIfNotRun, BeyondLenUntouched,
        CleanupAtMostOnce, Idx
  <1>7. CursorInRange' /\ HeldOnlyInTeardown'
    BY <1>1 DEF OnePlace, TypeOK, DisposerRun, Goto, CursorInRange,
                HeldOnlyInTeardown
  <1> QED
    BY <1>3, <1>5, <1>6, <1>7 DEF OnePlace

(* Draining moves every cleanup in the list to the teardown's hands.       *)
LEMMA TeardownDrainStep ==
  ASSUME OnePlace, NEW t \in Threads, TeardownDrain(t)
  PROVE  OnePlace'
  <1> USE FiberAssumption
  <1>1. /\ pc[t] = "d_drain"
        /\ held' = [held EXCEPT ![t] = {i \in Idx : slot[i] = "full"}]
        /\ slot' = [i \in Idx |-> IF slot[i] = "full" THEN "vacant" ELSE slot[i]]
        /\ UNCHANGED <<state, len, handle, mount, cur, runs>>
    BY DEF TeardownDrain
  <1>2. TypeOK'
    BY <1>1 DEF OnePlace, TypeOK, TeardownDrain, Goto, SetupPc, TeardownPc,
                DisposerPc
  <1>3. \A u \in Threads, i \in Idx :
          HasInHand(u, i)' =>
            \/ u = t /\ slot[i] = "full"
            \/ u # t /\ HasInHand(u, i) /\ slot[i] # "full"
    <2> SUFFICES ASSUME NEW u \in Threads, NEW i \in Idx, HasInHand(u, i)'
                 PROVE  \/ u = t /\ slot[i] = "full"
                        \/ u # t /\ HasInHand(u, i) /\ slot[i] # "full"
      OBVIOUS
    <2>1. CASE u = t
      BY <2>1, <1>1 DEF OnePlace, TypeOK, TeardownDrain, Goto, HasInHand
    <2>2. CASE u # t
      <3>1. HasInHand(u, i)
        BY <2>2, <1>1 DEF OnePlace, TypeOK, TeardownDrain, Goto, HasInHand
      <3> QED
        BY <2>2, <3>1 DEF OnePlace, InHandOnlyIfNotRun
    <2> QED
      BY <2>1, <2>2
  <1>4. AtMostOneHand'
    BY <1>3 DEF OnePlace, AtMostOneHand
  <1>5. \A i \in Idx : slot'[i] # "full"
    BY <1>1
  <1>6. InHandOnlyIfNotRun'
    BY <1>1, <1>3, <1>5 DEF OnePlace, InHandOnlyIfNotRun, InSlotOnlyIfNotRun
  <1>7. InSlotOnlyIfNotRun' /\ BeyondLenUntouched' /\ CleanupAtMostOnce'
    BY <1>1, <1>5
    DEF OnePlace, InSlotOnlyIfNotRun, BeyondLenUntouched, CleanupAtMostOnce
  <1>8. CursorInRange' /\ HeldOnlyInTeardown'
    BY <1>1 DEF OnePlace, TypeOK, TeardownDrain, Goto, CursorInRange,
                HeldOnlyInTeardown
  <1> QED
    BY <1>2, <1>4, <1>6, <1>7, <1>8 DEF OnePlace

(* Every step keeps every closure in one place. *)
LEMMA OnePlaceStep == OnePlace /\ [Next]_vars => OnePlace'
  <1> SUFFICES ASSUME OnePlace, [Next]_vars
               PROVE  OnePlace'
    OBVIOUS
  <1>1. CASE MountApply
    BY FiberAssumption, <1>1
    DEF OnePlace, TypeOK, AtMostOneHand, InHandOnlyIfNotRun,
        InSlotOnlyIfNotRun, BeyondLenUntouched, CursorInRange,
        HeldOnlyInTeardown, CleanupAtMostOnce, HasInHand, FiberState,
        SetupPc, TeardownPc, DisposerPc, Goto, Idx, MountApply
  <1>2. CASE MountOk
    BY FiberAssumption, <1>2
    DEF OnePlace, TypeOK, AtMostOneHand, InHandOnlyIfNotRun,
        InSlotOnlyIfNotRun, BeyondLenUntouched, CursorInRange,
        HeldOnlyInTeardown, CleanupAtMostOnce, HasInHand, FiberState,
        SetupPc, TeardownPc, DisposerPc, Goto, Idx, MountOk
  <1>3. CASE MountErr
    BY FiberAssumption, <1>3
    DEF OnePlace, TypeOK, AtMostOneHand, InHandOnlyIfNotRun,
        InSlotOnlyIfNotRun, BeyondLenUntouched, CursorInRange,
        HeldOnlyInTeardown, CleanupAtMostOnce, HasInHand, FiberState,
        SetupPc, TeardownPc, DisposerPc, Goto, Idx, MountErr
  <1>4. ASSUME NEW t \in Threads, EffectCheck(t)
        PROVE  OnePlace'
    BY <1>4, EmptyHandedStep DEF EffectCheck, OnePlace, TypeOK
  <1>5. ASSUME NEW t \in Threads, EffectReserve(t)
        PROVE  OnePlace'
    BY <1>5, EffectReserveStep
  <1>6. ASSUME NEW t \in Threads, EffectBody(t)
        PROVE  OnePlace'
    BY <1>6, EffectBodyStep
  <1>7. ASSUME NEW t \in Threads, EffectInstall(t)
        PROVE  OnePlace'
    BY <1>7, EffectInstallStep
  <1>8. ASSUME NEW t \in Threads, NEW i \in Idx, DisposerSwap(t, i)
        PROVE  OnePlace'
    BY FiberAssumption, <1>8
    DEF OnePlace, TypeOK, AtMostOneHand, InHandOnlyIfNotRun,
        InSlotOnlyIfNotRun, BeyondLenUntouched, CursorInRange,
        HeldOnlyInTeardown, CleanupAtMostOnce, HasInHand, FiberState,
        SetupPc, TeardownPc, DisposerPc, Goto, Idx, DisposerSwap
  <1>9. ASSUME NEW t \in Threads, DisposerTake(t)
        PROVE  OnePlace'
    BY <1>9, DisposerTakeStep
  <1>10. ASSUME NEW t \in Threads, DisposerRun(t)
        PROVE  OnePlace'
    BY <1>10, DisposerRunStep
  <1>11. ASSUME NEW t \in Threads, TeardownCall(t)
        PROVE  OnePlace'
    BY <1>11, EmptyHandedStep DEF TeardownCall, OnePlace, TypeOK
  <1>12. ASSUME NEW t \in Threads, TeardownCheck(t)
        PROVE  OnePlace'
    BY <1>12, EmptyHandedStep DEF TeardownCheck, OnePlace, TypeOK
  <1>13. ASSUME NEW t \in Threads, TeardownMark(t)
        PROVE  OnePlace'
    BY <1>13, EmptyHandedStep DEF TeardownMark, FiberState
  <1>14. ASSUME NEW t \in Threads, TeardownBack(t)
        PROVE  OnePlace'
    BY <1>14, EmptyHandedStep DEF TeardownBack, FiberState
  <1>15. ASSUME NEW t \in Threads, TeardownDrain(t)
        PROVE  OnePlace'
    BY <1>15, TeardownDrainStep
  <1>16. ASSUME NEW t \in Threads, TeardownRun(t)
        PROVE  OnePlace'
    BY <1>16, TeardownRunStep
  <1>17. ASSUME NEW t \in Threads, TeardownFinish(t)
        PROVE  OnePlace'
    BY FiberAssumption, <1>17
    DEF OnePlace, TypeOK, AtMostOneHand, InHandOnlyIfNotRun,
        InSlotOnlyIfNotRun, BeyondLenUntouched, CursorInRange,
        HeldOnlyInTeardown, CleanupAtMostOnce, HasInHand, FiberState,
        SetupPc, TeardownPc, DisposerPc, Goto, Idx, TeardownFinish
  <1>18. CASE UNCHANGED vars
    BY <1>18
    DEF OnePlace, TypeOK, AtMostOneHand, InHandOnlyIfNotRun,
        InSlotOnlyIfNotRun, BeyondLenUntouched, CursorInRange,
        HeldOnlyInTeardown, CleanupAtMostOnce, HasInHand, FiberState,
        SetupPc, TeardownPc, DisposerPc, Goto, Idx, vars
  <1> QED
    BY <1>1, <1>2, <1>3, <1>4, <1>5, <1>6, <1>7, <1>8, <1>9, <1>10, <1>11,
       <1>12, <1>13, <1>14, <1>15, <1>16, <1>17, <1>18
    DEF Next, Call, Continue

(* Every reachable state is well typed. *)
THEOREM FiberTypeOK == Spec => []TypeOK
  <1>1. OnePlace => TypeOK
    BY DEF OnePlace
  <1> QED
    BY <1>1, OnePlaceInit, OnePlaceStep, PTL DEF Spec

(* A cleanup runs at most once, for any number of threads disposing the    *)
(* fiber, disposing handles and registering effects at once.               *)
THEOREM FiberCleanupAtMostOnce == Spec => []CleanupAtMostOnce
  <1>1. OnePlace => CleanupAtMostOnce
    BY DEF OnePlace
  <1> QED
    BY <1>1, OnePlaceInit, OnePlaceStep, PTL DEF Spec

----------------------------------------------------------------------------
(* When teardown never overlaps setup, a closed fiber stays closed and     *)
(* empty.  The strengthening follows the two phases apart: whatever tears  *)
(* down excludes whatever sets up, and past the drain no slot is full.     *)

Closed == state \in {"Unloading", "Disposed"}

PhasesApart == TearingDown \/ Closed => ~SettingUp /\ mount # "fresh"

DrainedStaysEmpty ==
  (state = "Disposed" \/ \E t \in Threads : pc[t] \in {"d_back", "d_run"})
    => \A i \in Idx : slot[i] # "full"

UnloadingIsHandled ==
  state = "Unloading" =>
    \E t \in Threads : pc[t] \in {"d_back", "d_drain", "d_run"}

MounterAlone ==
  mount \in {"fresh", "applying"} =>
    \A t \in Threads \ {Mounter} : pc[t] = "idle"

Apart ==
  /\ TypeOK
  /\ MounterAlone
  /\ PhasesApart
  /\ DrainedStaysEmpty
  /\ UnloadingIsHandled

(* At the start nothing is torn down and the mounter is alone. *)
LEMMA ApartInit == Init => Apart
  BY FiberAssumption
  DEF Init, Apart, MounterAlone, TypeOK, PhasesApart, DrainedStaysEmpty,
      UnloadingIsHandled, Closed, TearingDown, SettingUp, FiberState, Idx, SetupPc, TeardownPc,
      DisposerPc

(* One step keeps the phases apart. *)
LEMMA ApartStep ==
  ASSUME TeardownDuringSetup = FALSE, OnePlace, Apart, [Next]_vars
  PROVE  Apart'
  <1> USE FiberAssumption
      DEF Apart, MounterAlone, PhasesApart, DrainedStaysEmpty, UnloadingIsHandled,
          Closed, TearingDown, SettingUp, Goto,
          SetupPc, TeardownPc, DisposerPc
  <1>1. TypeOK /\ TypeOK'
    BY OnePlaceStep DEF OnePlace
  <1> USE DEF TypeOK
  <1>2. CASE MountApply
    BY <1>1, <1>2 DEF MountApply
  <1>3. CASE MountOk
    BY <1>1, <1>3 DEF MountOk
  <1>4. CASE MountErr
    BY <1>1, <1>4 DEF MountErr
  <1>5. ASSUME NEW t \in Threads, EffectCheck(t)
        PROVE  Apart'
    BY <1>1, <1>5 DEF EffectCheck, Reaches, OnePlace
  <1>6. ASSUME NEW t \in Threads, EffectReserve(t)
        PROVE  Apart'
    BY <1>1, <1>6 DEF EffectReserve, Reaches, OnePlace
  <1>7. ASSUME NEW t \in Threads, EffectBody(t)
        PROVE  Apart'
    BY <1>1, <1>7 DEF EffectBody, Reaches, OnePlace
  <1>8. ASSUME NEW t \in Threads, EffectInstall(t)
        PROVE  Apart'
    BY <1>1, <1>8 DEF EffectInstall, Reaches, OnePlace
  <1>9. ASSUME NEW t \in Threads, NEW i \in Idx, DisposerSwap(t, i)
        PROVE  Apart'
    BY <1>1, <1>9 DEF DisposerSwap, Reaches, OnePlace
  <1>10. ASSUME NEW t \in Threads, DisposerTake(t)
        PROVE  Apart'
    BY <1>1, <1>10 DEF DisposerTake, Reaches, OnePlace
  <1>11. ASSUME NEW t \in Threads, DisposerRun(t)
        PROVE  Apart'
    BY <1>1, <1>11 DEF DisposerRun, Reaches, OnePlace
  <1>12. ASSUME NEW t \in Threads, TeardownCall(t)
        PROVE  Apart'
    BY <1>1, <1>12 DEF TeardownCall, Reaches, OnePlace
  <1>13. ASSUME NEW t \in Threads, TeardownCheck(t)
        PROVE  Apart'
    BY <1>1, <1>13 DEF TeardownCheck, Reaches, OnePlace
  <1>14. ASSUME NEW t \in Threads, TeardownMark(t)
        PROVE  Apart'
    BY <1>1, <1>14 DEF TeardownMark, Reaches, OnePlace
  <1>15. ASSUME NEW t \in Threads, TeardownBack(t)
        PROVE  Apart'
    BY <1>1, <1>15 DEF TeardownBack, Reaches, OnePlace
  <1>16. ASSUME NEW t \in Threads, TeardownDrain(t)
        PROVE  Apart'
    BY <1>1, <1>16 DEF TeardownDrain, Reaches, OnePlace
  <1>17. ASSUME NEW t \in Threads, TeardownRun(t)
        PROVE  Apart'
    BY <1>1, <1>17 DEF TeardownRun, Reaches, OnePlace
  <1>18. ASSUME NEW t \in Threads, TeardownFinish(t)
        PROVE  Apart'
    BY <1>1, <1>18 DEF TeardownFinish, Reaches, OnePlace
  <1>19. CASE UNCHANGED vars
    BY <1>19 DEF vars
  <1> QED
    BY <1>2, <1>3, <1>4, <1>5, <1>6, <1>7, <1>8, <1>9, <1>10,
       <1>11, <1>12, <1>13, <1>14, <1>15, <1>16, <1>17, <1>18, <1>19
    DEF Next, Call, Continue

(* A fiber whose teardown never overlaps its setup leaves no cleanup       *)
(* behind, whoever disposes it and however often.                          *)
THEOREM FiberNoOrphanedCleanup ==
  ASSUME TeardownDuringSetup = FALSE
  PROVE  Spec => []NoOrphanedCleanup
  <1>1. Apart => NoOrphanedCleanup
    BY DEF Apart, DrainedStaysEmpty, NoOrphanedCleanup
  <1>2. OnePlace /\ Apart /\ [Next]_vars => Apart'
    BY ApartStep
  <1> QED
    BY <1>1, <1>2, ApartInit, OnePlaceInit, OnePlaceStep, PTL DEF Spec

(* Under the same discipline a disposed fiber never accepts effects again. *)
THEOREM FiberDisposedIsFinal ==
  ASSUME TeardownDuringSetup = FALSE
  PROVE  Spec => DisposedIsFinal
  <1>1. Apart /\ [Next]_vars
          => [state = "Disposed" => state' \in {"Disposed", "Unloading"}]_state
    BY DEF Apart, PhasesApart, Closed, SettingUp, Next, Call, Continue, vars,
           MountApply, MountOk, MountErr, EffectCheck, EffectReserve,
           EffectBody, EffectInstall, DisposerSwap, DisposerTake, DisposerRun,
           TeardownCall, TeardownCheck, TeardownMark, TeardownBack,
           TeardownDrain, TeardownRun, TeardownFinish
  <1>2. OnePlace /\ Apart /\ [Next]_vars => Apart'
    BY ApartStep
  <1> QED
    BY <1>1, <1>2, ApartInit, OnePlaceInit, OnePlaceStep, PTL
    DEF Spec, DisposedIsFinal

----------------------------------------------------------------------------
(* The order of teardown.  Two teardowns may run side by side; only the    *)
(* one that drained the list has cleanups in its hands.                    *)

OneHolder == \A t, u \in Threads : held[t] # {} /\ held[u] # {} => t = u

(* A thread drains a list that is not empty only where no other has        *)
(* drained yet.                                                            *)
LEMMA OneHolderStep ==
  OnePlace /\ Apart /\ OneHolder /\ [Next]_vars => OneHolder'
  <1> SUFFICES ASSUME OnePlace, Apart, OneHolder, [Next]_vars PROVE OneHolder'
    OBVIOUS
  <1>1. ASSUME NEW t \in Threads, TeardownDrain(t) PROVE OneHolder'
    <2>1. CASE \E i \in Idx : slot[i] = "full"
      <3>1. \A u \in Threads : held[u] = {}
        BY <2>1 DEF OnePlace, HeldOnlyInTeardown, Apart, DrainedStaysEmpty
      <3> QED BY <1>1, <3>1 DEF OnePlace, TypeOK, TeardownDrain, OneHolder
    <2>2. CASE ~ \E i \in Idx : slot[i] = "full"
      <3>1. held' = [held EXCEPT ![t] = {}]
        BY <1>1, <2>2 DEF TeardownDrain
      <3> QED BY <3>1 DEF OnePlace, TypeOK, OneHolder
    <2> QED BY <2>1, <2>2
  <1>2. ASSUME NEW t \in Threads, TeardownRun(t) PROVE OneHolder'
    BY <1>2 DEF OnePlace, TypeOK, TeardownRun, OneHolder
  <1>3. held' = held \/ \E t \in Threads : TeardownDrain(t) \/ TeardownRun(t)
    BY DEF Next, Call, Continue, vars, MountApply, MountOk, MountErr, EffectCheck,
           EffectReserve, EffectBody, EffectInstall, DisposerSwap, DisposerTake,
           DisposerRun, TeardownCall, TeardownCheck, TeardownMark, TeardownBack,
           TeardownFinish
  <1>4. CASE held' = held
    BY <1>4 DEF OneHolder
  <1> QED BY <1>1, <1>2, <1>3, <1>4

(* However many threads dispose the fiber, its cleanups run in the reverse *)
(* of the order in which they were registered.                             *)
THEOREM FiberTeardownIsLifo ==
  ASSUME TeardownDuringSetup = FALSE
  PROVE  Spec => TeardownIsLifo
  <1>1. Init => OneHolder
    BY DEF Init, OneHolder
  <1>2. OnePlace /\ Apart /\ OneHolder /\ [Next]_vars
          => [\A i \in Idx : RunByTeardown(i) =>
                \A j \in Idx : j > i =>
                  /\ slot[j] # "full"
                  /\ \A u \in Threads : j \notin held[u]]_vars
    <2> SUFFICES ASSUME OnePlace, Apart, OneHolder, Next,
                        NEW i \in Idx, RunByTeardown(i), NEW j \in Idx, j > i
                 PROVE  slot[j] # "full" /\ \A u \in Threads : j \notin held[u]
      BY DEF vars
    <2>1. PICK t \in Threads : pc[t] = "d_run" /\ i \in held[t] /\ i \notin held'[t]
      BY DEF RunByTeardown
    <2>2. slot[j] # "full"
      BY <2>1 DEF Apart, DrainedStaysEmpty
    <2>3. PICK u \in Threads : TeardownDrain(u) \/ TeardownRun(u)
      BY <2>1 DEF Next, Call, Continue, MountApply, MountOk, MountErr, EffectCheck,
             EffectReserve, EffectBody, EffectInstall, DisposerSwap, DisposerTake,
             DisposerRun, TeardownCall, TeardownCheck, TeardownMark, TeardownBack,
             TeardownFinish
    <2>4. u = t /\ TeardownRun(t)
      BY <2>1, <2>3 DEF OnePlace, TypeOK, TeardownDrain, TeardownRun
    <2>5. j \notin held[t]
      BY <2>1, <2>4 DEF OnePlace, TypeOK, TeardownRun, Idx
    <2> QED BY <2>1, <2>2, <2>5 DEF OneHolder
  <1>3. OnePlace /\ Apart /\ [Next]_vars => Apart'
    BY ApartStep
  <1> QED
    BY <1>1, <1>2, <1>3, OneHolderStep, ApartInit, OnePlaceInit, OnePlaceStep, PTL
    DEF Spec, TeardownIsLifo

----------------------------------------------------------------------------
(* The fiber keeps the ledger.                                             *)

(* What an index is in the ledger.                                         *)
StatusOf(i) == IF runs[i] > 0 THEN "undone" ELSE IF Owed(i) THEN "live" ELSE "none"

(* A step that neither opens nor closes the fiber nor moves an effect is   *)
(* none of the ledger's; one that closes it is Close.                      *)
LEMMA LedgerStutters ==
  ASSUME Closed => Closed', UNCHANGED runs, \A i \in Idx : Owed(i)' <=> Owed(i)
  PROVE  [Ledger!Next]_(Ledger!vars)
  <1>1. \A i \in Idx : StatusOf(i)' = StatusOf(i)
    BY DEF StatusOf
  <1>2. [i \in Idx |-> StatusOf(i)]' = [i \in Idx |-> StatusOf(i)]
    BY <1>1
  <1> QED
    BY <1>2 DEF Ledger!Next, Ledger!Close, Ledger!vars, StatusOf, Closed

(* A cleanup that runs is undone.                                          *)
LEMMA LedgerUndoes ==
  ASSUME NEW e \in Idx, TypeOK, runs[e] = 0, Owed(e), runs' = [runs EXCEPT ![e] = @ + 1],
         UNCHANGED state, \A i \in Idx \ {e} : Owed(i)' <=> Owed(i)
  PROVE  Ledger!Next
  <1>1. StatusOf(e) = "live" /\ StatusOf(e)' = "undone"
    BY DEF StatusOf, TypeOK
  <1>2. \A i \in Idx \ {e} : StatusOf(i)' = StatusOf(i)
    BY DEF StatusOf, TypeOK
  <1>3. [i \in Idx |-> StatusOf(i)]' = [[i \in Idx |-> StatusOf(i)] EXCEPT ![e] = "undone"]
    BY <1>1, <1>2
  <1>4. Ledger!Undo(e)
    BY <1>1, <1>3 DEF Ledger!Undo, StatusOf
  <1> QED BY <1>4 DEF Ledger!Next

(* While setup and teardown stay apart, every step of a thread is a step   *)
(* of the ledger or none.                                                  *)
LEMMA LedgerStep ==
  ASSUME TeardownDuringSetup = FALSE, OnePlace, Apart, Next
  PROVE  [Ledger!Next]_(Ledger!vars)
  <1> USE FiberAssumption
  <1>1. TypeOK
    BY DEF OnePlace
  (* Steps of setup. *)
  <1>2. CASE MountApply \/ MountOk \/ MountErr
    <2>1. ~Closed
      BY <1>2 DEF MountApply, MountOk, MountErr, Apart, PhasesApart, SettingUp
    <2>2. \A i \in Idx : Owed(i)' <=> Owed(i)
      BY <1>1, <1>2 DEF MountApply, MountOk, MountErr, Owed, TypeOK, Goto
    <2>3. UNCHANGED runs
      BY <1>2 DEF MountApply, MountOk, MountErr
    <2> QED BY <2>1, <2>2, <2>3, LedgerStutters
  <1>3. ASSUME NEW t \in Threads, EffectCheck(t) \/ EffectReserve(t) \/ EffectBody(t)
        PROVE  [Ledger!Next]_(Ledger!vars)
    <2>1. ASSUME NEW i \in Idx PROVE slot'[i] = "full" <=> slot[i] = "full"
      BY <1>1, <1>3 DEF EffectCheck, EffectReserve, EffectBody, TypeOK,
             OnePlace, BeyondLenUntouched, Idx
    <2>2. ASSUME NEW i \in Idx, NEW u \in Threads
          PROVE  (pc[u] = "x_run" /\ cur[u] = i)' <=> pc[u] = "x_run" /\ cur[u] = i
      BY <1>1, <1>3 DEF EffectCheck, EffectReserve, EffectBody, TypeOK, Goto
    <2>3. UNCHANGED <<state, runs, held>>
      BY <1>3 DEF EffectCheck, EffectReserve, EffectBody
    <2>4. \A i \in Idx : Owed(i)' <=> Owed(i)
      BY <2>1, <2>2, <2>3 DEF Owed
    <2> QED BY <2>3, <2>4, LedgerStutters DEF Closed
  <1>4. ASSUME NEW t \in Threads, EffectInstall(t)
        PROVE  [Ledger!Next]_(Ledger!vars)
    <2>1. PICK e \in Idx : e = cur[t]
      BY <1>1, <1>4 DEF EffectInstall, OnePlace, CursorInRange, TypeOK, Idx
    <2>2. runs[e] = 0 /\ ~Owed(e)
      BY <1>1, <1>4, <2>1 DEF EffectInstall, OnePlace, HasInHand, InHandOnlyIfNotRun,
             AtMostOneHand, HeldOnlyInTeardown, Owed
    <2>3. Owed(e)' /\ \A i \in Idx \ {e} : Owed(i)' <=> Owed(i)
      BY <1>1, <1>4, <2>1 DEF EffectInstall, Owed, TypeOK, Goto
    <2>4. UNCHANGED <<state, runs>> /\ ~Closed
      BY <1>4 DEF EffectInstall, Apart, PhasesApart, SettingUp, SetupPc
    <2>5. StatusOf(e) = "none" /\ StatusOf(e)' = "live"
      BY <2>2, <2>3, <2>4 DEF StatusOf
    <2>6. \A i \in Idx \ {e} : StatusOf(i)' = StatusOf(i)
      BY <2>3, <2>4 DEF StatusOf
    <2>7. [i \in Idx |-> StatusOf(i)]' = [[i \in Idx |-> StatusOf(i)] EXCEPT ![e] = "live"]
      BY <2>5, <2>6
    <2>8. Ledger!Register(e)
      BY <2>4, <2>5, <2>7 DEF Ledger!Register, StatusOf, Closed
    <2> QED BY <2>8 DEF Ledger!Next
  (* Steps of an explicit disposer. *)
  <1>5. ASSUME NEW t \in Threads, DisposerTake(t) \/ \E i \in Idx : DisposerSwap(t, i)
        PROVE  [Ledger!Next]_(Ledger!vars)
    <2>1. \A i \in Idx : Owed(i)' <=> Owed(i)
      BY <1>1, <1>5 DEF DisposerTake, DisposerSwap, Owed, TypeOK, Goto, OnePlace,
             CursorInRange, Idx
    <2>2. UNCHANGED <<state, runs>>
      BY <1>5 DEF DisposerTake, DisposerSwap
    <2> QED BY <2>1, <2>2, LedgerStutters DEF Closed
  <1>6. ASSUME NEW t \in Threads, DisposerRun(t)
        PROVE  [Ledger!Next]_(Ledger!vars)
    <2>1. cur[t] \in Idx /\ HasInHand(t, cur[t]) /\ runs[cur[t]] = 0 /\ Owed(cur[t])
      BY <1>1, <1>6 DEF DisposerRun, OnePlace, TypeOK, CursorInRange, HasInHand,
             InHandOnlyIfNotRun, Owed, Idx
    <2>2. \A i \in Idx \ {cur[t]} : Owed(i)' <=> Owed(i)
      BY <1>1, <1>6 DEF DisposerRun, Owed, TypeOK, Goto
    <2> QED BY <1>1, <1>6, <2>1, <2>2, LedgerUndoes DEF DisposerRun
  (* Steps of a teardown. *)
  <1>7. ASSUME NEW t \in Threads,
               TeardownCall(t) \/ TeardownCheck(t) \/ TeardownMark(t) \/ TeardownBack(t)
        PROVE  [Ledger!Next]_(Ledger!vars)
    <2>1. \A i \in Idx : Owed(i)' <=> Owed(i)
      BY <1>1, <1>7 DEF TeardownCall, TeardownCheck, TeardownMark, TeardownBack, Owed,
             TypeOK, Goto
    <2>2. UNCHANGED runs /\ (Closed => Closed')
      BY <1>7 DEF TeardownCall, TeardownCheck, TeardownMark, TeardownBack, Closed
    <2> QED BY <2>1, <2>2, LedgerStutters
  <1>8. ASSUME NEW t \in Threads, TeardownDrain(t)
        PROVE  [Ledger!Next]_(Ledger!vars)
    <2>1. held[t] = {}
      BY <1>8 DEF TeardownDrain, OnePlace, HeldOnlyInTeardown
    <2>2. \A i \in Idx : Owed(i)' <=> Owed(i)
      BY <1>1, <1>8, <2>1 DEF TeardownDrain, Owed, TypeOK, Goto
    <2>3. UNCHANGED <<state, runs>>
      BY <1>8 DEF TeardownDrain
    <2> QED BY <2>2, <2>3, LedgerStutters DEF Closed
  <1>9. ASSUME NEW t \in Threads, TeardownRun(t)
        PROVE  [Ledger!Next]_(Ledger!vars)
    <2>1. PICK e \in held[t] : runs' = [runs EXCEPT ![e] = @ + 1]
                             /\ held' = [held EXCEPT ![t] = @ \ {e}]
      BY <1>9 DEF TeardownRun
    <2>2. e \in Idx /\ HasInHand(t, e) /\ runs[e] = 0 /\ Owed(e)
      BY <1>1, <1>9, <2>1 DEF TeardownRun, OnePlace, TypeOK, HasInHand,
             InHandOnlyIfNotRun, Owed
    <2>3. \A i \in Idx \ {e} : Owed(i)' <=> Owed(i)
      BY <1>1, <1>9, <2>1 DEF TeardownRun, Owed, TypeOK
    <2> QED BY <1>1, <1>9, <2>1, <2>2, <2>3, LedgerUndoes DEF TeardownRun
  <1>10. ASSUME NEW t \in Threads, TeardownFinish(t)
        PROVE  [Ledger!Next]_(Ledger!vars)
    <2>1. \A i \in Idx : Owed(i)' <=> Owed(i)
      BY <1>1, <1>10 DEF TeardownFinish, Owed, TypeOK, Goto
    <2> QED BY <1>10, <2>1, LedgerStutters DEF TeardownFinish, Closed
  <1> QED
    BY <1>2, <1>3, <1>4, <1>5, <1>6, <1>7, <1>8, <1>9, <1>10 DEF Next, Call, Continue

(* A fiber whose teardown never overlaps its setup does what the ledger    *)
(* allows and nothing else: it registers effects while it is open, undoes  *)
(* each once, and stays closed (fiber.rs:14-19).                           *)
THEOREM FiberImplementsLedger ==
  ASSUME TeardownDuringSetup = FALSE
  PROVE  Spec => Ledger!Safety
  <1>1. Init => Ledger!Init
    BY FiberAssumption DEF Init, Ledger!Init, Owed, Idx
  <1>2. OnePlace /\ Apart /\ [Next]_vars => [Ledger!Next]_(Ledger!vars)
    <2>1. CASE UNCHANGED vars
      BY <2>1, LedgerStutters DEF vars, Closed, Owed
    <2> QED BY <2>1, LedgerStep
  <1>3. OnePlace /\ Apart /\ [Next]_vars => Apart'
    BY ApartStep
  <1> QED
    BY <1>1, <1>2, <1>3, ApartInit, OnePlaceInit, OnePlaceStep, PTL
    DEF Spec, Ledger!Safety

----------------------------------------------------------------------------
(* PluginHost                                                              *)

(* The undos a fiber holds, whatever their order. *)
Undos(f) == {effects[f][i] : i \in DOMAIN effects[f]}

EffectsInOrder ==
  \A f \in Fibers : \A i, j \in DOMAIN effects[f] :
    i < j => effects[f][i].reg < effects[f][j].reg

RegsMinted == \A f \in Fibers : \A e \in Undos(f) : e.reg <= minted

RegsApart ==
  \A f, g \in Fibers : \A e \in Undos(f), d \in Undos(g) :
    e.reg = d.reg => f = g /\ e = d

OnlyUpHolds ==
  \A f \in Fibers : phase[f] \in {"fresh", "disposed"} => effects[f] = <<>>

(* The undo of what a key holds names the key. *)
ServicesHaveUndo ==
  \A k \in Keys : services[k] # None =>
    \E f \in Fibers : \E e \in Undos(f) :
      e.kind = "service" /\ e.key = k /\ e.reg = services[k]

HostBase ==
  /\ HostTypeOK
  /\ EffectsInOrder
  /\ RegsMinted
  /\ RegsApart
  /\ OnlyUpHolds
  /\ ~LateCalls => ServicesHaveUndo

(* What f registered is younger than what any other fiber still holds. *)
Latest(f) ==
  \A g \in Fibers \ {f} : \A e \in Undos(f), d \in Undos(g) : d.reg < e.reg

PluginsApart ==
  \A p, q \in DOMAIN plugins : plugins[p] = plugins[q] => p = q

RowsFit ==
  \A f \in Fibers :
    /\ phase[f] = "active" => \E p \in DOMAIN plugins : plugins[p] = f
    /\ phase[f] \in {"fresh", "loading"} => \A p \in DOMAIN plugins : plugins[p] # f

OneBusy ==
  \A f, g \in Fibers :
    {phase[f], phase[g]} \subseteq {"loading", "unloading"} => f = g

BusyIsLatest ==
  \A f \in Fibers : phase[f] \in {"loading", "unloading"} => Latest(f)

PluginsInOrder ==
  \A p, q \in DOMAIN plugins : p < q =>
    \A d \in Undos(plugins[p]), e \in Undos(plugins[q]) : d.reg < e.reg

(* The youngest of a key's services is the one installed, if any is. *)
YoungestServes ==
  \A f \in Fibers : \A e \in Undos(f) :
    e.kind = "service" /\ services[e.key] # None => e.reg <= services[e.key]

ListenersApart ==
  \A p, q \in DOMAIN listeners : listeners[p] = listeners[q] => p = q

ListenersCounted == Len(listeners) = Cardinality(Owned("listener"))

UpTo(n) == {r \in Owned("listener") : r <= n}

(* A listener put in front has only younger ones before it.  One put at    *)
(* the end has only younger ones behind it, and the position it remembers  *)
(* is the number of those that are not younger, itself included.           *)
AtItsPlace ==
  \A f \in Fibers : \A e \in Undos(f) : e.kind = "listener" =>
    \A p \in DOMAIN listeners : listeners[p] = e.reg =>
      \/ /\ e.at = 1
         /\ \A q \in DOMAIN listeners : q < p => e.reg < listeners[q]
      \/ /\ e.at = Cardinality(UpTo(e.reg))
         /\ \A q \in DOMAIN listeners : p < q => e.reg < listeners[q]

StackKept ==
  /\ PluginsApart
  /\ RowsFit
  /\ OneBusy
  /\ BusyIsLatest
  /\ PluginsInOrder
  /\ YoungestServes

ListKept ==
  /\ ListenersApart
  /\ ListenersAreOwned
  /\ ListenersCounted
  /\ AtItsPlace
----------------------------------------------------------------------------
(* Sequences: what one element more or less changes.                       *)

LEMMA SeqAppended ==
  ASSUME NEW S, NEW s \in Seq(S), NEW x \in S
  PROVE  /\ Append(s, x) \in Seq(S)
         /\ Len(s) \in Nat /\ Len(Append(s, x)) = Len(s) + 1
         /\ DOMAIN Append(s, x) = 1..(Len(s) + 1) /\ DOMAIN s = 1..Len(s)
         /\ \A i \in 1..Len(s) : Append(s, x)[i] = s[i]
         /\ Append(s, x)[Len(s) + 1] = x
  OBVIOUS

LEMMA SeqPrepended ==
  ASSUME NEW S, NEW s \in Seq(S), NEW x \in S
  PROVE  /\ <<x>> \o s \in Seq(S)
         /\ Len(s) \in Nat /\ Len(<<x>> \o s) = Len(s) + 1
         /\ DOMAIN (<<x>> \o s) = 1..(Len(s) + 1) /\ DOMAIN s = 1..Len(s)
         /\ (<<x>> \o s)[1] = x
         /\ \A i \in 2..(Len(s) + 1) : (<<x>> \o s)[i] = s[i - 1]
<1>1. <<x>> \in Seq(S) /\ Len(<<x>>) = 1 /\ <<x>>[1] = x  OBVIOUS
<1>2. /\ <<x>> \o s \in Seq(S) /\ Len(<<x>> \o s) = Len(<<x>>) + Len(s)
      /\ \A i \in 1..(Len(<<x>>) + Len(s)) :
           (<<x>> \o s)[i] = IF i <= Len(<<x>>) THEN <<x>>[i] ELSE s[i - Len(<<x>>)]
  BY <1>1, ConcatProperties
<1> DEFINE t == <<x>> \o s
<1>3. t \in Seq(S) /\ Len(s) \in Nat /\ Len(t) = Len(s) + 1
  BY <1>1, <1>2
<1>4. t[1] = x /\ \A i \in 2..(Len(s) + 1) : t[i] = s[i - 1]
  BY <1>1, <1>2, <1>3
<1> HIDE DEF t
<1>5. DOMAIN t = 1..(Len(s) + 1) /\ DOMAIN s = 1..Len(s)  BY <1>3
<1> QED  BY <1>3, <1>4, <1>5 DEF t

LEMMA SeqRemoved ==
  ASSUME NEW S, NEW s \in Seq(S), NEW n \in DOMAIN s
  PROVE  /\ RemoveAt(s, n) \in Seq(S)
         /\ Len(s) \in Nat \ {0} /\ Len(RemoveAt(s, n)) = Len(s) - 1
         /\ DOMAIN RemoveAt(s, n) = 1..(Len(s) - 1) /\ DOMAIN s = 1..Len(s)
         /\ \A i \in 1..(Len(s) - 1) :
              RemoveAt(s, n)[i] = IF i < n THEN s[i] ELSE s[i + 1]
<1> DEFINE k == Len(s)
           a == SubSeq(s, 1, n - 1)
           b == SubSeq(s, n + 1, k)
<1>1. n \in 1..k /\ k \in Nat \ {0} /\ (\A i \in 1..k : s[i] \in S) /\ DOMAIN s = 1..k
  OBVIOUS
<1>2. 1 \in Int /\ n - 1 \in Int /\ n + 1 \in Int /\ k \in Int  BY <1>1
<1>3. (\A i \in 1..(n - 1) : s[i] \in S) /\ (\A i \in (n + 1)..k : s[i] \in S)  BY <1>1
<1> HIDE DEF k
<1>4. /\ a \in Seq(S) /\ Len(a) = IF 1 <= n - 1 THEN n - 1 - 1 + 1 ELSE 0
      /\ \A i \in 1..(n - 1 - 1 + 1) : a[i] = s[1 + i - 1]
  BY <1>2, <1>3, SubSeqProperties
<1>5. /\ b \in Seq(S) /\ Len(b) = IF n + 1 <= k THEN k - (n + 1) + 1 ELSE 0
      /\ \A i \in 1..(k - (n + 1) + 1) : b[i] = s[n + 1 + i - 1]
  BY <1>2, <1>3, SubSeqProperties
<1>6. Len(a) = n - 1 /\ \A i \in 1..(n - 1) : a[i] = s[i]  BY <1>1, <1>4
<1>7. Len(b) = k - n /\ \A i \in 1..(k - n) : b[i] = s[n + i]  BY <1>1, <1>5
<1> DEFINE r == RemoveAt(s, n)
<1>8. r = a \o b  BY DEF RemoveAt, k
<1> HIDE DEF a, b, r
<1>9. /\ r \in Seq(S) /\ Len(r) = Len(a) + Len(b)
      /\ \A i \in 1..(Len(a) + Len(b)) :
           r[i] = IF i <= Len(a) THEN a[i] ELSE b[i - Len(a)]
  BY <1>4, <1>5, <1>8, ConcatProperties
<1>10. Len(r) = k - 1  BY <1>1, <1>6, <1>7, <1>9
<1>11. ASSUME NEW i \in 1..(k - 1)
       PROVE  r[i] = IF i < n THEN s[i] ELSE s[i + 1]
  <2>1. i \in 1..(Len(a) + Len(b))  BY <1>1, <1>6, <1>7
  <2>2. CASE i < n  BY <1>1, <1>6, <1>9, <2>1, <2>2
  <2>3. CASE ~ i < n
    <3>1. r[i] = b[i - (n - 1)]  BY <1>1, <1>6, <1>9, <2>1, <2>3
    <3>2. i - (n - 1) \in 1..(k - n) /\ n + (i - (n - 1)) = i + 1  BY <1>1, <2>3
    <3> QED  BY <1>7, <2>3, <3>1, <3>2
  <2> QED  BY <2>2, <2>3
<1>12. DOMAIN r = 1..(k - 1)  BY <1>9, <1>10
<1> QED  BY <1>1, <1>9, <1>10, <1>11, <1>12 DEF k, r

(* Taking the last element off is taking off the one at the end. *)
LEMMA SeqFront ==
  ASSUME NEW S, NEW s \in Seq(S), s # <<>>
  PROVE  /\ Len(s) \in DOMAIN s /\ Last(s) = s[Len(s)]
         /\ Front(s) = RemoveAt(s, Len(s))
<1> DEFINE k == Len(s)
           r == RemoveAt(s, k)
           f == Front(s)
<1>1. k \in Nat \ {0} /\ DOMAIN s = 1..k /\ \A i \in 1..k : s[i] \in S  OBVIOUS
<1>2. k \in DOMAIN s /\ Last(s) = s[k]  BY <1>1 DEF Last
<1>3. /\ r \in Seq(S) /\ Len(r) = k - 1 /\ DOMAIN r = 1..(k - 1)
      /\ \A i \in 1..(k - 1) : r[i] = IF i < k THEN s[i] ELSE s[i + 1]
  BY <1>2, SeqRemoved
<1>4. f = SubSeq(s, 1, k - 1)  BY DEF Front
<1> HIDE DEF k, r, f
<1>5. 1 \in Int /\ k - 1 \in Int /\ \A i \in 1..(k - 1) : s[i] \in S
  BY <1>1
<1>6. /\ f \in Seq(S)
      /\ Len(f) = IF 1 <= k - 1 THEN k - 1 - 1 + 1 ELSE 0
      /\ \A i \in 1..(k - 1 - 1 + 1) : f[i] = s[1 + i - 1]
  BY <1>4, <1>5, SubSeqProperties
<1>7. Len(f) = k - 1 /\ \A i \in 1..(k - 1) : f[i] = s[i]
  BY <1>1, <1>6
<1>8. \A i \in 1..(k - 1) : f[i] = r[i]
  BY <1>1, <1>3, <1>7
<1>9. f \in [1..Len(f) -> S] /\ r \in [1..Len(r) -> S] /\ Len(f) = Len(r)
  BY <1>3, <1>6, <1>7
<1>10. f = r  BY <1>7, <1>8, <1>9
<1> QED  BY <1>2, <1>10 DEF f, r, k

(* Where the i-th element of what is left was before the n-th went. *)
Skip(n, i) == IF i < n THEN i ELSE i + 1

(* The elements left keep their order, and all but the n-th are left. *)
LEMMA SeqSkips ==
  ASSUME NEW S, NEW s \in Seq(S), NEW n \in DOMAIN s, NEW t, t = RemoveAt(s, n)
  PROVE  /\ \A i \in DOMAIN t : /\ Skip(n, i) \in DOMAIN s /\ Skip(n, i) # n
                                /\ t[i] = s[Skip(n, i)]
         /\ \A i, j \in DOMAIN t : i < j <=> Skip(n, i) < Skip(n, j)
         /\ \A i, j \in DOMAIN t : Skip(n, i) = Skip(n, j) => i = j
         /\ \A m \in DOMAIN s : m # n => \E i \in DOMAIN t : Skip(n, i) = m
<1> DEFINE k == Len(s)
<1>1. /\ k \in Nat \ {0} /\ DOMAIN t = 1..(k - 1) /\ DOMAIN s = 1..k
      /\ \A i \in 1..(k - 1) : t[i] = IF i < n THEN s[i] ELSE s[i + 1]
  BY SeqRemoved
<1> HIDE DEF k
<1>2. n \in 1..k  BY <1>1
<1>3. \A i \in DOMAIN t : /\ Skip(n, i) \in DOMAIN s /\ Skip(n, i) # n
                          /\ t[i] = s[Skip(n, i)]
  BY <1>1, <1>2 DEF Skip
<1>4. /\ \A i, j \in DOMAIN t : i < j <=> Skip(n, i) < Skip(n, j)
      /\ \A i, j \in DOMAIN t : Skip(n, i) = Skip(n, j) => i = j
  BY <1>1, <1>2 DEF Skip
<1>5. ASSUME NEW m \in DOMAIN s, m # n
      PROVE  \E i \in DOMAIN t : Skip(n, i) = m
  <2>1. CASE m < n
    <3>1. m \in DOMAIN t /\ Skip(n, m) = m  BY <1>1, <1>2, <2>1 DEF Skip
    <3> QED  BY <3>1
  <2>2. CASE n < m
    <3>1. m - 1 \in DOMAIN t /\ Skip(n, m - 1) = m  BY <1>1, <1>2, <2>2 DEF Skip
    <3> QED  BY <3>1
  <2> QED  BY <1>1, <1>2, <1>5, <2>1, <2>2
<1> QED  BY <1>3, <1>4, <1>5

----------------------------------------------------------------------------
(* The undo lists.                                                         *)

LEMMA HeldAreEffects ==
  ASSUME HostTypeOK
  PROVE  /\ \A f \in Fibers : /\ effects[f] \in Seq(Effect)
                              /\ \A i \in DOMAIN effects[f] :
                                   effects[f][i] \in Undos(f) /\ effects[f][i] \in Effect
         /\ \A f \in Fibers : \A e \in Undos(f) :
              e \in Effect /\ \E i \in DOMAIN effects[f] : e = effects[f][i]
<1>1. effects \in [Fibers -> Seq(Effect)]  BY DEF HostTypeOK
<1>2. ASSUME NEW f \in Fibers
      PROVE  effects[f] \in Seq(Effect) /\ \A i \in DOMAIN effects[f] : effects[f][i] \in Effect
  BY <1>1
<1> QED  BY <1>2 DEF Undos

LEMMA EffectFields ==
  \A e \in Effect : /\ e.reg \in Regs /\ e.reg \in Nat
                    /\ e.kind \in {"service", "listener"}
                    /\ e.kind = "service" => e.key \in Keys
                    /\ e.kind = "listener" => e.at \in Nat \ {0}
<1>1. ASSUME NEW e \in Effect PROVE e.reg \in Regs /\ e.kind \in {"service", "listener"}
  BY DEF Effect
<1>2. ASSUME NEW e \in Effect PROVE e.kind = "service" => e.key \in Keys
  BY DEF Effect
<1>3. ASSUME NEW e \in Effect PROVE e.kind = "listener" => e.at \in Nat \ {0}
  BY DEF Effect
<1>4. \A r \in Regs : r \in Nat  BY PluginHostAssumption DEF Regs
<1> QED  BY <1>1, <1>2, <1>3, <1>4

(* One more undo: the youngest, at the end of its fiber's list. *)
Appends(f, e) ==
  /\ minted < MaxRegs /\ e.reg = minted + 1 /\ minted' = minted + 1
  /\ effects' = [effects EXCEPT ![f] = Append(@, e)]
  /\ phase[f] \notin {"fresh", "disposed"}
  /\ UNCHANGED <<phase, plugins>>

(* One undo less. *)
Drops(f, i) ==
  /\ i \in DOMAIN effects[f]
  /\ effects' = [effects EXCEPT ![f] = RemoveAt(@, i)]
  /\ UNCHANGED <<phase, plugins, minted>>

LEMMA AppendedUndos ==
  ASSUME HostTypeOK, NEW f \in Fibers, NEW e \in Effect, Appends(f, e)
  PROVE  /\ effects' \in [Fibers -> Seq(Effect)]
         /\ \A g \in Fibers : Undos(g)' = IF g = f THEN Undos(g) \cup {e} ELSE Undos(g)
<1>1. effects[f] \in Seq(Effect) /\ effects \in [Fibers -> Seq(Effect)]
  BY DEF HostTypeOK
<1> DEFINE s == effects[f]
           t == Append(s, e)
<1>2. effects' = [effects EXCEPT ![f] = t]  BY DEF Appends
<1>3. /\ t \in Seq(Effect) /\ Len(s) \in Nat
      /\ DOMAIN t = 1..(Len(s) + 1) /\ DOMAIN s = 1..Len(s)
      /\ \A i \in 1..Len(s) : t[i] = s[i]
      /\ t[Len(s) + 1] = e
  BY <1>1, SeqAppended
<1> HIDE DEF s, t
<1>4. effects' \in [Fibers -> Seq(Effect)]  BY <1>1, <1>2, <1>3
<1>5. {t[i] : i \in DOMAIN t} = {s[i] : i \in DOMAIN s} \cup {e}
  <2>1. \A i \in DOMAIN t : i \in DOMAIN s \/ i = Len(s) + 1  BY <1>3
  <2>2. \A i \in DOMAIN s : i \in DOMAIN t  BY <1>3
  <2>3. Len(s) + 1 \in DOMAIN t  BY <1>3
  <2> QED  BY <1>3, <2>1, <2>2, <2>3
<1>6. ASSUME NEW g \in Fibers
      PROVE  effects'[g] = IF g = f THEN t ELSE effects[g]
  BY <1>1, <1>2
<1>7. ASSUME NEW g \in Fibers
      PROVE  Undos(g)' = IF g = f THEN Undos(g) \cup {e} ELSE Undos(g)
  <2>1. CASE g = f  BY <1>5, <1>6, <2>1 DEF Undos, s
  <2>2. CASE g # f  BY <1>6, <2>2 DEF Undos
  <2> QED  BY <2>1, <2>2
<1> QED  BY <1>4, <1>7

LEMMA AppendedKeeps ==
  ASSUME HostBase, NEW f \in Fibers, NEW e \in Effect, Appends(f, e)
  PROVE  EffectsInOrder' /\ RegsMinted' /\ RegsApart' /\ OnlyUpHolds'
<1> USE DEF HostBase
<1>1. \A g \in Fibers : Undos(g)' = IF g = f THEN Undos(g) \cup {e} ELSE Undos(g)
  BY AppendedUndos
<1>2. minted \in Nat /\ e.reg = minted + 1 /\ minted' = minted + 1
  BY PluginHostAssumption DEF Appends, HostTypeOK
<1>3. \A g \in Fibers : \A d \in Undos(g) : d.reg \in Nat /\ d.reg <= minted
  BY HeldAreEffects, EffectFields DEF RegsMinted
<1>4. RegsMinted'
  BY <1>1, <1>2, <1>3 DEF RegsMinted
<1>5. RegsApart'
  <2> SUFFICES ASSUME NEW g \in Fibers, NEW h \in Fibers,
                      NEW d \in Undos(g)', NEW c \in Undos(h)', d.reg = c.reg
               PROVE  g = h /\ d = c
    BY DEF RegsApart
  <2>1. CASE d = e /\ g = f  BY <1>1, <1>2, <1>3, <2>1
  <2>2. CASE c = e /\ h = f  BY <1>1, <1>2, <1>3, <2>2
  <2>3. CASE ~(d = e /\ g = f) /\ ~(c = e /\ h = f)
    BY <1>1, <2>3 DEF RegsApart
  <2> QED  BY <2>1, <2>2, <2>3
<1>6. EffectsInOrder'
  <2> SUFFICES ASSUME NEW g \in Fibers, NEW i \in DOMAIN effects'[g],
                      NEW j \in DOMAIN effects'[g], i < j
               PROVE  effects'[g][i].reg < effects'[g][j].reg
    BY DEF EffectsInOrder
  <2>1. effects \in [Fibers -> Seq(Effect)]  BY DEF HostTypeOK
  <2>2. CASE g # f  BY <2>1, <2>2 DEF EffectsInOrder, Appends
  <2>3. CASE g = f
    <3> DEFINE s == effects[f]
    <3>1. effects'[f] = Append(s, e) /\ s \in Seq(Effect)  BY <2>1 DEF Appends
    <3>2. /\ Len(s) \in Nat /\ DOMAIN effects'[f] = 1..(Len(s) + 1) /\ DOMAIN s = 1..Len(s)
          /\ \A n \in 1..Len(s) : effects'[f][n] = s[n]
          /\ effects'[f][Len(s) + 1] = e
      BY <3>1, SeqAppended
    <3>3. \A n \in DOMAIN s : s[n].reg \in Nat /\ s[n].reg <= minted
      BY <1>3 DEF Undos
    <3>4. i \in DOMAIN s /\ effects'[f][i] = s[i]  BY <2>3, <3>2
    <3>5. CASE j = Len(s) + 1  BY <1>2, <2>3, <3>2, <3>3, <3>4, <3>5
    <3>6. CASE j # Len(s) + 1
      <4>1. j \in DOMAIN s /\ effects'[f][j] = s[j]  BY <2>3, <3>2, <3>6
      <4>2. s[i].reg < s[j].reg  BY <3>4, <4>1 DEF EffectsInOrder
      <4> QED  BY <2>3, <3>4, <4>1, <4>2
    <3> QED  BY <3>5, <3>6
  <2> QED  BY <2>2, <2>3
<1>7. OnlyUpHolds'
  BY DEF OnlyUpHolds, Appends, HostTypeOK
<1> QED  BY <1>4, <1>5, <1>6, <1>7

LEMMA DroppedUndos ==
  ASSUME HostTypeOK, EffectsInOrder, NEW f \in Fibers, NEW i, Drops(f, i)
  PROVE  /\ effects' \in [Fibers -> Seq(Effect)]
         /\ Len(effects[f]) \in Nat
         /\ EffectsInOrder'
         /\ \A g \in Fibers :
              Undos(g)' = IF g = f THEN Undos(g) \ {effects[f][i]} ELSE Undos(g)
<1>1. effects[f] \in Seq(Effect) /\ effects \in [Fibers -> Seq(Effect)] /\ i \in DOMAIN effects[f]
  BY DEF HostTypeOK, Drops
<1> DEFINE s == effects[f]
           t == RemoveAt(s, i)
<1>2. effects' = [effects EXCEPT ![f] = t]  BY DEF Drops
<1>3. t \in Seq(Effect) /\ Len(s) \in Nat \ {0} /\ DOMAIN s = 1..Len(s)
  BY <1>1, SeqRemoved
<1>4. i \in 1..Len(s) /\ \A n, m \in 1..Len(s) : n < m => s[n].reg < s[m].reg
  BY <1>1, <1>3 DEF EffectsInOrder
<1>5. \A n \in DOMAIN s : s[n].reg \in Nat  BY HeldAreEffects, EffectFields
<1>6. /\ \A n \in DOMAIN t : Skip(i, n) \in DOMAIN s /\ Skip(i, n) # i /\ t[n] = s[Skip(i, n)]
      /\ \A n, m \in DOMAIN t : n < m <=> Skip(i, n) < Skip(i, m)
      /\ \A m \in DOMAIN s : m # i => \E n \in DOMAIN t : Skip(i, n) = m
  BY <1>1, SeqSkips
<1> HIDE DEF s, t
<1>7. \A n \in DOMAIN s : n # i => s[n] # s[i]
  <2> SUFFICES ASSUME NEW n \in DOMAIN s, n # i PROVE s[n].reg # s[i].reg
    OBVIOUS
  <2>1. n < i \/ i < n  BY <1>3, <1>4
  <2>2. s[n].reg < s[i].reg \/ s[i].reg < s[n].reg  BY <1>3, <1>4, <2>1
  <2>3. s[n].reg \in Nat /\ s[i].reg \in Nat  BY <1>3, <1>4, <1>5
  <2> QED  BY <2>2, <2>3
<1>8. {t[n] : n \in DOMAIN t} = {s[n] : n \in DOMAIN s} \ {s[i]}
  <2>1. ASSUME NEW n \in DOMAIN t PROVE t[n] \in {s[m] : m \in DOMAIN s} \ {s[i]}
    BY <1>6, <1>7
  <2>2. ASSUME NEW m \in DOMAIN s, s[m] # s[i] PROVE s[m] \in {t[n] : n \in DOMAIN t}
    <3>1. PICK n \in DOMAIN t : Skip(i, n) = m  BY <1>6, <2>2
    <3> QED  BY <1>6, <3>1
  <2> QED  BY <2>1, <2>2
<1>9. ASSUME NEW g \in Fibers
       PROVE  effects'[g] = IF g = f THEN t ELSE effects[g]
  BY <1>1, <1>2
<1>10. ASSUME NEW g \in Fibers
       PROVE  Undos(g)' = IF g = f THEN Undos(g) \ {effects[f][i]} ELSE Undos(g)
  <2>1. CASE g = f  BY <1>8, <1>9, <2>1 DEF Undos, s
  <2>2. CASE g # f  BY <1>9, <2>2 DEF Undos
  <2> QED  BY <2>1, <2>2
<1>11. EffectsInOrder'
  <2> SUFFICES ASSUME NEW g \in Fibers, NEW n \in DOMAIN effects'[g],
                      NEW m \in DOMAIN effects'[g], n < m
               PROVE  effects'[g][n].reg < effects'[g][m].reg
    BY DEF EffectsInOrder
  <2>1. CASE g = f
    <3>1. Skip(i, n) \in 1..Len(s) /\ Skip(i, m) \in 1..Len(s) /\ Skip(i, n) < Skip(i, m)
      BY <1>3, <1>6, <1>9, <2>1
    <3>2. t[n] = s[Skip(i, n)] /\ t[m] = s[Skip(i, m)]  BY <1>6, <1>9, <2>1
    <3> QED  BY <1>4, <1>9, <2>1, <3>1, <3>2
  <2>2. CASE g # f  BY <1>9, <2>2 DEF EffectsInOrder
  <2> QED  BY <2>1, <2>2
<1>12. effects' \in [Fibers -> Seq(Effect)]  BY <1>1, <1>2, <1>3
<1> QED  BY <1>3, <1>10, <1>11, <1>12 DEF s

LEMMA DroppedKeeps ==
  ASSUME HostBase, NEW f \in Fibers, NEW i, Drops(f, i)
  PROVE  EffectsInOrder' /\ RegsMinted' /\ RegsApart' /\ OnlyUpHolds'
<1> USE DEF HostBase
<1>1. /\ EffectsInOrder'
      /\ \A g \in Fibers :
           Undos(g)' = IF g = f THEN Undos(g) \ {effects[f][i]} ELSE Undos(g)
  BY DroppedUndos
<1>2. RegsMinted'  BY <1>1 DEF RegsMinted, Drops
<1>3. RegsApart'  BY <1>1 DEF RegsApart
<1>4. OnlyUpHolds'
  <2>1. effects[f] # <<>>
    <3>1. effects[f] \in Seq(Effect) /\ i \in DOMAIN effects[f]  BY DEF HostTypeOK, Drops
    <3> QED  BY <3>1
  <2> QED  BY <2>1 DEF OnlyUpHolds, Drops, HostTypeOK
<1> QED  BY <1>1, <1>2, <1>3, <1>4

(* Steps that leave every list as it is. *)
LEMMA SameListsKeep ==
  ASSUME HostBase, effects' = effects, minted' \in {minted, minted + 1}
  PROVE  /\ EffectsInOrder' /\ RegsMinted' /\ RegsApart'
         /\ \A f \in Fibers : Undos(f)' = Undos(f)
<1> USE DEF HostBase
<1>1. \A f \in Fibers : Undos(f)' = Undos(f)  BY DEF Undos
<1>2. EffectsInOrder' /\ RegsApart'  BY <1>1 DEF EffectsInOrder, RegsApart
<1>3. RegsMinted'
  <2>1. minted \in Nat /\ minted <= minted'
    BY PluginHostAssumption DEF HostTypeOK
  <2>2. \A f \in Fibers : \A e \in Undos(f) : e.reg \in Nat
    BY HeldAreEffects, EffectFields
  <2> QED  BY <1>1, <2>1, <2>2 DEF RegsMinted
<1> QED  BY <1>1, <1>2, <1>3

----------------------------------------------------------------------------
(* HostBase is inductive.                                                  *)

LEMMA HostBaseInit == HostInit => HostBase
<1> SUFFICES ASSUME HostInit PROVE HostBase  OBVIOUS
<1>1. HostTypeOK  BY PluginHostAssumption DEF HostInit, HostTypeOK, Regs, None
<1>2. \A f \in Fibers : effects[f] = <<>> /\ Undos(f) = {}
  BY DEF HostInit, Undos
<1>3. EffectsInOrder  BY <1>2 DEF EffectsInOrder
<1>4. RegsMinted /\ RegsApart /\ OnlyUpHolds
  BY <1>2 DEF RegsMinted, RegsApart, OnlyUpHolds
<1>5. ServicesHaveUndo  BY DEF HostInit, ServicesHaveUndo
<1> QED  BY <1>1, <1>3, <1>4, <1>5 DEF HostBase

ServiceUndo(k) == [kind |-> "service", key |-> k, reg |-> minted + 1]

ListenerUndo(prepend) ==
  [kind |-> "listener", reg |-> minted + 1,
   at |-> IF prepend THEN 1 ELSE Len(listeners) + 1]

(* A registration joins the list, or is a late one that nobody owns. *)
LEMMA ProvideMoves ==
  ASSUME HostBase, NEW f \in Fibers, NEW k \in Keys,
         ProvideFor(f, k) \/ ProvideShared(f, k)
  PROVE  /\ ServiceUndo(k) \in Effect
         /\ services' = [services EXCEPT ![k] = minted + 1]
         /\ UNCHANGED <<listeners, phase, plugins>>
         /\ \/ /\ Appends(f, ServiceUndo(k))
               /\ Quiet /\ f \in Live /\ (StackOnly => OnTop(f))
            \/ LateCalls /\ effects' = effects /\ minted' = minted + 1
<1>1. minted \in 0..MaxRegs /\ minted < MaxRegs /\ minted' = minted + 1
  BY DEF ProvideFor, ProvideShared, HostBase, HostTypeOK
<1>2. ServiceUndo(k) \in Effect
  BY <1>1, PluginHostAssumption DEF ServiceUndo, Effect, Regs
<1>3. /\ services' = [services EXCEPT ![k] = minted + 1]
      /\ UNCHANGED <<listeners, phase, plugins>>
      /\ Own(f, ServiceUndo(k)) /\ MayRegister(f)
  BY DEF ProvideFor, ProvideShared, ServiceUndo
<1>4. CASE phase[f] = "disposed"
  BY <1>1, <1>2, <1>3, <1>4 DEF Own, MayRegister, Live
<1>5. CASE phase[f] # "disposed"
  <2>1. Quiet /\ f \in Live /\ (StackOnly => OnTop(f)) /\ phase[f] # "fresh"
    BY <1>3, <1>5 DEF MayRegister, Live
  <2>2. ServiceUndo(k).reg = minted + 1  BY DEF ServiceUndo
  <2> QED  BY <1>1, <1>2, <1>3, <1>5, <2>1, <2>2 DEF Own, Appends
<1> QED  BY <1>4, <1>5

LEMMA OnMoves ==
  ASSUME HostBase, NEW f \in Fibers, NEW prepend \in BOOLEAN, On(f, prepend)
  PROVE  /\ ListenerUndo(prepend) \in Effect
         /\ minted + 1 \in Regs
         /\ listeners' = IF prepend THEN <<minted + 1>> \o listeners
                                    ELSE Append(listeners, minted + 1)
         /\ UNCHANGED <<services, phase, plugins>>
         /\ \/ /\ Appends(f, ListenerUndo(prepend))
               /\ Quiet /\ f \in Live /\ (StackOnly => OnTop(f))
            \/ LateCalls /\ effects' = effects /\ minted' = minted + 1
<1>1. /\ minted \in 0..MaxRegs /\ minted < MaxRegs /\ minted' = minted + 1
      /\ listeners \in Seq(Regs)
  BY DEF On, HostBase, HostTypeOK
<1>2. minted + 1 \in Regs /\ Len(listeners) + 1 \in Nat \ {0}
  BY <1>1, PluginHostAssumption DEF Regs
<1>3. ListenerUndo(prepend) \in Effect
  BY <1>2 DEF ListenerUndo, Effect
<1>4. /\ listeners' = IF prepend THEN <<minted + 1>> \o listeners
                                 ELSE Append(listeners, minted + 1)
      /\ UNCHANGED <<services, phase, plugins>>
      /\ Own(f, ListenerUndo(prepend)) /\ MayRegister(f)
  BY DEF On, ListenerUndo
<1>5. CASE phase[f] = "disposed"
  BY <1>1, <1>2, <1>3, <1>4, <1>5 DEF Own, MayRegister, Live
<1>6. CASE phase[f] # "disposed"
  <2>1. Quiet /\ f \in Live /\ (StackOnly => OnTop(f)) /\ phase[f] # "fresh"
    BY <1>4, <1>6 DEF MayRegister, Live
  <2>2. ListenerUndo(prepend).reg = minted + 1  BY DEF ListenerUndo
  <2> QED  BY <1>1, <1>2, <1>3, <1>4, <1>6, <2>1, <2>2 DEF Own, Appends
<1> QED  BY <1>5, <1>6

(* A cleanup is the undo of an entry that leaves its list. *)
LEMMA RunCleanupMoves ==
  ASSUME HostBase, NEW f \in Fibers, RunCleanup(f)
  PROVE  /\ Drops(f, Len(effects[f])) /\ UndoEffect(effects[f][Len(effects[f])])
         /\ phase[f] = "unloading"
<1>1. effects[f] \in Seq(Effect) /\ effects[f] # <<>>
  BY DEF HostBase, HostTypeOK, RunCleanup
<1>2. /\ Len(effects[f]) \in DOMAIN effects[f]
      /\ Last(effects[f]) = effects[f][Len(effects[f])]
      /\ Front(effects[f]) = RemoveAt(effects[f], Len(effects[f]))
  BY <1>1, SeqFront
<1> QED  BY <1>2 DEF RunCleanup, Drops

LEMMA DisposeOneMoves ==
  ASSUME HostBase, NEW f \in Fibers, NEW i \in 1..MaxRegs, DisposeOne(f, i)
  PROVE  /\ Drops(f, i) /\ UndoEffect(effects[f][i])
         /\ StackOnly => i = Len(effects[f])
         /\ MayUnwind(f)
  BY DEF DisposeOne, Drops

(* The steps of a fiber's lifecycle touch neither maps nor lists. *)
LifecycleStep(f) ==
  Mount(f) \/ ApplyOk(f) \/ ApplyErr(f) \/ Unmount(f) \/ DisposeFiber(f) \/ EndTearDown(f)

LEMMA LifecycleMoves ==
  ASSUME HostBase, NEW f \in Fibers, LifecycleStep(f)
  PROVE  /\ UNCHANGED <<services, listeners, effects, minted>>
         /\ HostTypeOK' /\ OnlyUpHolds'
<1> USE DEF HostBase
<1>1. UNCHANGED <<services, listeners, effects, minted>>
  BY DEF LifecycleStep, Mount, ApplyOk, ApplyErr, Unmount, DisposeFiber, EndTearDown
<1>2. phase' \in [Fibers -> {"fresh", "loading", "active", "unloading", "disposed"}]
  BY DEF LifecycleStep, Mount, ApplyOk, ApplyErr, Unmount, DisposeFiber, EndTearDown,
         BeginTearDown, HostTypeOK
<1>3. plugins' \in Seq(Fibers)
  <2>1. plugins \in Seq(Fibers)  BY DEF HostTypeOK
  <2>2. CASE ApplyOk(f)  BY <2>1, <2>2 DEF ApplyOk
  <2>3. CASE Unmount(f)
    <3>1. PICK p \in DOMAIN plugins : plugins' = RemoveAt(plugins, p)
      BY <2>3 DEF Unmount
    <3> QED  BY <2>1, <3>1, SeqRemoved
  <2>4. CASE ~ApplyOk(f) /\ ~Unmount(f)
    BY <2>1, <2>4 DEF LifecycleStep, Mount, ApplyErr, DisposeFiber, EndTearDown
  <2> QED  BY <2>2, <2>3, <2>4
<1>4. HostTypeOK'  BY <1>1, <1>2, <1>3 DEF HostTypeOK, Regs
<1>5. OnlyUpHolds'
  BY <1>1 DEF OnlyUpHolds, HostTypeOK, LifecycleStep, Mount, ApplyOk, ApplyErr, Unmount,
              DisposeFiber, EndTearDown, BeginTearDown
<1> QED  BY <1>1, <1>4, <1>5

(* The undo of a service takes the key's service, whoever's it is. *)
LEMMA UndoneService ==
  ASSUME HostTypeOK, NEW e \in Effect, UndoEffect(e), e.kind = "service"
  PROVE  services' = [services EXCEPT ![e.key] = None] /\ listeners' = listeners
  BY DEF UndoEffect, RemoveService

LEMMA UndoneListener ==
  ASSUME HostTypeOK, NEW e \in Effect, UndoEffect(e), e.kind = "listener"
  PROVE  /\ services' = services
         /\ listeners' = IF e.at <= Len(listeners) THEN RemoveAt(listeners, e.at)
                         ELSE listeners
  BY DEF UndoEffect, RemoveListener

LEMMA UndoTyped ==
  ASSUME HostTypeOK, NEW e \in Effect, UndoEffect(e)
  PROVE  services' \in [Keys -> Regs \cup {None}] /\ listeners' \in Seq(Regs)
<1>1. services \in [Keys -> Regs \cup {None}] /\ listeners \in Seq(Regs)
  BY DEF HostTypeOK
<1>2. CASE e.kind = "service"  BY <1>1, <1>2, UndoneService
<1>3. CASE e.kind = "listener"
  <2>1. CASE e.at <= Len(listeners)
    <3>1. e.at \in DOMAIN listeners  BY <1>1, <1>3, <2>1, EffectFields
    <3> QED  BY <1>1, <1>3, <2>1, <3>1, SeqRemoved, UndoneListener
  <2>2. CASE ~ e.at <= Len(listeners)  BY <1>1, <1>3, <2>2, UndoneListener
  <2> QED  BY <2>1, <2>2
<1> QED  BY <1>2, <1>3, EffectFields

(* With every undo still held, what was owned is. *)
LEMMA OwnedStaysOwned ==
  ASSUME ServicesHaveUndo, \A k \in Keys : services'[k] \in {services[k], None},
         \A f \in Fibers : Undos(f) \subseteq Undos(f)'
  PROVE  ServicesHaveUndo'
<1> SUFFICES ASSUME NEW k \in Keys, services'[k] # None
             PROVE  \E f \in Fibers : \E e \in Undos(f)' :
                      e.kind = "service" /\ e.key = k /\ e.reg = services'[k]
  BY DEF ServicesHaveUndo, None
<1>1. services'[k] = services[k]  OBVIOUS
<1>2. PICK f \in Fibers : \E e \in Undos(f) :
        e.kind = "service" /\ e.key = k /\ e.reg = services[k]
  BY <1>1 DEF ServicesHaveUndo
<1> QED  BY <1>1, <1>2

LEMMA ProvideBase ==
  ASSUME HostBase, NEW f \in Fibers, NEW k \in Keys,
         ProvideFor(f, k) \/ ProvideShared(f, k)
  PROVE  HostBase'
<1>1. HostTypeOK /\ OnlyUpHolds  BY DEF HostBase
<1>2. /\ ServiceUndo(k) \in Effect
      /\ services' = [services EXCEPT ![k] = minted + 1]
      /\ UNCHANGED <<listeners, phase, plugins>>
  BY ProvideMoves
<1>3. minted + 1 \in Regs /\ ServiceUndo(k).reg = minted + 1
  BY <1>2, EffectFields DEF ServiceUndo
<1>4. services' \in [Keys -> Regs \cup {None}] /\ listeners' \in Seq(Regs)
  BY <1>1, <1>2, <1>3 DEF HostTypeOK
<1>5. CASE Appends(f, ServiceUndo(k))
  <2>1. /\ effects' \in [Fibers -> Seq(Effect)]
        /\ \A g \in Fibers : Undos(g)' = IF g = f THEN Undos(g) \cup {ServiceUndo(k)}
                                                 ELSE Undos(g)
    BY <1>1, <1>2, <1>5, AppendedUndos
  <2>2. minted' \in 0..MaxRegs
    BY <1>1, <1>5, PluginHostAssumption DEF Appends, HostTypeOK
  <2>3. HostTypeOK'
    BY <1>1, <1>2, <1>4, <2>1, <2>2 DEF HostTypeOK, Regs, Effect
  <2>4. ASSUME ~LateCalls PROVE ServicesHaveUndo'
    <3> SUFFICES ASSUME NEW c \in Keys, services'[c] # None
                 PROVE  \E g \in Fibers : \E e \in Undos(g)' :
                          e.kind = "service" /\ e.key = c /\ e.reg = services'[c]
      BY DEF ServicesHaveUndo, None
    <3>1. CASE c = k
      <4>1. ServiceUndo(k) \in Undos(f)'  BY <2>1
      <4>2. services'[c] = minted + 1  BY <1>1, <1>2, <3>1 DEF HostTypeOK
      <4> QED  BY <3>1, <4>1, <4>2 DEF ServiceUndo
    <3>2. CASE c # k
      <4>1. services'[c] = services[c]  BY <1>1, <1>2, <3>2 DEF HostTypeOK
      <4> QED  BY <2>1, <2>4, <4>1 DEF HostBase, ServicesHaveUndo
    <3> QED  BY <3>1, <3>2
  <2> QED  BY <1>2, <1>5, <2>3, <2>4, AppendedKeeps DEF HostBase
<1>6. CASE LateCalls /\ effects' = effects /\ minted' = minted + 1
  <2>1. minted' \in 0..MaxRegs  BY <1>3, <1>6, PluginHostAssumption DEF Regs
  <2>2. HostTypeOK'  BY <1>1, <1>2, <1>4, <1>6, <2>1 DEF HostTypeOK, Regs, Effect
  <2>3. OnlyUpHolds'  BY <1>1, <1>2, <1>6 DEF OnlyUpHolds
  <2> QED  BY <1>6, <2>2, <2>3, SameListsKeep DEF HostBase
<1> QED  BY <1>5, <1>6, ProvideMoves

LEMMA OnBase ==
  ASSUME HostBase, NEW f \in Fibers, NEW prepend \in BOOLEAN, On(f, prepend)
  PROVE  HostBase'
<1>1. HostTypeOK /\ OnlyUpHolds  BY DEF HostBase
<1> DEFINE u == ListenerUndo(prepend)
<1>2. /\ u \in Effect /\ minted + 1 \in Regs
      /\ listeners' = IF prepend THEN <<minted + 1>> \o listeners
                                 ELSE Append(listeners, minted + 1)
      /\ UNCHANGED <<services, phase, plugins>>
  BY OnMoves
<1>3. listeners' \in Seq(Regs)
  <2>1. listeners \in Seq(Regs)  BY <1>1 DEF HostTypeOK
  <2>2. <<minted + 1>> \o listeners \in Seq(Regs)  BY <1>2, <2>1, SeqPrepended
  <2>3. Append(listeners, minted + 1) \in Seq(Regs)  BY <1>2, <2>1, SeqAppended
  <2> QED  BY <1>2, <2>2, <2>3
<1>4. \/ Appends(f, u)
      \/ LateCalls /\ effects' = effects /\ minted' = minted + 1
  BY OnMoves
<1> HIDE DEF u
<1>5. CASE Appends(f, u)
  <2>1. /\ effects' \in [Fibers -> Seq(Effect)]
        /\ \A g \in Fibers : Undos(g)' = IF g = f THEN Undos(g) \cup {u} ELSE Undos(g)
    BY <1>1, <1>2, <1>5, AppendedUndos
  <2>2. minted' \in 0..MaxRegs
    BY <1>1, <1>5, PluginHostAssumption DEF Appends, HostTypeOK
  <2>3. HostTypeOK'
    BY <1>1, <1>2, <1>3, <2>1, <2>2 DEF HostTypeOK, Regs, Effect
  <2>4. ASSUME ~LateCalls PROVE ServicesHaveUndo'
    BY <1>2, <2>1, <2>4, OwnedStaysOwned DEF HostBase
  <2> QED  BY <1>2, <1>5, <2>3, <2>4, AppendedKeeps DEF HostBase
<1>6. CASE LateCalls /\ effects' = effects /\ minted' = minted + 1
  <2>1. minted' \in 0..MaxRegs  BY <1>2, <1>6, PluginHostAssumption DEF Regs
  <2>2. HostTypeOK'  BY <1>1, <1>2, <1>3, <1>6, <2>1 DEF HostTypeOK, Regs, Effect
  <2>3. OnlyUpHolds'  BY <1>1, <1>2, <1>6 DEF OnlyUpHolds
  <2> QED  BY <1>6, <2>2, <2>3, SameListsKeep DEF HostBase
<1> QED  BY <1>4, <1>5, <1>6

LEMMA UndoBase ==
  ASSUME HostBase, NEW f \in Fibers, NEW i, Drops(f, i), UndoEffect(effects[f][i])
  PROVE  HostBase'
<1>1. HostTypeOK /\ EffectsInOrder /\ RegsApart  BY DEF HostBase
<1> DEFINE e == effects[f][i]
<1>2. e \in Effect /\ e \in Undos(f)  BY <1>1, HeldAreEffects DEF Drops
<1>3. /\ effects' \in [Fibers -> Seq(Effect)]
      /\ \A g \in Fibers : Undos(g)' = IF g = f THEN Undos(g) \ {e} ELSE Undos(g)
  BY <1>1, DroppedUndos
<1>4. UndoEffect(e) /\ services' \in [Keys -> Regs \cup {None}] /\ listeners' \in Seq(Regs)
  BY <1>1, <1>2, UndoTyped
<1>5. UNCHANGED <<phase, plugins, minted>>  BY DEF Drops
<1> HIDE DEF e
<1>6. HostTypeOK'  BY <1>1, <1>3, <1>4, <1>5 DEF HostTypeOK, Regs, Effect
<1>7. ASSUME ~LateCalls PROVE ServicesHaveUndo'
  <2>1. ServicesHaveUndo  BY <1>7 DEF HostBase
  <2> SUFFICES ASSUME NEW c \in Keys, services'[c] # None
               PROVE  \E g \in Fibers : \E d \in Undos(g)' :
                        d.kind = "service" /\ d.key = c /\ d.reg = services'[c]
    BY DEF ServicesHaveUndo, None
  <2>2. services'[c] = services[c] /\ ~(e.kind = "service" /\ e.key = c)
    <3>1. CASE e.kind = "service"
      BY <1>1, <1>2, <1>4, <3>1, UndoneService, EffectFields DEF HostTypeOK
    <3>2. CASE e.kind = "listener"  BY <1>1, <1>2, <1>4, <3>2, UndoneListener
    <3> QED  BY <1>2, <3>1, <3>2, EffectFields
  <2>3. PICK g \in Fibers : \E d \in Undos(g) :
          d.kind = "service" /\ d.key = c /\ d.reg = services[c]
    BY <2>1, <2>2 DEF ServicesHaveUndo
  <2>4. PICK d \in Undos(g) : d.kind = "service" /\ d.key = c /\ d.reg = services[c]
    BY <2>3
  <2>5. d \in Undos(g)'  BY <1>3, <2>2, <2>4
  <2> QED  BY <2>2, <2>4, <2>5
<1> QED  BY <1>6, <1>7, DroppedKeeps DEF HostBase

LEMMA HostBaseStep ==
  ASSUME HostBase, [HostNext]_hostVars
  PROVE  HostBase'
<1>1. ASSUME NEW f \in Fibers, LifecycleStep(f) PROVE HostBase'
  <2>1. UNCHANGED <<services, effects, minted>> /\ HostTypeOK' /\ OnlyUpHolds'
    BY <1>1, LifecycleMoves
  <2>2. \A g \in Fibers : Undos(g)' = Undos(g)  BY <2>1, SameListsKeep
  <2>3. ~LateCalls => ServicesHaveUndo'
    BY <2>1, <2>2, OwnedStaysOwned DEF HostBase
  <2> QED  BY <2>1, <2>3, SameListsKeep DEF HostBase
<1>2. ASSUME NEW f \in Fibers, NEW k \in Keys, RemoveNow(f, k) PROVE HostBase'
  <2>1. services' = [services EXCEPT ![k] = None]
        /\ UNCHANGED <<listeners, effects, phase, plugins, minted>>
    BY <1>2 DEF RemoveNow
  <2>2. HostTypeOK' /\ OnlyUpHolds'
    BY <2>1 DEF HostBase, HostTypeOK, OnlyUpHolds, Regs, Effect, None
  <2>3. \A g \in Fibers : Undos(g)' = Undos(g)  BY <2>1, SameListsKeep
  <2>4. ~LateCalls => ServicesHaveUndo'
    <3>1. \A c \in Keys : services'[c] \in {services[c], None}
      BY <2>1 DEF HostBase, HostTypeOK
    <3> QED  BY <2>3, <3>1, OwnedStaysOwned DEF HostBase
  <2> QED  BY <2>1, <2>2, <2>4, SameListsKeep DEF HostBase
<1>3. ASSUME NEW f \in Fibers, RunCleanup(f) PROVE HostBase'
  BY <1>3, RunCleanupMoves, UndoBase
<1>4. ASSUME NEW f \in Fibers, NEW i \in 1..MaxRegs, DisposeOne(f, i) PROVE HostBase'
  BY <1>4, DisposeOneMoves, UndoBase
<1>5. CASE UNCHANGED hostVars
  BY <1>5 DEF hostVars, HostBase, HostTypeOK, EffectsInOrder, RegsMinted, RegsApart,
              OnlyUpHolds, ServicesHaveUndo, Undos, Regs, Effect, None
<1>6. CASE HostNext
  BY <1>1, <1>2, <1>3, <1>4, <1>6, ProvideBase, OnBase DEF HostNext, Register, LifecycleStep
<1> QED  BY <1>5, <1>6

LEMMA HostBaseAlways == HostSpec => []HostBase
<1>1. HostInit => HostBase  BY HostBaseInit
<1>2. HostBase /\ [HostNext]_hostVars => HostBase'  BY HostBaseStep
<1> QED  BY <1>1, <1>2, PTL DEF HostSpec

(* The plugin host's variables keep their types. *)
THEOREM HostTypesKept == HostSpec => []HostTypeOK
<1>1. HostBase => HostTypeOK  BY DEF HostBase
<1> QED  BY <1>1, HostBaseAlways, PTL

(* No service is left behind: in whatever order callers unwind, as long as *)
(* nobody registers on a fiber that was torn down (context.rs:70-74).      *)
THEOREM HostServicesAreOwned == ~LateCalls => (HostSpec => []ServicesAreOwned)
<1>1. ASSUME ~LateCalls, HostBase PROVE ServicesAreOwned
  <2> SUFFICES ASSUME NEW k \in Keys, services[k] # None
               PROVE  services[k] \in Owned("service")
    BY DEF ServicesAreOwned
  <2>1. HostTypeOK  BY <1>1 DEF HostBase
  <2>2. PICK f \in Fibers : \E e \in Undos(f) : e.kind = "service" /\ e.reg = services[k]
    BY <1>1 DEF HostBase, ServicesHaveUndo
  <2>3. PICK e \in Undos(f) : e.kind = "service" /\ e.reg = services[k]
    BY <2>2
  <2> QED  BY <2>1, <2>3, HeldAreEffects, EffectFields DEF Owned
<1> SUFFICES ASSUME ~LateCalls PROVE HostSpec => []ServicesAreOwned  OBVIOUS
<1>2. HostBase => ServicesAreOwned  BY <1>1
<1> QED  BY <1>2, HostBaseAlways, PTL

----------------------------------------------------------------------------
(* StackKept: callers unwind in the reverse of the order they built.       *)

LEMMA UndosFit ==
  ASSUME HostBase
  PROVE  /\ \A f \in Fibers : \A e \in Undos(f) : e.reg \in Nat /\ e.reg <= minted
         /\ \A f \in Fibers : phase[f] \in {"fresh", "disposed"} => Undos(f) = {}
         /\ \A f \in Fibers : Undos(f) # {} => phase[f] \in {"loading", "active", "unloading"}
         /\ minted \in Nat
<1>1. HostTypeOK /\ RegsMinted /\ OnlyUpHolds  BY DEF HostBase
<1>2. \A f \in Fibers : \A e \in Undos(f) : e.reg \in Nat /\ e.reg <= minted
  BY <1>1, HeldAreEffects, EffectFields DEF RegsMinted
<1>3. \A f \in Fibers : phase[f] \in {"fresh", "disposed"} => Undos(f) = {}
  BY <1>1 DEF OnlyUpHolds, Undos
<1>4. \A f \in Fibers : phase[f] \in {"fresh", "loading", "active", "unloading", "disposed"}
  BY <1>1 DEF HostTypeOK
<1>5. minted \in Nat  BY <1>1, PluginHostAssumption DEF HostTypeOK
<1> QED  BY <1>2, <1>3, <1>4, <1>5

(* The plugin on top is the one that registered last. *)
LEMMA TopIsLatest ==
  ASSUME HostBase, StackKept, NEW f \in Fibers, f \in Live, Quiet, OnTop(f)
  PROVE  /\ Latest(f)
         /\ \A g \in Fibers \ {f} : phase[g] \notin {"loading", "unloading"}
         /\ \A p, q \in DOMAIN plugins : p < q /\ plugins[p] = f => Undos(plugins[q]) = {}
<1>1. HostTypeOK /\ plugins \in Seq(Fibers) /\ \A q \in DOMAIN plugins : plugins[q] \in Fibers
  BY DEF HostBase, HostTypeOK
<1>2. CASE phase[f] = "loading"
  <2>1. Latest(f)  BY <1>2 DEF StackKept, BusyIsLatest
  <2>2. \A g \in Fibers \ {f} : phase[g] \notin {"loading", "unloading"}
    BY <1>2 DEF StackKept, OneBusy, Quiet
  <2>3. \A p \in DOMAIN plugins : plugins[p] # f  BY <1>2 DEF StackKept, RowsFit
  <2> QED  BY <2>1, <2>2, <2>3
<1>3. CASE phase[f] # "loading"
  <2>1. PICK p \in DOMAIN plugins :
          plugins[p] = f /\ \A q \in DOMAIN plugins : p < q => plugins[q] \notin Live
    BY <1>3 DEF OnTop
  <2>2. \A g \in Fibers : phase[g] \notin {"loading", "unloading"}
    BY <1>3 DEF OnTop, Live, Quiet
  <2>3. ASSUME NEW q \in DOMAIN plugins, p < q PROVE Undos(plugins[q]) = {}
    <3>1. plugins[q] \notin Live /\ plugins[q] \in Fibers  BY <1>1, <2>1, <2>3
    <3> QED  BY <2>2, <3>1, UndosFit DEF Live
  <2>4. Latest(f)
    <3> SUFFICES ASSUME NEW g \in Fibers \ {f}, NEW e \in Undos(f), NEW d \in Undos(g)
                 PROVE  d.reg < e.reg
      BY DEF Latest
    <3>1. phase[g] = "active"  BY <2>2, UndosFit
    <3>2. PICK q \in DOMAIN plugins : plugins[q] = g  BY <3>1 DEF StackKept, RowsFit
    <3>3. q < p
      <4>1. p \in Nat /\ q \in Nat  BY <1>1
      <4>2. ~(p < q)  BY <2>3, <3>2
      <4>3. q # p  BY <2>1, <3>2
      <4> QED  BY <4>1, <4>2, <4>3
    <3> QED  BY <2>1, <3>2, <3>3 DEF StackKept, PluginsInOrder
  <2>5. \A n \in DOMAIN plugins : plugins[n] = f => n = p
    BY <2>1 DEF StackKept, PluginsApart
  <2> QED  BY <2>2, <2>3, <2>4, <2>5
<1> QED  BY <1>2, <1>3

(* The undos a fiber holds after the step. *)
After(f) == {effects'[f][i] : i \in DOMAIN effects'[f]}

(* Registering on the plugin on top: its newest is newer than all others.  *)
LEMMA AppendedStack ==
  ASSUME HostBase, StackKept, NEW f \in Fibers, NEW e \in Effect, Appends(f, e),
         f \in Live, Quiet, OnTop(f)
  PROVE  PluginsApart' /\ RowsFit' /\ OneBusy' /\ BusyIsLatest' /\ PluginsInOrder'
<1> USE DEF StackKept
<1>1. HostTypeOK /\ \A q \in DOMAIN plugins : plugins[q] \in Fibers
  BY DEF HostBase, HostTypeOK
<1>2. \A g \in Fibers : Undos(g)' = IF g = f THEN Undos(g) \cup {e} ELSE Undos(g)
  BY <1>1, AppendedUndos
<1>3. phase' = phase /\ plugins' = plugins /\ e.reg = minted + 1  BY DEF Appends
<1>4. PluginsApart' /\ RowsFit' /\ OneBusy'
  BY <1>3 DEF PluginsApart, RowsFit, OneBusy
<1>5. Latest(f)'
  <2> SUFFICES ASSUME NEW g \in Fibers \ {f}, NEW c \in Undos(f)', NEW d \in Undos(g)'
               PROVE  d.reg < c.reg
    BY DEF Latest
  <2>1. d \in Undos(g) /\ d.reg \in Nat /\ d.reg <= minted /\ minted \in Nat
    BY <1>2, UndosFit
  <2>2. CASE c = e  BY <1>3, <2>1, <2>2
  <2>3. CASE c # e  BY <1>2, <2>1, <2>3, TopIsLatest DEF Latest
  <2> QED  BY <2>2, <2>3
<1>6. BusyIsLatest'
  BY <1>3, <1>5, TopIsLatest DEF BusyIsLatest
<1>7. PluginsInOrder'
  <2> SUFFICES ASSUME NEW p \in DOMAIN plugins, NEW q \in DOMAIN plugins, p < q
               PROVE  \A d \in Undos(plugins[p])', c \in Undos(plugins[q])' : d.reg < c.reg
    BY <1>3 DEF PluginsInOrder
  <2> DEFINE g == plugins[p]
             h == plugins[q]
  <2>1. g \in Fibers /\ h \in Fibers  BY <1>1
  <2>2. g # h
    <3>1. p \in Nat /\ q \in Nat  BY <1>1 DEF HostTypeOK
    <3> QED  BY <3>1 DEF PluginsApart
  <2>3. \A d \in Undos(g), c \in Undos(h) : d.reg < c.reg
    BY DEF PluginsInOrder
  <2>4. g = f => Undos(h) = {}  BY TopIsLatest
  <2> HIDE DEF g, h
  <2>5. (Undos(plugins[p]))' = After(g) /\ (Undos(plugins[q]))' = After(h)
    BY <1>3 DEF Undos, After, g, h
  <2>6. \A r \in Fibers : After(r) = IF r = f THEN Undos(r) \cup {e} ELSE Undos(r)
    BY <1>2 DEF Undos, After
  <2>7. \A d \in Undos(g) : g # f => d.reg \in Nat /\ d.reg < e.reg
    BY <1>3, <2>1, UndosFit
  <2>8. \A d \in After(g), c \in After(h) : d.reg < c.reg
    BY <2>1, <2>2, <2>3, <2>4, <2>6, <2>7
  <2> QED  BY <2>5, <2>8
<1> QED  BY <1>4, <1>6, <1>7

(* With fewer undos held, or the same, nothing changes the order. *)
LEMMA FewerUndosStack ==
  ASSUME HostBase, StackKept, UNCHANGED <<phase, plugins>>,
         \A f \in Fibers : Undos(f)' \subseteq Undos(f)
  PROVE  PluginsApart' /\ RowsFit' /\ OneBusy' /\ BusyIsLatest' /\ PluginsInOrder'
<1> USE DEF StackKept
<1>1. \A q \in DOMAIN plugins : plugins[q] \in Fibers  BY DEF HostBase, HostTypeOK
<1>2. PluginsApart' /\ RowsFit' /\ OneBusy'
  BY DEF PluginsApart, RowsFit, OneBusy
<1>3. BusyIsLatest'  BY DEF BusyIsLatest, Latest
<1>4. PluginsInOrder'
  <2> SUFFICES ASSUME NEW p \in DOMAIN plugins, NEW q \in DOMAIN plugins, p < q,
                      NEW d \in Undos(plugins[p])', NEW c \in Undos(plugins[q])'
               PROVE  d.reg < c.reg
    BY DEF PluginsInOrder
  <2>1. d \in Undos(plugins[p]) /\ c \in Undos(plugins[q])  BY <1>1
  <2> QED  BY <2>1 DEF PluginsInOrder
<1> QED  BY <1>2, <1>3, <1>4

LEMMA ProvideStack ==
  ASSUME HostBase, StackKept, StackOnly, ~LateCalls, NEW f \in Fibers, NEW k \in Keys,
         ProvideFor(f, k) \/ ProvideShared(f, k)
  PROVE  StackKept'
<1> DEFINE u == ServiceUndo(k)
<1>1. /\ u \in Effect /\ Appends(f, u)
      /\ services' = [services EXCEPT ![k] = minted + 1]
      /\ Quiet /\ f \in Live /\ OnTop(f)
  BY ProvideMoves
<1>2. u.reg = minted + 1 /\ u.key = k  BY DEF ServiceUndo
<1> HIDE DEF u
<1>3. HostTypeOK  BY DEF HostBase
<1>4. \A g \in Fibers : Undos(g)' = IF g = f THEN Undos(g) \cup {u} ELSE Undos(g)
  BY <1>1, <1>3, AppendedUndos
<1>5. YoungestServes'
  <2> SUFFICES ASSUME NEW g \in Fibers, NEW e \in Undos(g)', e.kind = "service",
                      services'[e.key] # None
               PROVE  e.reg <= services'[e.key]
    BY DEF YoungestServes, None
  <2>1. CASE e = u
    BY <1>1, <1>2, <1>3, <2>1, UndosFit DEF HostTypeOK
  <2>2. CASE e # u
    <3>1. e \in Undos(g)  BY <1>4, <2>2
    <3>2. e.key \in Keys  BY <1>3, <3>1, HeldAreEffects, EffectFields
    <3>3. CASE e.key = k
      <4>1. services'[e.key] = minted + 1  BY <1>1, <1>3, <3>2, <3>3 DEF HostTypeOK
      <4>2. e.reg \in Nat /\ e.reg <= minted /\ minted \in Nat  BY <3>1, UndosFit
      <4> QED  BY <4>1, <4>2
    <3>4. CASE e.key # k
      <4>1. services'[e.key] = services[e.key]  BY <1>1, <1>3, <3>2, <3>4 DEF HostTypeOK
      <4> QED  BY <3>1, <4>1 DEF StackKept, YoungestServes
    <3> QED  BY <3>3, <3>4
  <2> QED  BY <2>1, <2>2
<1> QED  BY <1>1, <1>5, AppendedStack DEF StackKept

LEMMA OnStack ==
  ASSUME HostBase, StackKept, StackOnly, ~LateCalls, NEW f \in Fibers,
         NEW prepend \in BOOLEAN, On(f, prepend)
  PROVE  StackKept'
<1> DEFINE u == ListenerUndo(prepend)
<1>1. /\ u \in Effect /\ Appends(f, u) /\ services' = services
      /\ Quiet /\ f \in Live /\ OnTop(f)
  BY OnMoves
<1>2. u.kind = "listener"  BY DEF ListenerUndo
<1> HIDE DEF u
<1>3. HostTypeOK  BY DEF HostBase
<1>4. \A g \in Fibers : Undos(g)' = IF g = f THEN Undos(g) \cup {u} ELSE Undos(g)
  BY <1>1, <1>3, AppendedUndos
<1>5. YoungestServes'
  BY <1>1, <1>2, <1>4 DEF StackKept, YoungestServes, None
<1> QED  BY <1>1, <1>5, AppendedStack DEF StackKept

(* The map after a step in which keys only lose their services. *)
LEMMA FewerServicesStack ==
  ASSUME StackKept, \A f \in Fibers : Undos(f)' \subseteq Undos(f),
         \A f \in Fibers : \A e \in Undos(f) :
           e.kind = "service" => services'[e.key] \in {services[e.key], None}
  PROVE  YoungestServes'
<1> SUFFICES ASSUME NEW g \in Fibers, NEW e \in Undos(g)', e.kind = "service",
                    services'[e.key] # None
             PROVE  e.reg <= services'[e.key]
  BY DEF YoungestServes, None
<1>1. e \in Undos(g)  OBVIOUS
<1>2. services'[e.key] = services[e.key]  BY <1>1
<1> QED  BY <1>1, <1>2 DEF StackKept, YoungestServes

LEMMA UndoStack ==
  ASSUME HostBase, StackKept, NEW f \in Fibers, NEW i, Drops(f, i),
         UndoEffect(effects[f][i])
  PROVE  StackKept'
<1>1. HostTypeOK /\ EffectsInOrder  BY DEF HostBase
<1> DEFINE u == effects[f][i]
<1>2. u \in Effect /\ u \in Undos(f)  BY <1>1, HeldAreEffects DEF Drops
<1>3. \A g \in Fibers : Undos(g)' \subseteq Undos(g)
  BY <1>1, DroppedUndos
<1>4. UndoEffect(u)  OBVIOUS
<1> HIDE DEF u
<1>5. \A k \in Keys : services'[k] \in {services[k], None}
  <2>1. CASE u.kind = "service"
    BY <1>1, <1>2, <1>4, <2>1, UndoneService, EffectFields DEF HostTypeOK
  <2>2. CASE u.kind = "listener"  BY <1>1, <1>2, <1>4, <2>2, UndoneListener
  <2> QED  BY <1>2, <2>1, <2>2, EffectFields
<1>6. YoungestServes'
  BY <1>1, <1>3, <1>5, FewerServicesStack, HeldAreEffects, EffectFields
<1>7. UNCHANGED <<phase, plugins>>  BY DEF Drops
<1> QED  BY <1>3, <1>6, <1>7, FewerUndosStack DEF StackKept

LEMMA RemoveNowStack ==
  ASSUME HostBase, StackKept, NEW f \in Fibers, NEW k \in Keys, RemoveNow(f, k)
  PROVE  StackKept'
<1>1. /\ services' = [services EXCEPT ![k] = None]
      /\ UNCHANGED <<effects, phase, plugins, minted>>
  BY DEF RemoveNow
<1>2. \A g \in Fibers : Undos(g)' = Undos(g)  BY <1>1, SameListsKeep
<1>3. \A c \in Keys : services'[c] \in {services[c], None}
  BY <1>1 DEF HostBase, HostTypeOK
<1>4. YoungestServes'
  <2>1. HostTypeOK  BY DEF HostBase
  <2> QED  BY <1>2, <1>3, <2>1, FewerServicesStack, HeldAreEffects, EffectFields
<1> QED  BY <1>1, <1>2, <1>4, FewerUndosStack DEF StackKept

(* A fiber's lifecycle leaves undos and services alone. *)
LEMMA LifecycleSame ==
  ASSUME HostBase, StackKept, NEW f \in Fibers, LifecycleStep(f)
  PROVE  /\ YoungestServes'
         /\ \A g \in Fibers : Undos(g)' = Undos(g)
         /\ \A g \in Fibers : Latest(g)' = Latest(g)
         /\ \A g \in Fibers \ {f} : phase'[g] = phase[g]
<1>1. UNCHANGED <<services, effects, minted>>  BY LifecycleMoves
<1>2. \A g \in Fibers : Undos(g)' = Undos(g)  BY <1>1, SameListsKeep
<1>3. YoungestServes'  BY <1>1, <1>2 DEF StackKept, YoungestServes, None
<1>4. \A g \in Fibers : Latest(g)' = Latest(g)  BY <1>2 DEF Latest
<1>5. \A g \in Fibers \ {f} : phase'[g] = phase[g]
  BY DEF LifecycleStep, Mount, ApplyOk, ApplyErr, Unmount, DisposeFiber, EndTearDown,
         BeginTearDown, HostBase, HostTypeOK
<1> QED  BY <1>2, <1>3, <1>4, <1>5

(* Rows that stay keep the order of what their fibers registered. *)
LEMMA SameRowsInOrder ==
  ASSUME HostBase, StackKept, NEW f \in Fibers, LifecycleStep(f), plugins' = plugins
  PROVE  PluginsApart' /\ PluginsInOrder'
<1>1. \A g \in Fibers : Undos(g)' = Undos(g)  BY LifecycleSame
<1>2. effects' = effects  BY LifecycleMoves
<1>3. PluginsApart'  BY DEF StackKept, PluginsApart
<1>4. PluginsInOrder'  BY <1>2 DEF StackKept, PluginsInOrder, Undos
<1> QED  BY <1>3, <1>4

LEMMA MountStack ==
  ASSUME HostBase, StackKept, NEW f \in Fibers, Mount(f)
  PROVE  StackKept'
<1> USE DEF StackKept
<1>1. LifecycleStep(f)  BY DEF LifecycleStep
<1>2. /\ phase[f] = "fresh" /\ plugins' = plugins
      /\ phase' = [phase EXCEPT ![f] = "loading"]
      /\ \A g \in Fibers : phase[g] \notin {"loading", "unloading"}
  BY DEF Mount, Quiet
<1>3. phase'[f] = "loading" /\ \A g \in Fibers \ {f} : phase'[g] = phase[g]
  BY <1>2 DEF HostBase, HostTypeOK
<1>4. RowsFit'  BY <1>2, <1>3 DEF RowsFit
<1>5. OneBusy'  BY <1>2, <1>3 DEF OneBusy
<1>6. Latest(f)  BY <1>2, UndosFit DEF Latest
<1>7. BusyIsLatest'  BY <1>1, <1>2, <1>3, <1>6, LifecycleSame DEF BusyIsLatest
<1> QED  BY <1>1, <1>2, <1>4, <1>5, <1>7, LifecycleSame, SameRowsInOrder

LEMMA ApplyOkStack ==
  ASSUME HostBase, StackKept, NEW f \in Fibers, ApplyOk(f)
  PROVE  StackKept'
<1> USE DEF StackKept
<1>1. LifecycleStep(f)  BY DEF LifecycleStep
<1>2. phase[f] = "loading" /\ plugins' = Append(plugins, f) /\ plugins \in Seq(Fibers)
  BY DEF ApplyOk, HostBase, HostTypeOK
<1>3. phase'[f] = "active" /\ \A g \in Fibers \ {f} : phase'[g] = phase[g]
  BY DEF ApplyOk, HostBase, HostTypeOK
<1>4. /\ Len(plugins) \in Nat
      /\ DOMAIN plugins' = 1..(Len(plugins) + 1) /\ DOMAIN plugins = 1..Len(plugins)
      /\ \A p \in 1..Len(plugins) : plugins'[p] = plugins[p]
      /\ plugins'[Len(plugins) + 1] = f
  BY <1>2, SeqAppended
<1> DEFINE n == Len(plugins)
<1>5. n \in Nat /\ DOMAIN plugins' = 1..(n + 1) /\ DOMAIN plugins = 1..n
      /\ (\A p \in 1..n : plugins'[p] = plugins[p]) /\ plugins'[n + 1] = f
  BY <1>4
<1> HIDE DEF n
<1>6. \A p \in DOMAIN plugins : plugins[p] # f /\ plugins[p] \in Fibers
  BY <1>2 DEF RowsFit
<1>7. PluginsApart'
  <2> SUFFICES ASSUME NEW p \in DOMAIN plugins', NEW q \in DOMAIN plugins',
                      plugins'[p] = plugins'[q]
               PROVE  p = q
    BY DEF PluginsApart
  <2>1. CASE p = n + 1 \/ q = n + 1  BY <1>5, <1>6, <2>1
  <2>2. CASE p # n + 1 /\ q # n + 1  BY <1>5, <2>2 DEF PluginsApart
  <2> QED  BY <2>1, <2>2
<1>8. RowsFit'
  <2> SUFFICES ASSUME NEW g \in Fibers
               PROVE  /\ phase'[g] = "active" => \E p \in DOMAIN plugins' : plugins'[p] = g
                      /\ phase'[g] \in {"fresh", "loading"} =>
                           \A p \in DOMAIN plugins' : plugins'[p] # g
    BY DEF RowsFit
  <2>1. CASE g = f
    <3>1. n + 1 \in DOMAIN plugins'  BY <1>5
    <3> QED  BY <1>3, <1>5, <2>1, <3>1
  <2>2. CASE g # f
    <3>1. phase'[g] = phase[g]  BY <1>3, <2>2
    <3>2. \A p \in DOMAIN plugins' : p \in DOMAIN plugins \/ p = n + 1  BY <1>5
    <3>3. \A p \in DOMAIN plugins : p \in DOMAIN plugins'  BY <1>5
    <3> QED  BY <1>5, <2>2, <3>1, <3>2, <3>3 DEF RowsFit
  <2> QED  BY <2>1, <2>2
<1>9. OneBusy'  BY <1>3 DEF OneBusy
<1>10. BusyIsLatest'  BY <1>1, <1>3, LifecycleSame DEF BusyIsLatest
<1>11. PluginsInOrder'
  <2> SUFFICES ASSUME NEW p \in DOMAIN plugins', NEW q \in DOMAIN plugins', p < q
               PROVE  \A d \in Undos(plugins[p])', c \in Undos(plugins[q])' : d.reg < c.reg
    BY DEF PluginsInOrder
  <2>1. effects' = effects  BY <1>1, LifecycleMoves
  <2>2. /\ Undos(plugins[p])' = Undos(plugins'[p])
        /\ Undos(plugins[q])' = Undos(plugins'[q])
    BY <2>1 DEF Undos
  <2>3. CASE q = n + 1
    <3>1. p \in DOMAIN plugins /\ plugins'[p] = plugins[p] /\ plugins'[q] = f
      BY <1>5, <2>3
    <3>2. Latest(f)  BY <1>2 DEF BusyIsLatest
    <3>3. plugins[p] \in Fibers \ {f}  BY <1>6, <3>1
    <3> QED  BY <2>2, <3>1, <3>2, <3>3 DEF Latest
  <2>4. CASE q # n + 1
    <3>1. /\ p \in DOMAIN plugins /\ plugins'[p] = plugins[p]
          /\ q \in DOMAIN plugins /\ plugins'[q] = plugins[q]
      BY <1>5, <2>4
    <3> QED  BY <2>2, <3>1 DEF PluginsInOrder
  <2> QED  BY <2>3, <2>4
<1> QED  BY <1>1, <1>7, <1>8, <1>9, <1>10, <1>11, LifecycleSame

LEMMA ApplyErrStack ==
  ASSUME HostBase, StackKept, NEW f \in Fibers, ApplyErr(f)
  PROVE  StackKept'
<1> USE DEF StackKept
<1>1. LifecycleStep(f)  BY DEF LifecycleStep
<1>2. /\ phase[f] = "loading" /\ plugins' = plugins /\ phase'[f] = "unloading"
      /\ \A g \in Fibers \ {f} : phase'[g] = phase[g]
  BY DEF ApplyErr, BeginTearDown, HostBase, HostTypeOK
<1>3. RowsFit'  BY <1>2 DEF RowsFit
<1>4. OneBusy'  BY <1>2 DEF OneBusy
<1>5. BusyIsLatest'  BY <1>1, <1>2, LifecycleSame DEF BusyIsLatest
<1> QED  BY <1>1, <1>2, <1>3, <1>4, <1>5, LifecycleSame, SameRowsInOrder

LEMMA EndTearDownStack ==
  ASSUME HostBase, StackKept, NEW f \in Fibers, EndTearDown(f)
  PROVE  StackKept'
<1> USE DEF StackKept
<1>1. LifecycleStep(f)  BY DEF LifecycleStep
<1>2. /\ phase[f] = "unloading" /\ plugins' = plugins /\ phase'[f] = "disposed"
      /\ \A g \in Fibers \ {f} : phase'[g] = phase[g]
  BY DEF EndTearDown, HostBase, HostTypeOK
<1>3. RowsFit'  BY <1>2 DEF RowsFit
<1>4. OneBusy'  BY <1>2 DEF OneBusy
<1>5. BusyIsLatest'  BY <1>1, <1>2, LifecycleSame DEF BusyIsLatest
<1> QED  BY <1>1, <1>2, <1>3, <1>4, <1>5, LifecycleSame, SameRowsInOrder

(* What a plugin on top needs to be torn down. *)
LEMMA UnloadingIsLatest ==
  ASSUME HostBase, StackKept, StackOnly, NEW f \in Fibers, MayUnwind(f),
         LifecycleStep(f), BeginTearDown(f)
  PROVE  /\ phase'[f] = "unloading" /\ \A g \in Fibers \ {f} : phase'[g] = phase[g]
         /\ OneBusy' /\ BusyIsLatest'
<1>1. phase'[f] = "unloading" /\ \A g \in Fibers \ {f} : phase'[g] = phase[g]
  BY DEF BeginTearDown, HostBase, HostTypeOK
<1>2. Latest(f) /\ \A g \in Fibers \ {f} : phase[g] \notin {"loading", "unloading"}
  BY TopIsLatest DEF MayUnwind
<1>3. OneBusy'  BY <1>1, <1>2 DEF OneBusy
<1>4. BusyIsLatest'  BY <1>1, <1>2, LifecycleSame DEF BusyIsLatest
<1> QED  BY <1>1, <1>3, <1>4

LEMMA DisposeFiberStack ==
  ASSUME HostBase, StackKept, StackOnly, NEW f \in Fibers, DisposeFiber(f)
  PROVE  StackKept'
<1> USE DEF StackKept
<1>1. /\ LifecycleStep(f) /\ MayUnwind(f) /\ BeginTearDown(f)
      /\ phase[f] = "active" /\ plugins' = plugins
  BY DEF LifecycleStep, DisposeFiber
<1>2. /\ phase'[f] = "unloading" /\ \A g \in Fibers \ {f} : phase'[g] = phase[g]
      /\ OneBusy' /\ BusyIsLatest'
  BY <1>1, UnloadingIsLatest
<1>3. RowsFit'  BY <1>1, <1>2 DEF RowsFit
<1> QED  BY <1>1, <1>2, <1>3, LifecycleSame, SameRowsInOrder

LEMMA UnmountStack ==
  ASSUME HostBase, StackKept, StackOnly, NEW f \in Fibers, Unmount(f)
  PROVE  StackKept'
<1> USE DEF StackKept
<1>1. LifecycleStep(f)  BY DEF LifecycleStep
<1>2. PICK n \in DOMAIN plugins : plugins[n] = f /\ plugins' = RemoveAt(plugins, n)
  BY DEF Unmount
<1>3. plugins \in Seq(Fibers)  BY DEF HostBase, HostTypeOK
<1>4. /\ \A p \in DOMAIN plugins' : /\ Skip(n, p) \in DOMAIN plugins /\ Skip(n, p) # n
                                    /\ plugins'[p] = plugins[Skip(n, p)]
      /\ \A p, q \in DOMAIN plugins' : p < q <=> Skip(n, p) < Skip(n, q)
      /\ \A p, q \in DOMAIN plugins' : Skip(n, p) = Skip(n, q) => p = q
      /\ \A m \in DOMAIN plugins : m # n => \E p \in DOMAIN plugins' : Skip(n, p) = m
  BY <1>2, <1>3, SeqSkips
<1>5. /\ phase'[f] \in {"unloading", "disposed"}
      /\ \A g \in Fibers \ {f} : phase'[g] = phase[g]
      /\ OneBusy' /\ BusyIsLatest'
  <2>1. CASE phase[f] = "active" /\ MayUnwind(f) /\ BeginTearDown(f)
    BY <1>1, <2>1, UnloadingIsLatest
  <2>2. CASE phase[f] = "disposed" /\ UNCHANGED phase
    BY <1>1, <2>2, LifecycleSame DEF OneBusy, BusyIsLatest
  <2> QED  BY <2>1, <2>2 DEF Unmount
<1>6. PluginsApart'
  <2> SUFFICES ASSUME NEW p \in DOMAIN plugins', NEW q \in DOMAIN plugins',
                      plugins'[p] = plugins'[q]
               PROVE  p = q
    BY DEF PluginsApart
  <2>1. Skip(n, p) = Skip(n, q)  BY <1>4 DEF PluginsApart
  <2> QED  BY <1>4, <2>1
<1>7. RowsFit'
  <2> SUFFICES ASSUME NEW g \in Fibers
               PROVE  /\ phase'[g] = "active" => \E p \in DOMAIN plugins' : plugins'[p] = g
                      /\ phase'[g] \in {"fresh", "loading"} =>
                           \A p \in DOMAIN plugins' : plugins'[p] # g
    BY DEF RowsFit
  <2>1. CASE g = f  BY <1>5, <2>1
  <2>2. CASE g # f
    <3>1. phase'[g] = phase[g]  BY <1>5, <2>2
    <3>2. ASSUME phase[g] = "active" PROVE \E p \in DOMAIN plugins' : plugins'[p] = g
      <4>1. PICK m \in DOMAIN plugins : plugins[m] = g  BY <3>2 DEF RowsFit
      <4>2. m # n  BY <1>2, <2>2, <4>1
      <4>3. PICK p \in DOMAIN plugins' : Skip(n, p) = m  BY <1>4, <4>2
      <4> QED  BY <1>4, <4>1, <4>3
    <3>3. ASSUME phase[g] \in {"fresh", "loading"}
          PROVE  \A p \in DOMAIN plugins' : plugins'[p] # g
      BY <1>4, <3>3 DEF RowsFit
    <3> QED  BY <3>1, <3>2, <3>3
  <2> QED  BY <2>1, <2>2
<1>8. PluginsInOrder'
  <2> SUFFICES ASSUME NEW p \in DOMAIN plugins', NEW q \in DOMAIN plugins', p < q
               PROVE  \A d \in Undos(plugins[p])', c \in Undos(plugins[q])' : d.reg < c.reg
    BY DEF PluginsInOrder
  <2>1. effects' = effects  BY <1>1, LifecycleMoves
  <2>2. /\ Undos(plugins[p])' = Undos(plugins'[p])
        /\ Undos(plugins[q])' = Undos(plugins'[q])
    BY <2>1 DEF Undos
  <2>3. /\ plugins'[p] = plugins[Skip(n, p)] /\ plugins'[q] = plugins[Skip(n, q)]
        /\ Skip(n, p) \in DOMAIN plugins /\ Skip(n, q) \in DOMAIN plugins
        /\ Skip(n, p) < Skip(n, q)
    BY <1>4
  <2> QED  BY <2>2, <2>3 DEF PluginsInOrder
<1> QED  BY <1>1, <1>5, <1>6, <1>7, <1>8, LifecycleSame

LEMMA StackInit == HostInit => StackKept
<1> SUFFICES ASSUME HostInit PROVE StackKept  OBVIOUS
<1>1. \A f \in Fibers : Undos(f) = {} /\ phase[f] = "fresh"
  BY DEF HostInit, Undos
<1>2. DOMAIN plugins = {}  BY DEF HostInit
<1> QED  BY <1>1, <1>2 DEF StackKept, PluginsApart, RowsFit, OneBusy, BusyIsLatest,
                           PluginsInOrder, YoungestServes

LEMMA StackStep ==
  ASSUME HostBase, StackKept, StackOnly, ~LateCalls, [HostNext]_hostVars
  PROVE  StackKept'
<1>1. ASSUME NEW f \in Fibers, LifecycleStep(f) PROVE StackKept'
  BY <1>1, MountStack, ApplyOkStack, ApplyErrStack, UnmountStack, DisposeFiberStack,
     EndTearDownStack DEF LifecycleStep
<1>2. ASSUME NEW f \in Fibers, RunCleanup(f) PROVE StackKept'
  BY <1>2, RunCleanupMoves, UndoStack
<1>3. ASSUME NEW f \in Fibers, NEW i \in 1..MaxRegs, DisposeOne(f, i) PROVE StackKept'
  BY <1>3, DisposeOneMoves, UndoStack
<1>4. CASE UNCHANGED hostVars
  BY <1>4 DEF hostVars, StackKept, PluginsApart, RowsFit, OneBusy, BusyIsLatest, Latest,
              PluginsInOrder, YoungestServes, Undos, None
<1>5. CASE HostNext
  BY <1>1, <1>2, <1>3, <1>5, ProvideStack, OnStack, RemoveNowStack
  DEF HostNext, Register, LifecycleStep
<1> QED  BY <1>4, <1>5

----------------------------------------------------------------------------
(* ListKept: the listener at the position an undo remembers is its own,    *)
(* at the time it comes to run.                                            *)

OwnersAreHolders ==
  /\ \A r : r \in Owned("listener") <=>
            \E f \in Fibers : \E e \in Undos(f) : e.kind = "listener" /\ e.reg = r
  /\ Owned("listener") \subseteq 1..minted
  /\ IsFiniteSet(Owned("listener"))
  /\ Cardinality(Owned("listener")) \in Nat

LEMMA OwnedListeners == HostBase => OwnersAreHolders
<1> SUFFICES ASSUME HostBase PROVE OwnersAreHolders  OBVIOUS
<1>1. HostTypeOK  BY DEF HostBase
<1>2. \A r : r \in Owned("listener") <=>
             \E f \in Fibers : \E e \in Undos(f) : e.kind = "listener" /\ e.reg = r
  <2>1. ASSUME NEW r \in Owned("listener")
        PROVE  \E f \in Fibers : \E e \in Undos(f) : e.kind = "listener" /\ e.reg = r
    BY DEF Owned, Undos
  <2>2. ASSUME NEW f \in Fibers, NEW e \in Undos(f), e.kind = "listener"
        PROVE  e.reg \in Owned("listener")
    <3>1. PICK i \in DOMAIN effects[f] : e = effects[f][i]  BY DEF Undos
    <3>2. e.reg \in Regs  BY <1>1, HeldAreEffects, EffectFields
    <3> QED  BY <2>2, <3>1, <3>2 DEF Owned
  <2> QED  BY <2>1, <2>2
<1>3. ASSUME NEW r \in Owned("listener") PROVE r \in 1..minted
  <2>1. r \in Regs  BY DEF Owned
  <2>2. PICK f \in Fibers : \E e \in Undos(f) : e.reg = r  BY <1>2
  <2>3. r <= minted  BY <2>2, UndosFit
  <2>4. r \in Nat \ {0} /\ minted \in Nat  BY <2>1, UndosFit, PluginHostAssumption DEF Regs
  <2> QED  BY <2>3, <2>4
<1>4. IsFiniteSet(1..minted)
  <2>1. 1 \in Int /\ minted \in Int  BY UndosFit
  <2> QED  BY <2>1, FS_Interval
<1>5. IsFiniteSet(Owned("listener"))  BY <1>3, <1>4, FS_Subset
<1> QED  BY <1>2, <1>3, <1>5, FS_CardinalityType DEF OwnersAreHolders

LEMMA OwnedListenersAfter == HostBase' => OwnersAreHolders'
  BY OwnedListeners, PTL

(* A step that takes no listener's undo away and adds none. *)
LEMMA SameListeners ==
  ASSUME ListKept, listeners' = listeners, Owned("listener")' = Owned("listener"),
         \A f \in Fibers : \A e \in Undos(f)' : e.kind = "listener" => e \in Undos(f)
  PROVE  ListKept'
<1> USE DEF ListKept
<1>1. ListenersApart'  BY DEF ListenersApart
<1>2. ListenersAreOwned'  BY DEF ListenersAreOwned, ToSet
<1>3. ListenersCounted'  BY DEF ListenersCounted
<1>4. \A n : UpTo(n)' = UpTo(n)  BY DEF UpTo
<1>5. AtItsPlace'
  <2> SUFFICES ASSUME NEW f \in Fibers, NEW e \in Undos(f)', e.kind = "listener",
                      NEW p \in DOMAIN listeners, listeners[p] = e.reg
               PROVE  \/ /\ e.at = 1
                         /\ \A q \in DOMAIN listeners : q < p => e.reg < listeners[q]
                      \/ /\ e.at = Cardinality(UpTo(e.reg)')
                         /\ \A q \in DOMAIN listeners : p < q => e.reg < listeners[q]
    BY DEF AtItsPlace
  <2>1. e \in Undos(f)  OBVIOUS
  <2> QED  BY <1>4, <2>1 DEF AtItsPlace
<1> QED  BY <1>1, <1>2, <1>3, <1>5

(* The listeners' owners are those of the undos the step leaves. *)
LEMMA SameOwners ==
  ASSUME HostBase, HostBase',
         \A f \in Fibers : \A e : e.kind = "listener" => (e \in Undos(f)' <=> e \in Undos(f))
  PROVE  Owned("listener")' = Owned("listener")
<1>1. \A r : r \in Owned("listener")' <=>
             \E f \in Fibers : \E e \in Undos(f)' : e.kind = "listener" /\ e.reg = r
  BY OwnedListenersAfter DEF OwnersAreHolders
<1>2. \A r : r \in Owned("listener") <=>
             \E f \in Fibers : \E e \in Undos(f) : e.kind = "listener" /\ e.reg = r
  BY OwnedListeners DEF OwnersAreHolders
<1>3. \A r : r \in Owned("listener")' <=> r \in Owned("listener")  BY <1>1, <1>2
<1> QED  BY <1>3

LEMMA PrependedListener ==
  ASSUME HostBase, HostBase', ListKept, NEW f \in Fibers, ListenerUndo(TRUE) \in Effect,
         Appends(f, ListenerUndo(TRUE)), minted + 1 \in Regs,
         listeners' = <<minted + 1>> \o listeners
  PROVE  ListKept'
<1> DEFINE u == ListenerUndo(TRUE)
           m == minted + 1
           L == Owned("listener")
           n == Len(listeners)
<1> USE DEF ListKept
<1>1. HostTypeOK /\ listeners \in Seq(Regs)  BY DEF HostBase, HostTypeOK
<1>2. u.kind = "listener" /\ u.reg = m /\ u.at = 1 /\ u \in Effect
  BY DEF ListenerUndo
<1>3. \A g \in Fibers : Undos(g)' = IF g = f THEN Undos(g) \cup {u} ELSE Undos(g)
  BY <1>1, AppendedUndos
<1>4. /\ n \in Nat /\ Len(listeners') = n + 1
      /\ DOMAIN listeners' = 1..(n + 1) /\ DOMAIN listeners = 1..n
      /\ listeners'[1] = m
      /\ \A p \in 2..(n + 1) : listeners'[p] = listeners[p - 1]
  BY <1>1, SeqPrepended
<1>5. /\ \A r \in L : r \in 1..minted
      /\ IsFiniteSet(L) /\ Cardinality(L) \in Nat /\ minted \in Nat
  BY OwnedListeners, UndosFit DEF OwnersAreHolders
<1>6. \A p \in DOMAIN listeners : listeners[p] \in L
  BY DEF ListenersAreOwned, ToSet
<1> HIDE DEF u, m, L, n
<1>7. m \notin L /\ \A r \in L : r < m  BY <1>5 DEF m
<1>8. Owned("listener")' = L \cup {m}
  <2>1. \A r : r \in Owned("listener")' <=>
               \E g \in Fibers : \E e \in Undos(g)' : e.kind = "listener" /\ e.reg = r
    BY OwnedListenersAfter DEF OwnersAreHolders
  <2>2. \A r : r \in L <=>
               \E g \in Fibers : \E e \in Undos(g) : e.kind = "listener" /\ e.reg = r
    BY OwnedListeners DEF OwnersAreHolders, L
  <2>3. \A r : r \in Owned("listener")' <=> r \in L \/ r = m
    BY <1>2, <1>3, <2>1, <2>2
  <2> QED  BY <2>3
<1>9. \A p \in DOMAIN listeners' :
        \/ p = 1 /\ listeners'[p] = m
        \/ p - 1 \in DOMAIN listeners /\ listeners'[p] = listeners[p - 1]
  BY <1>4
<1>10. \A p \in DOMAIN listeners : p + 1 \in DOMAIN listeners' /\ listeners'[p + 1] = listeners[p]
  BY <1>4
<1>11. ListenersApart'
  <2> SUFFICES ASSUME NEW p \in DOMAIN listeners', NEW q \in DOMAIN listeners',
                      listeners'[p] = listeners'[q]
               PROVE  p = q
    BY DEF ListenersApart
  <2>1. p \in Nat /\ q \in Nat  BY <1>4
  <2>2. CASE p = 1 \/ q = 1  BY <1>4, <1>6, <1>7, <1>9, <2>1, <2>2
  <2>3. CASE p # 1 /\ q # 1
    <3>1. p - 1 = q - 1  BY <1>9, <2>3 DEF ListenersApart
    <3> QED  BY <2>1, <3>1
  <2> QED  BY <2>2, <2>3
<1>12. ListenersAreOwned'
  <2>1. \A r \in ToSet(listeners') : r \in L \cup {m}  BY <1>6, <1>9 DEF ToSet
  <2>2. ASSUME NEW r \in L PROVE r \in ToSet(listeners')
    <3>1. PICK p \in DOMAIN listeners : listeners[p] = r
      BY DEF ListenersAreOwned, ToSet, L
    <3> QED  BY <1>10, <3>1 DEF ToSet
  <2>3. m \in ToSet(listeners')
    <3>1. 1 \in DOMAIN listeners'  BY <1>4
    <3> QED  BY <1>4, <3>1 DEF ToSet
  <2> QED  BY <1>8, <2>1, <2>2, <2>3 DEF ListenersAreOwned, ToSet
<1>13. ListenersCounted'
  BY <1>4, <1>5, <1>7, <1>8, FS_AddElement DEF ListenersCounted, L, n
<1>14. \A r \in L : UpTo(r)' = UpTo(r)
  BY <1>5, <1>7, <1>8 DEF UpTo, L, m
<1>15. AtItsPlace'
  <2> SUFFICES ASSUME NEW g \in Fibers, NEW e \in Undos(g)', e.kind = "listener",
                      NEW p \in DOMAIN listeners', listeners'[p] = e.reg
               PROVE  \/ /\ e.at = 1
                         /\ \A q \in DOMAIN listeners' : q < p => e.reg < listeners'[q]
                      \/ /\ e.at = Cardinality(UpTo(e.reg)')
                         /\ \A q \in DOMAIN listeners' : p < q => e.reg < listeners'[q]
    BY DEF AtItsPlace
  <2>1. p \in Nat /\ \A q \in DOMAIN listeners' : q \in Nat  BY <1>4
  <2>2. CASE e = u
    <3>1. p = 1  BY <1>2, <1>6, <1>7, <1>9, <2>2
    <3>2. \A q \in DOMAIN listeners' : ~(q < p)  BY <1>4, <3>1
    <3> QED  BY <1>2, <2>2, <3>2
  <2>3. CASE e # u
    <3>1. e \in Undos(g)  BY <1>3, <2>3
    <3>2. e.reg \in L  BY <2>3, <3>1, OwnedListeners DEF OwnersAreHolders, L
    <3>3. /\ p # 1 /\ p - 1 \in DOMAIN listeners /\ listeners[p - 1] = e.reg
      BY <1>4, <1>7, <1>9, <3>2
    <3>4. \/ /\ e.at = 1
             /\ \A q \in DOMAIN listeners : q < p - 1 => e.reg < listeners[q]
          \/ /\ e.at = Cardinality(UpTo(e.reg))
             /\ \A q \in DOMAIN listeners : p - 1 < q => e.reg < listeners[q]
      BY <3>1, <3>3 DEF AtItsPlace
    <3>5. \A q \in DOMAIN listeners' : q # 1 =>
            /\ q - 1 \in DOMAIN listeners /\ listeners'[q] = listeners[q - 1]
            /\ (q < p <=> q - 1 < p - 1) /\ (p < q <=> p - 1 < q - 1)
      BY <1>9, <2>1
    <3>6. 1 \in DOMAIN listeners' => e.reg < listeners'[1]
      BY <1>4, <1>7, <3>2
    <3>7. ~(p < 1)  BY <1>4
    <3>8. UpTo(e.reg)' = UpTo(e.reg)  BY <1>14, <3>2
    <3> QED  BY <3>4, <3>5, <3>6, <3>7, <3>8
  <2> QED  BY <2>2, <2>3
<1> QED  BY <1>11, <1>12, <1>13, <1>15

LEMMA AppendedListener ==
  ASSUME HostBase, HostBase', ListKept, NEW f \in Fibers, ListenerUndo(FALSE) \in Effect,
         Appends(f, ListenerUndo(FALSE)), minted + 1 \in Regs,
         listeners' = Append(listeners, minted + 1)
  PROVE  ListKept'
<1> DEFINE u == ListenerUndo(FALSE)
           m == minted + 1
           L == Owned("listener")
           n == Len(listeners)
<1> USE DEF ListKept
<1>1. HostTypeOK /\ listeners \in Seq(Regs)  BY DEF HostBase, HostTypeOK
<1>2. u.kind = "listener" /\ u.reg = m /\ u.at = n + 1 /\ u \in Effect
  BY DEF ListenerUndo
<1>3. \A g \in Fibers : Undos(g)' = IF g = f THEN Undos(g) \cup {u} ELSE Undos(g)
  BY <1>1, AppendedUndos
<1>4. /\ n \in Nat /\ Len(listeners') = n + 1
      /\ DOMAIN listeners' = 1..(n + 1) /\ DOMAIN listeners = 1..n
      /\ listeners'[n + 1] = m
      /\ \A p \in 1..n : listeners'[p] = listeners[p]
  BY <1>1, SeqAppended
<1>5. /\ \A r \in L : r \in 1..minted
      /\ IsFiniteSet(L) /\ Cardinality(L) \in Nat /\ minted \in Nat
  BY OwnedListeners, UndosFit DEF OwnersAreHolders
<1>6. \A p \in DOMAIN listeners : listeners[p] \in L
  BY DEF ListenersAreOwned, ToSet
<1> HIDE DEF u, m, L, n
<1>7. m \notin L /\ \A r \in L : r < m  BY <1>5 DEF m
<1>8. Owned("listener")' = L \cup {m}
  <2>1. \A r : r \in Owned("listener")' <=>
               \E g \in Fibers : \E e \in Undos(g)' : e.kind = "listener" /\ e.reg = r
    BY OwnedListenersAfter DEF OwnersAreHolders
  <2>2. \A r : r \in L <=>
               \E g \in Fibers : \E e \in Undos(g) : e.kind = "listener" /\ e.reg = r
    BY OwnedListeners DEF OwnersAreHolders, L
  <2>3. \A r : r \in Owned("listener")' <=> r \in L \/ r = m
    BY <1>2, <1>3, <2>1, <2>2
  <2> QED  BY <2>3
<1>9. /\ \A p \in DOMAIN listeners' :
           \/ p = n + 1
           \/ p \in DOMAIN listeners /\ listeners'[p] = listeners[p]
      /\ \A p \in DOMAIN listeners : p \in DOMAIN listeners' /\ p # n + 1
  BY <1>4
<1>10. ListenersApart'
  <2> SUFFICES ASSUME NEW p \in DOMAIN listeners', NEW q \in DOMAIN listeners',
                      listeners'[p] = listeners'[q]
               PROVE  p = q
    BY DEF ListenersApart
  <2>1. CASE p = n + 1 \/ q = n + 1  BY <1>4, <1>6, <1>7, <1>9, <2>1
  <2>2. CASE p # n + 1 /\ q # n + 1  BY <1>9, <2>2 DEF ListenersApart
  <2> QED  BY <2>1, <2>2
<1>11. ListenersAreOwned'
  <2>1. \A r \in ToSet(listeners') : r \in L \cup {m}  BY <1>4, <1>6, <1>9 DEF ToSet
  <2>2. ASSUME NEW r \in L PROVE r \in ToSet(listeners')
    <3>1. PICK p \in DOMAIN listeners : listeners[p] = r
      BY DEF ListenersAreOwned, ToSet, L
    <3> QED  BY <1>9, <3>1 DEF ToSet
  <2>3. m \in ToSet(listeners')
    <3>1. n + 1 \in DOMAIN listeners'  BY <1>4
    <3> QED  BY <1>4, <3>1 DEF ToSet
  <2> QED  BY <1>8, <2>1, <2>2, <2>3 DEF ListenersAreOwned, ToSet
<1>12. ListenersCounted'
  BY <1>4, <1>5, <1>7, <1>8, FS_AddElement DEF ListenersCounted, L, n
<1>13. \A r \in L : UpTo(r)' = UpTo(r)
  BY <1>5, <1>7, <1>8 DEF UpTo, L, m
<1>14. AtItsPlace'
  <2> SUFFICES ASSUME NEW g \in Fibers, NEW e \in Undos(g)', e.kind = "listener",
                      NEW p \in DOMAIN listeners', listeners'[p] = e.reg
               PROVE  \/ /\ e.at = 1
                         /\ \A q \in DOMAIN listeners' : q < p => e.reg < listeners'[q]
                      \/ /\ e.at = Cardinality(UpTo(e.reg)')
                         /\ \A q \in DOMAIN listeners' : p < q => e.reg < listeners'[q]
    BY DEF AtItsPlace
  <2>1. CASE e = u
    <3>1. p = n + 1  BY <1>2, <1>6, <1>7, <1>9, <2>1
    <3>2. \A q \in DOMAIN listeners' : ~(p < q)  BY <1>4, <3>1
    <3>3. UpTo(e.reg)' = Owned("listener")'
      <4>1. e.reg = m /\ m \in Nat  BY <1>2, <1>5, <2>1 DEF m
      <4>2. \A r \in Owned("listener")' : r <= e.reg
        BY <1>5, <1>7, <1>8, <4>1
      <4> QED  BY <4>2 DEF UpTo
    <3>4. e.at = Cardinality(Owned("listener")')
      BY <1>2, <1>4, <1>12, <2>1 DEF ListenersCounted
    <3> QED  BY <3>2, <3>3, <3>4
  <2>2. CASE e # u
    <3>1. e \in Undos(g)  BY <1>3, <2>2
    <3>2. e.reg \in L  BY <2>2, <3>1, OwnedListeners DEF OwnersAreHolders, L
    <3>3. p # n + 1 /\ p \in DOMAIN listeners /\ listeners[p] = e.reg
      BY <1>4, <1>7, <1>9, <3>2
    <3>4. \/ /\ e.at = 1
             /\ \A q \in DOMAIN listeners : q < p => e.reg < listeners[q]
          \/ /\ e.at = Cardinality(UpTo(e.reg))
             /\ \A q \in DOMAIN listeners : p < q => e.reg < listeners[q]
      BY <3>1, <3>3 DEF AtItsPlace
    <3>5. ~(n + 1 < p) /\ e.reg < listeners'[n + 1]
      BY <1>4, <1>7, <3>2
    <3>6. UpTo(e.reg)' = UpTo(e.reg)  BY <1>13, <3>2
    <3> QED  BY <1>9, <3>4, <3>5, <3>6
  <2> QED  BY <2>1, <2>2
<1> QED  BY <1>10, <1>11, <1>12, <1>14

(* The undo that runs next, of the plugin on top or being torn down, is    *)
(* the youngest of all.                                                    *)
LEMMA LastIsYoungest ==
  ASSUME HostBase, NEW f \in Fibers, Latest(f), effects[f] # <<>>
  PROVE  \A g \in Fibers : \A d \in Undos(g) :
           d.reg \in Nat /\ effects[f][Len(effects[f])].reg \in Nat
             /\ d.reg <= effects[f][Len(effects[f])].reg
<1> DEFINE s == effects[f]
           k == Len(s)
<1>1. HostTypeOK /\ EffectsInOrder  BY DEF HostBase
<1>2. s \in Seq(Effect)  BY <1>1 DEF HostTypeOK
<1>3. k \in DOMAIN s /\ k \in Nat /\ DOMAIN s = 1..k  BY <1>2
<1>4. s[k] \in Undos(f) /\ s[k].reg \in Nat  BY <1>1, <1>3, HeldAreEffects, EffectFields
<1> HIDE DEF k
<1>5. \A i \in DOMAIN s : s[i].reg <= s[k].reg
  <2> SUFFICES ASSUME NEW i \in DOMAIN s PROVE s[i].reg <= s[k].reg  OBVIOUS
  <2>1. CASE i = k  BY <1>4, <2>1
  <2>2. CASE i # k
    <3>1. i < k  BY <1>3, <2>2
    <3>2. s[i].reg < s[k].reg  BY <1>1, <1>3, <3>1 DEF EffectsInOrder
    <3>3. s[i].reg \in Nat  BY <1>1, HeldAreEffects, EffectFields
    <3> QED  BY <1>4, <3>2, <3>3
  <2> QED  BY <2>1, <2>2
<1>6. ASSUME NEW g \in Fibers, NEW d \in Undos(g)
      PROVE  d.reg \in Nat /\ d.reg <= s[k].reg
  <2>1. d.reg \in Nat  BY UndosFit
  <2>2. CASE g = f
    <3>1. PICK i \in DOMAIN s : d = s[i]  BY <2>2 DEF Undos
    <3> QED  BY <1>5, <2>1, <3>1
  <2>3. CASE g # f
    <3>1. d.reg < s[k].reg  BY <1>4, <2>3 DEF Latest
    <3> QED  BY <1>4, <2>1, <3>1
  <2> QED  BY <2>2, <2>3
<1> QED  BY <1>4, <1>6 DEF k

(* ... so that the listener it takes is the one it put in. *)
LEMMA YoungestIsAtItsPlace ==
  ASSUME HostBase, ListKept, NEW f \in Fibers, NEW e \in Undos(f), e.kind = "listener",
         \A g \in Fibers : \A d \in Undos(g) : d.reg \in Nat /\ d.reg <= e.reg
  PROVE  e.at \in DOMAIN listeners /\ listeners[e.at] = e.reg
<1> USE DEF ListKept
<1> DEFINE L == Owned("listener")
           n == Len(listeners)
<1>1. listeners \in Seq(Regs) /\ n \in Nat /\ DOMAIN listeners = 1..n
  BY DEF HostBase, HostTypeOK
<1>2. e.reg \in L /\ e.reg \in Nat  BY OwnedListeners DEF OwnersAreHolders
<1>3. \A r \in L : r \in Nat /\ r <= e.reg  BY OwnedListeners DEF OwnersAreHolders
<1>4. \A q \in DOMAIN listeners : listeners[q] \in L
  BY DEF ListenersAreOwned, ToSet
<1>5. PICK p \in DOMAIN listeners : listeners[p] = e.reg
  BY <1>2 DEF ListenersAreOwned, ToSet
<1>6. UpTo(e.reg) = L  BY <1>3 DEF UpTo
<1>7. n = Cardinality(L)  BY DEF ListenersCounted
<1> HIDE DEF L, n
<1>8. \A q \in DOMAIN listeners : ~(e.reg < listeners[q])
  BY <1>2, <1>3, <1>4
<1>9. \/ e.at = 1 /\ \A q \in DOMAIN listeners : ~(q < p)
      \/ e.at = n /\ \A q \in DOMAIN listeners : ~(p < q)
  BY <1>5, <1>6, <1>7, <1>8 DEF AtItsPlace
<1>10. 1 \in DOMAIN listeners /\ n \in DOMAIN listeners  BY <1>1, <1>5
<1>11. p \in Nat /\ n \in Nat /\ 1 <= p /\ p <= n  BY <1>1, <1>5
<1>12. e.at = p
  <2>1. CASE e.at = 1 /\ \A q \in DOMAIN listeners : ~(q < p)
    <3>1. ~(1 < p)  BY <1>10, <2>1
    <3> QED  BY <1>11, <2>1, <3>1
  <2>2. CASE e.at = n /\ \A q \in DOMAIN listeners : ~(p < q)
    <3>1. ~(p < n)  BY <1>10, <2>2
    <3> QED  BY <1>11, <2>2, <3>1
  <2> QED  BY <1>9, <2>1, <2>2
<1> QED  BY <1>5, <1>12

LEMMA UndoneList ==
  ASSUME HostBase, HostBase', ListKept, NEW f \in Fibers, Latest(f),
         Drops(f, Len(effects[f])), UndoEffect(effects[f][Len(effects[f])])
  PROVE  ListKept'
<1> USE DEF ListKept
<1> DEFINE k == Len(effects[f])
           u == effects[f][k]
           L == Owned("listener")
<1>1. HostTypeOK /\ EffectsInOrder /\ RegsApart /\ listeners \in Seq(Regs)
  BY DEF HostBase, HostTypeOK
<1>2. u \in Effect /\ u \in Undos(f) /\ UndoEffect(u)
  BY <1>1, HeldAreEffects DEF Drops
<1>3. \A g \in Fibers : Undos(g)' = IF g = f THEN Undos(g) \ {u} ELSE Undos(g)
  BY <1>1, DroppedUndos
<1>4. effects[f] # <<>>
  <2>1. effects[f] \in Seq(Effect) /\ k \in DOMAIN effects[f]  BY <1>1 DEF HostTypeOK, Drops
  <2> QED  BY <2>1
<1>5. \A g \in Fibers : \A d \in Undos(g) : d.reg \in Nat /\ d.reg <= u.reg
  BY <1>4, LastIsYoungest
<1>6. CASE u.kind = "service"
  <2>1. listeners' = listeners  BY <1>1, <1>2, <1>6, UndoneService
  <2>2. \A g \in Fibers : \A e : e.kind = "listener" => (e \in Undos(g)' <=> e \in Undos(g))
    BY <1>3, <1>6
  <2>3. Owned("listener")' = Owned("listener")  BY <2>2, SameOwners
  <2> QED  BY <2>1, <2>2, <2>3, SameListeners
<1>7. CASE u.kind = "listener"
  <2> HIDE DEF u
  <2> DEFINE n == u.at
             m == u.reg
  <2>1. n \in DOMAIN listeners /\ listeners[n] = m
    BY <1>2, <1>5, <1>7, YoungestIsAtItsPlace
  <2>2. /\ listeners' = RemoveAt(listeners, n)
        /\ Len(listeners) \in Nat \ {0} /\ Len(listeners') = Len(listeners) - 1
    <3>1. n <= Len(listeners)  BY <1>1, <2>1
    <3>2. listeners' = RemoveAt(listeners, n)  BY <1>1, <1>2, <1>7, <3>1, UndoneListener
    <3> QED  BY <1>1, <2>1, <3>2, SeqRemoved
  <2>3. /\ \A p \in DOMAIN listeners' : /\ Skip(n, p) \in DOMAIN listeners /\ Skip(n, p) # n
                                        /\ listeners'[p] = listeners[Skip(n, p)]
        /\ \A p, q \in DOMAIN listeners' : p < q <=> Skip(n, p) < Skip(n, q)
        /\ \A p, q \in DOMAIN listeners' : Skip(n, p) = Skip(n, q) => p = q
        /\ \A q \in DOMAIN listeners : q # n => \E p \in DOMAIN listeners' : Skip(n, p) = q
    <3> DEFINE t == RemoveAt(listeners, n)
    <3>1. /\ \A p \in DOMAIN t : /\ Skip(n, p) \in DOMAIN listeners /\ Skip(n, p) # n
                                 /\ t[p] = listeners[Skip(n, p)]
          /\ \A p, q \in DOMAIN t : p < q <=> Skip(n, p) < Skip(n, q)
          /\ \A p, q \in DOMAIN t : Skip(n, p) = Skip(n, q) => p = q
          /\ \A q \in DOMAIN listeners : q # n => \E p \in DOMAIN t : Skip(n, p) = q
      <4> HIDE DEF n
      <4>1. n \in DOMAIN listeners  BY <2>1
      <4> QED  BY <1>1, <4>1, SeqSkips
    <3> HIDE DEF t
    <3>2. listeners' = t  BY <2>2 DEF t
    <3> QED  BY <3>1, <3>2
  <2>4. m \in L /\ m \in Nat /\ \A r \in L : r \in Nat /\ r <= m
    BY <1>2, <1>5, <1>7, OwnedListeners DEF OwnersAreHolders
  <2>5. IsFiniteSet(L) /\ Cardinality(L) \in Nat
    BY OwnedListeners DEF OwnersAreHolders
  <2> HIDE DEF n, m, L
  <2>6. Owned("listener")' = L \ {m}
    <3>1. \A r : r \in Owned("listener")' <=>
                 \E g \in Fibers : \E e \in Undos(g)' : e.kind = "listener" /\ e.reg = r
      BY OwnedListenersAfter DEF OwnersAreHolders
    <3>2. \A r : r \in L <=>
                 \E g \in Fibers : \E e \in Undos(g) : e.kind = "listener" /\ e.reg = r
      BY OwnedListeners DEF OwnersAreHolders, L
    <3>3. \A g \in Fibers : \A e \in Undos(g) : e.reg = m => g = f /\ e = u
      BY <1>1, <1>2 DEF RegsApart, m
    <3>4. \A g \in Fibers : \A e : e \in Undos(g)' <=> e \in Undos(g) /\ e.reg # m
      BY <1>3, <3>3 DEF m
    <3>5. \A r : r \in Owned("listener")' <=> r \in L /\ r # m
      BY <3>1, <3>2, <3>4
    <3> QED  BY <3>5
  <2>7. ListenersApart'
    BY <2>3 DEF ListenersApart
  <2>8. ListenersAreOwned'
    <3>1. \A r \in ToSet(listeners') : r \in L \ {m}
      <4> SUFFICES ASSUME NEW p \in DOMAIN listeners' PROVE listeners'[p] \in L \ {m}
        BY DEF ToSet
      <4>1. listeners[Skip(n, p)] \in L  BY <2>3 DEF ListenersAreOwned, ToSet, L
      <4>2. listeners[Skip(n, p)] # m  BY <2>1, <2>3 DEF ListenersApart
      <4> QED  BY <2>3, <4>1, <4>2
    <3>2. ASSUME NEW r \in L \ {m} PROVE r \in ToSet(listeners')
      <4>1. PICK q \in DOMAIN listeners : listeners[q] = r
        BY DEF ListenersAreOwned, ToSet, L
      <4>2. PICK p \in DOMAIN listeners' : Skip(n, p) = q  BY <2>1, <2>3, <4>1
      <4> QED  BY <2>3, <4>1, <4>2 DEF ToSet
    <3> QED  BY <2>6, <3>1, <3>2 DEF ListenersAreOwned, ToSet
  <2>9. ListenersCounted'
    BY <2>2, <2>4, <2>5, <2>6, FS_RemoveElement DEF ListenersCounted, L
  <2>10. \A r \in L \ {m} : UpTo(r)' = UpTo(r)
    BY <2>4, <2>6 DEF UpTo, L
  <2>11. AtItsPlace'
    <3> SUFFICES ASSUME NEW g \in Fibers, NEW e \in Undos(g)', e.kind = "listener",
                        NEW p \in DOMAIN listeners', listeners'[p] = e.reg
                 PROVE  \/ /\ e.at = 1
                           /\ \A q \in DOMAIN listeners' : q < p => e.reg < listeners'[q]
                        \/ /\ e.at = Cardinality(UpTo(e.reg)')
                           /\ \A q \in DOMAIN listeners' : p < q => e.reg < listeners'[q]
      BY DEF AtItsPlace
    <3>1. e \in Undos(g)  BY <1>3
    <3>2. e.reg \in L \ {m}
      BY <2>6, OwnedListenersAfter DEF OwnersAreHolders
    <3>3. UpTo(e.reg)' = UpTo(e.reg)  BY <2>10, <3>2
    <3>4. Skip(n, p) \in DOMAIN listeners /\ listeners[Skip(n, p)] = e.reg  BY <2>3
    <3>5. \/ /\ e.at = 1
             /\ \A q \in DOMAIN listeners : q < Skip(n, p) => e.reg < listeners[q]
          \/ /\ e.at = Cardinality(UpTo(e.reg))
             /\ \A q \in DOMAIN listeners : Skip(n, p) < q => e.reg < listeners[q]
      BY <3>1, <3>4 DEF AtItsPlace
    <3> QED  BY <2>3, <3>3, <3>5
  <2> QED  BY <2>7, <2>8, <2>9, <2>11
<1> QED  BY <1>2, <1>6, <1>7, EffectFields

LEMMA ListInit == HostInit => ListKept
<1> SUFFICES ASSUME HostInit PROVE ListKept  OBVIOUS
<1>1. listeners = <<>> /\ \A f \in Fibers : effects[f] = <<>> /\ Undos(f) = {}
  BY DEF HostInit, Undos
<1>2. Owned("listener") = {}  BY <1>1 DEF Owned
<1>3. ListenersCounted  BY <1>1, <1>2, FS_EmptySet DEF ListenersCounted
<1> QED  BY <1>1, <1>2, <1>3 DEF ListKept, ListenersApart, ListenersAreOwned, ToSet, AtItsPlace

LEMMA ListStep ==
  ASSUME HostBase, HostBase', StackKept, ListKept, StackOnly, ~LateCalls,
         [HostNext]_hostVars
  PROVE  ListKept'
<1>1. HostTypeOK  BY DEF HostBase
<1>2. ASSUME listeners' = listeners, effects' = effects PROVE ListKept'
  <2>1. \A g \in Fibers : Undos(g)' = Undos(g)  BY <1>2 DEF Undos
  <2>2. Owned("listener")' = Owned("listener")  BY <2>1, SameOwners
  <2> QED  BY <1>2, <2>1, <2>2, SameListeners
<1>3. ASSUME NEW f \in Fibers, LifecycleStep(f) PROVE ListKept'
  BY <1>2, <1>3, LifecycleMoves
<1>4. ASSUME NEW f \in Fibers, NEW k \in Keys, RemoveNow(f, k) PROVE ListKept'
  BY <1>2, <1>4 DEF RemoveNow
<1>5. ASSUME NEW f \in Fibers, NEW k \in Keys, ProvideFor(f, k) \/ ProvideShared(f, k)
      PROVE  ListKept'
  <2>1. /\ ServiceUndo(k) \in Effect /\ Appends(f, ServiceUndo(k)) /\ listeners' = listeners
    BY <1>5, ProvideMoves
  <2>2. \A g \in Fibers : Undos(g)' = IF g = f THEN Undos(g) \cup {ServiceUndo(k)} ELSE Undos(g)
    BY <1>1, <2>1, AppendedUndos
  <2>3. ServiceUndo(k).kind = "service"  BY DEF ServiceUndo
  <2>4. \A g \in Fibers : \A e : e.kind = "listener" => (e \in Undos(g)' <=> e \in Undos(g))
    BY <2>2, <2>3
  <2>5. Owned("listener")' = Owned("listener")  BY <2>4, SameOwners
  <2> QED  BY <2>1, <2>4, <2>5, SameListeners
<1>6. ASSUME NEW f \in Fibers, NEW prepend \in BOOLEAN, On(f, prepend) PROVE ListKept'
  <2>1. /\ ListenerUndo(prepend) \in Effect /\ Appends(f, ListenerUndo(prepend))
        /\ minted + 1 \in Regs
        /\ listeners' = IF prepend THEN <<minted + 1>> \o listeners
                                   ELSE Append(listeners, minted + 1)
    BY <1>6, OnMoves
  <2>2. CASE prepend = TRUE  BY <2>1, <2>2, PrependedListener
  <2>3. CASE prepend = FALSE  BY <2>1, <2>3, AppendedListener
  <2> QED  BY <2>2, <2>3
<1>7. ASSUME NEW f \in Fibers, RunCleanup(f) PROVE ListKept'
  <2>1. Latest(f)  BY <1>7 DEF RunCleanup, StackKept, BusyIsLatest
  <2> QED  BY <1>7, <2>1, RunCleanupMoves, UndoneList
<1>8. ASSUME NEW f \in Fibers, NEW i \in 1..MaxRegs, DisposeOne(f, i) PROVE ListKept'
  <2>1. Latest(f)  BY <1>8, TopIsLatest DEF DisposeOne, MayUnwind
  <2> QED  BY <1>8, <2>1, DisposeOneMoves, UndoneList
<1>9. CASE UNCHANGED hostVars  BY <1>2, <1>9 DEF hostVars
<1>10. CASE HostNext
  BY <1>3, <1>4, <1>5, <1>6, <1>7, <1>8, <1>10 DEF HostNext, Register, LifecycleStep
<1> QED  BY <1>9, <1>10

----------------------------------------------------------------------------
(* What a caller may rely on that unwinds in the reverse of the order it   *)
(* built, and registers nothing on a fiber that was torn down.             *)

HostKept == HostBase /\ StackKept /\ ListKept

LEMMA HostKeptAlways == StackOnly /\ ~LateCalls => (HostSpec => []HostKept)
<1> SUFFICES ASSUME StackOnly, ~LateCalls PROVE HostSpec => []HostKept  OBVIOUS
<1>1. HostInit => HostKept  BY HostBaseInit, StackInit, ListInit DEF HostKept
<1>2. HostKept /\ [HostNext]_hostVars => HostKept'
  BY HostBaseStep, StackStep, ListStep DEF HostKept
<1> QED  BY <1>1, <1>2, PTL DEF HostSpec

(* What is installed is exactly what some fiber holds the undo of: every   *)
(* undo takes back what its registration put in (events.rs:190-193).       *)
THEOREM HostRegistrationsAreOwned ==
  StackOnly /\ ~LateCalls => (HostSpec => []RegistrationsAreOwned)
<1> SUFFICES ASSUME StackOnly, ~LateCalls PROVE HostSpec => []RegistrationsAreOwned
  OBVIOUS
<1>1. HostKept /\ ServicesAreOwned => RegistrationsAreOwned
  BY DEF HostKept, HostBase, ListKept, RegistrationsAreOwned
<1> QED  BY <1>1, HostKeptAlways, HostServicesAreOwned, PTL

(* Taking a registration back never takes the service another fiber has    *)
(* put in its place (context.rs:73-75).                                    *)
THEOREM HostUnwindSparesOthers ==
  StackOnly /\ ~LateCalls => (HostSpec => UnwindSparesOthers)
<1> SUFFICES ASSUME StackOnly, ~LateCalls PROVE HostSpec => UnwindSparesOthers
  OBVIOUS
<1> DEFINE Spares(f, k) ==
      /\ Len(effects'[f]) < Len(effects[f])
      /\ services[k] # None
      /\ services'[k] = None
      => \E i \in DOMAIN effects[f] : effects[f][i].reg = services[k]
<1>1. ASSUME HostKept, NEW f \in Fibers, NEW k \in Keys, [HostNext]_hostVars
      PROVE  Spares(f, k)
  <2> SUFFICES ASSUME Len(effects'[f]) < Len(effects[f]), services[k] # None,
                      services'[k] = None
               PROVE  \E i \in DOMAIN effects[f] : effects[f][i].reg = services[k]
    OBVIOUS
  <2>1. HostBase /\ StackKept /\ HostTypeOK  BY <1>1 DEF HostKept, HostBase
  <2>2. \A g \in Fibers : Len(effects[g]) \in Nat  BY <2>1 DEF HostTypeOK
  <2>3. effects'[f] # effects[f]  BY <2>2
  <2>4. ASSUME NEW g \in Fibers, NEW e \in Effect, Appends(g, e) PROVE FALSE
    <3>1. effects[g] \in Seq(Effect)  BY <2>1 DEF HostTypeOK
    <3>2. Len(Append(effects[g], e)) = Len(effects[g]) + 1  BY <3>1, SeqAppended
    <3>3. effects'[f] = IF f = g THEN Append(effects[g], e) ELSE effects[f]
      BY <2>1, <2>4 DEF Appends, HostTypeOK
    <3> QED  BY <2>2, <3>2, <3>3
  <2>5. ASSUME NEW g \in Fibers, Latest(g), Drops(g, Len(effects[g])),
               UndoEffect(effects[g][Len(effects[g])])
        PROVE  \E i \in DOMAIN effects[f] : effects[f][i].reg = services[k]
    <3> DEFINE u == effects[g][Len(effects[g])]
    <3>1. g = f  BY <2>1, <2>3, <2>5 DEF Drops, HostTypeOK
    <3>2. u \in Effect /\ u \in Undos(f)  BY <2>1, <2>5, <3>1, HeldAreEffects DEF Drops
    <3>3. UndoEffect(u)  BY <2>5
    <3> HIDE DEF u
    <3>4. u.kind = "service" /\ u.key = k
      <4>1. u.kind # "listener"  BY <2>1, <3>2, <3>3, UndoneListener DEF None
      <4>2. u.kind = "service"  BY <3>2, <4>1, EffectFields
      <4> QED  BY <2>1, <3>2, <3>3, <4>2, UndoneService DEF HostTypeOK
    <3>5. u.reg <= services[k] /\ u.reg \in Nat
      BY <2>1, <3>2, <3>4, EffectFields DEF StackKept, YoungestServes
    <3>6. PICK h \in Fibers : \E d \in Undos(h) : d.reg = services[k]
      BY <2>1 DEF HostBase, ServicesHaveUndo
    <3>7. PICK d \in Undos(h) : d.reg = services[k]  BY <3>6
    <3>8. h = f
      <4> SUFFICES ASSUME h # f PROVE FALSE  OBVIOUS
      <4>1. d.reg < u.reg  BY <2>5, <3>1, <3>2 DEF Latest
      <4>2. d.reg \in Nat  BY <2>1, UndosFit
      <4> QED  BY <3>5, <3>7, <4>1, <4>2
    <3> QED  BY <3>7, <3>8 DEF Undos
  <2>6. CASE UNCHANGED hostVars  BY <2>3, <2>6 DEF hostVars
  <2>7. ASSUME NEW g \in Fibers, LifecycleStep(g) PROVE FALSE
    BY <2>1, <2>3, <2>7, LifecycleMoves
  <2>8. ASSUME NEW g \in Fibers, NEW c \in Keys, RemoveNow(g, c) PROVE FALSE
    BY <2>3, <2>8 DEF RemoveNow
  <2>9. ASSUME NEW g \in Fibers, NEW c \in Keys, ProvideFor(g, c) \/ ProvideShared(g, c)
        PROVE  FALSE
    BY <2>1, <2>4, <2>9, ProvideMoves
  <2>10. ASSUME NEW g \in Fibers, NEW prepend \in BOOLEAN, On(g, prepend) PROVE FALSE
    BY <2>1, <2>4, <2>10, OnMoves
  <2>11. ASSUME NEW g \in Fibers, RunCleanup(g)
         PROVE  \E i \in DOMAIN effects[f] : effects[f][i].reg = services[k]
    <3>1. Latest(g)  BY <2>1, <2>11 DEF RunCleanup, StackKept, BusyIsLatest
    <3> QED  BY <2>1, <2>5, <2>11, <3>1, RunCleanupMoves
  <2>12. ASSUME NEW g \in Fibers, NEW i \in 1..MaxRegs, DisposeOne(g, i)
         PROVE  \E j \in DOMAIN effects[f] : effects[f][j].reg = services[k]
    <3>1. Latest(g)  BY <2>1, <2>12, TopIsLatest DEF DisposeOne, MayUnwind
    <3> QED  BY <2>1, <2>5, <2>12, <3>1, DisposeOneMoves
  <2>13. CASE HostNext
    BY <1>1, <2>7, <2>8, <2>9, <2>10, <2>11, <2>12, <2>13
    DEF HostNext, Register, LifecycleStep
  <2> QED  BY <1>1, <2>6, <2>13
<1>2. HostKept /\ [HostNext]_hostVars => [\A f \in Fibers, k \in Keys : Spares(f, k)]_hostVars
  BY <1>1
<1> QED  BY <1>2, HostKeptAlways, PTL DEF HostSpec, UnwindSparesOthers
=============================================================================
