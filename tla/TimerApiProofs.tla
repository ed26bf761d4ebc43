---------------------------- MODULE TimerApiProofs ----------------------------
(***************************************************************************)
(* Software that drives the register bank through Timer_api, in the order  *)
(* of TimerApi: no assertion of the code fails, start() and stop() are     *)
(* kept, and each timer of the bank is a countdown.  All this for any      *)
(* number of timers and any counts, as long as the counts fit.             *)
(*                                                                         *)
(* The software never pauses a timer, and its timers are continuous, so a  *)
(* timer is at rest or it runs.  A timer that was stopped in the instant   *)
(* in which it expired still has its trigger_thread to run: that it has    *)
(* run before the timer can be started again follows from the time that    *)
(* the access which stopped it takes.                                      *)
(***************************************************************************)
EXTENDS TimerApi, TimerModuleProofs

\* An access takes time, a count fits into a register when it is doubled, and no
\* sum of times wraps.
CountsFit ==
  /\ AddrClocks \in Nat \ {0} /\ ReadClocks \in Nat /\ WriteClocks \in Nat
  /\ MaxTime + WriteCost < TimeMod
  /\ \A v \in Counts : 2 * v < WordMod /\ MaxTime + WriteCost + 2 * v < TimeMod

Running == {"started", "reloaded"}

\* A timer t whose control-set register holds c, with which software is in phase p;
\* r tells whether its trigger_thread is ready.  The cpu is busy for b from time n.
Runs(t, r, n) ==
  /\ t.trigger_time # 0
  /\ IF r THEN t.event = Never /\ t.trigger_time = n
          ELSE t.event = t.trigger_time /\ t.trigger_time > n

Rests(t, r, b) == t.trigger_time = 0 /\ t.event = Never /\ (r => b # 0)

InUse(t, c, p, r, b, n) ==
  /\ Live(t) /\ ~t.paused
  /\ t.load_delay = 0 => p = "new"
  /\ MaxTime + WriteCost + t.load_delay < TimeMod
  /\ t.start_time <= n + b
  /\ "NORMAL" \notin c
  /\ p \in {"set", "started", "reloaded", "stopped"} => t.continuous
  /\ p \in {"started", "reloaded", "stopped"} => c = {"START"}
  /\ IF p \in Running THEN Runs(t, r, n) ELSE Rests(t, r, b)

Used(i) == InUse(timer[i], reg[i].ctrlset, phase[i], i \in ready, busy, now)

ApiInv ==
  /\ BankOK
  /\ phase \in [Timers -> Phases] /\ busy \in Nat /\ aborted = FALSE
  /\ \A i \in Timers : Used(i)

-----------------------------------------------------------------------------
(* Numbers *)

\* What CountsFit says of the times of an access.
LEMMA CostsAreNat ==
  ASSUME CountsFit
  PROVE  /\ WriteCost \in Nat /\ ReadCost \in Nat /\ Read64Cost \in Nat
         /\ WriteCost >= AddrClocks /\ AddrClocks >= 1 /\ AddrClocks \in Nat
         /\ MaxTime \in Nat /\ TimeMod \in Nat /\ MaxTime + WriteCost < TimeMod
<1>1. MaxTime \in Nat /\ TimeMod \in Nat
  BY ConstantsAreInt, TimeModAssumption DEF Time
<1>2. QED
  BY <1>1 DEF CountsFit, WriteCost, ReadCost, Read64Cost

LEMMA TimerNumbers ==
  ASSUME NEW t \in TimerState
  PROVE  /\ t.load_delay \in Nat /\ t.start_time \in Nat /\ t.trigger_time \in Nat
         /\ t.continuous \in BOOLEAN /\ t.paused \in BOOLEAN
  BY TimeModAssumption DEF TimerState, Time

LEMMA StateNumbers ==
  ASSUME ApiInv, NEW i \in Timers
  PROVE  /\ timer[i] \in TimerState /\ reg[i] \in Registers
         /\ timer \in [Timers -> TimerState] /\ reg \in [Timers -> Registers]
         /\ now \in Nat /\ now <= MaxTime /\ now \in Time /\ busy \in Nat
         /\ phase[i] \in Phases /\ Used(i)
<1>1. now \in 0 .. MaxTime /\ timer \in [Timers -> TimerState] /\ reg \in [Timers -> Registers]
  BY DEF ApiInv, BankOK, TypeOK
<1>2. now \in Time /\ MaxTime \in Int
  BY <1>1, ConstantsAreInt DEF Time
<1>3. QED
  BY <1>1, <1>2 DEF ApiInv

-----------------------------------------------------------------------------
(* What an access to the control word does to a timer in use *)

LEMMA ModeOnly ==
  ASSUME NEW t \in TimerState, NEW w
  PROVE  LET u == WithMode(t, w)
         IN /\ u \in TimerState /\ u.continuous = ("CONTINUOUS" \in w)
            /\ u.load_delay = t.load_delay /\ u.start_time = t.start_time
            /\ u.trigger_time = t.trigger_time /\ u.event = t.event
            /\ u.paused = t.paused /\ u.triggered = t.triggered /\ u.abort = t.abort
<1>1. ("RELOAD" \in w) \in BOOLEAN /\ ("CONTINUOUS" \in w) \in BOOLEAN
  OBVIOUS
<1>2. QED
  BY <1>1 DEF WithMode, TimerState

\* The word that the module reads back tells what the timer does.
LEMMA StatusTells ==
  ASSUME NEW i \in Timers, ~timer[i].paused
  PROVE  /\ "NORMAL" \in GetTimerStatus(i)
         /\ "CONTINUOUS" \in GetTimerStatus(i) <=> timer[i].continuous
         /\ "START" \in GetTimerStatus(i) <=> IsRunning(timer[i], 0, now)
  BY DEF GetTimerStatus

\* A timer at rest whose word has no START changes its mode alone.
LEMMA RestingControl ==
  ASSUME NEW t \in TimerState, NEW w, NEW d, ~t.paused, t.trigger_time = 0,
         "NORMAL" \in w, "START" \notin w
  PROVE  SetTimerStatus(t, w, d) = WithMode(t, w)
<1> DEFINE u == WithMode(t, w)
<1>1. ~u.paused /\ u.trigger_time = 0
  BY ModeOnly
<1>2. ~IsRunning(u, 0, now)
  BY <1>1 DEF IsRunning
<1>3. SetTimerStatus(t, w, d) =
        IF IsRunning(u, 0, now)
          THEN IF "START" \in w THEN u ELSE Stop(u)
          ELSE PauseIf("NORMAL" \notin w,
                 StartIf("START" \in w, ResumeIf(u.paused /\ "NORMAL" \in w, u, d), d), d)
  BY DEF SetTimerStatus, WithMode
<1> HIDE DEF u
<1>4. PauseIf(FALSE, StartIf(FALSE, ResumeIf(FALSE, u, d), d), d) = u
  BY DEF PauseIf, StartIf, ResumeIf
<1>5. ("NORMAL" \notin w) = FALSE /\ ("START" \in w) = FALSE /\ (u.paused /\ "NORMAL" \in w) = FALSE
  BY <1>1
<1>6. SetTimerStatus(t, w, d) = u
  BY <1>2, <1>3, <1>4, <1>5
<1>7. QED
  BY <1>6 DEF u

\* One whose word has START is started.
LEMMA StartingControl ==
  ASSUME NEW t \in TimerState, NEW w, NEW d, ~t.paused, t.trigger_time = 0, Live(t),
         t.load_delay # 0, "NORMAL" \in w, "START" \in w
  PROVE  SetTimerStatus(t, w, d) = StartAt(WithMode(t, w), Plus(now, d))
<1> DEFINE u == WithMode(t, w)
<1>1. ~u.paused /\ u.trigger_time = 0 /\ Live(u) /\ u.load_delay # 0
  BY ModeOnly DEF Live
<1>2. ~IsRunning(u, 0, now)
  BY <1>1 DEF IsRunning
<1>3. SetTimerStatus(t, w, d) =
        IF IsRunning(u, 0, now)
          THEN IF "START" \in w THEN u ELSE Stop(u)
          ELSE PauseIf("NORMAL" \notin w,
                 StartIf("START" \in w, ResumeIf(u.paused /\ "NORMAL" \in w, u, d), d), d)
  BY DEF SetTimerStatus, WithMode
<1> HIDE DEF u
<1>4. StartIf(TRUE, u, d) = StartAt(u, Plus(now, d))
  BY <1>1 DEF StartIf, Start
<1>5. \A x : PauseIf(FALSE, x, d) = x
  BY DEF PauseIf
<1>6. ResumeIf(FALSE, u, d) = u
  BY DEF ResumeIf
<1>7. ("NORMAL" \notin w) = FALSE /\ ("START" \in w) = TRUE /\ (u.paused /\ "NORMAL" \in w) = FALSE
  BY <1>1
<1>8. SetTimerStatus(t, w, d) = StartAt(u, Plus(now, d))
  BY <1>2, <1>3, <1>4, <1>5, <1>6, <1>7
<1>9. QED
  BY <1>8 DEF u

\* A timer that runs goes on, or is stopped.
LEMMA RunningControl ==
  ASSUME NEW t \in TimerState, NEW w, NEW d, ~t.paused, t.trigger_time # 0,
         "CONTINUOUS" \in w
  PROVE  SetTimerStatus(t, w, d) =
           IF "START" \in w THEN WithMode(t, w) ELSE Stop(WithMode(t, w))
<1> DEFINE u == WithMode(t, w)
<1>1. ~u.paused /\ u.trigger_time # 0 /\ u.continuous
  BY ModeOnly
<1>2. IsRunning(u, 0, now)
  BY <1>1 DEF IsRunning
<1>3. QED
  BY <1>2 DEF SetTimerStatus, WithMode

\* The fields after a stop and after a start; sums do not wrap.
LEMMA StopEffect ==
  ASSUME NEW t \in TimerState, NEW w
  PROVE  LET u == Stop(WithMode(t, w))
         IN /\ u.trigger_time = 0 /\ u.event = Never /\ u.paused = FALSE
            /\ u.load_delay = t.load_delay /\ u.start_time = t.start_time
            /\ u.abort = t.abort /\ u.triggered = t.triggered
            /\ u.continuous = ("CONTINUOUS" \in w)
<1> DEFINE u == WithMode(t, w)
<1>1. /\ u \in TimerState /\ u.continuous = ("CONTINUOUS" \in w)
      /\ u.load_delay = t.load_delay /\ u.start_time = t.start_time
      /\ u.triggered = t.triggered /\ u.abort = t.abort
  BY ModeOnly
<1> HIDE DEF u
<1>2. /\ Stop(u).trigger_time = 0 /\ Stop(u).event = Never /\ Stop(u).paused = FALSE
      /\ Stop(u).load_delay = u.load_delay /\ Stop(u).start_time = u.start_time
      /\ Stop(u).abort = u.abort /\ Stop(u).triggered = u.triggered
      /\ Stop(u).continuous = u.continuous
  BY <1>1 DEF Stop, TimerState
<1>3. QED
  BY <1>1, <1>2 DEF u

LEMMA StartAtEffect ==
  ASSUME NEW t \in TimerState, NEW w, NEW s \in Nat, t.event = Never,
         s + t.load_delay < TimeMod
  PROVE  LET u == StartAt(WithMode(t, w), s)
         IN /\ u.trigger_time = s + t.load_delay /\ u.event = s + t.load_delay
            /\ u.start_time = s /\ u.paused = t.paused
            /\ u.load_delay = t.load_delay /\ u.abort = t.abort
            /\ u.triggered = t.triggered /\ u.continuous = ("CONTINUOUS" \in w)
<1> DEFINE u == WithMode(t, w)
<1>1. /\ u \in TimerState /\ u.continuous = ("CONTINUOUS" \in w) /\ u.event = Never
      /\ u.load_delay = t.load_delay /\ u.paused = t.paused
      /\ u.triggered = t.triggered /\ u.abort = t.abort
  BY ModeOnly
<1>2. Plus(s, u.load_delay) = s + t.load_delay
  BY <1>1, TimerNumbers, NoWrap
<1>3. Earlier(u.event, s + t.load_delay) = s + t.load_delay
  BY <1>1 DEF Earlier
<1> HIDE DEF u
<1>4. StartAt(u, s) = [u EXCEPT !.start_time = s, !.trigger_time = s + t.load_delay,
                                !.event = s + t.load_delay]
  BY <1>2, <1>3 DEF StartAt
<1>5. QED
  BY <1>1, <1>4 DEF u, TimerState

-----------------------------------------------------------------------------
(* Software *)

\* An access to one timer leaves the others as they are.
LEMMA OthersStayInUse ==
  ASSUME ApiInv, NEW i \in Timers, NEW j \in Timers, j # i,
         NEW cost \in Nat, NEW from, NEW to, Access(i, cost, from, to),
         timer'[j] = timer[j], reg'[j].ctrlset = reg[j].ctrlset, ready' = ready, now' = now
  PROVE  Used(j)'
<1>1. /\ busy = 0 /\ busy' = cost /\ phase'[j] = phase[j]
      /\ timer[j] \in TimerState /\ now \in Nat /\ Used(j)
  BY StateNumbers DEF Access, ApiInv
<1>2. timer[j].start_time <= now + cost
  BY <1>1, TimerNumbers DEF Used, InUse
<1>3. QED
  BY <1>1, <1>2 DEF Used, InUse, Rests

\* An access to the control word, when it leaves its timer in use.
LEMMA ControlKeepsUse ==
  ASSUME CountsFit, ApiInv, NEW i \in Timers, NEW w \in SUBSET Flags, NEW r \in Registers,
         NEW from, NEW to \in Phases,
         Access(i, WriteCost, from, to), Control(i, w, r, WriteCost),
         InUse(SetTimerStatus(timer[i], w, WriteCost), r.ctrlset, to, i \in ready,
               WriteCost, now)
  PROVE  ApiInv'
<1>1. WriteCost \in Nat /\ WriteCost \in Int
  BY CostsAreNat
<1>2. BankOK'
  BY <1>1, ControlKeepsBank DEF ApiInv
<1> DEFINE u == SetTimerStatus(timer[i], w, WriteCost)
           q == [r EXCEPT !.status = w]
<1>3. /\ timer' = [timer EXCEPT ![i] = u] /\ reg' = [reg EXCEPT ![i] = q]
      /\ now' = now /\ ready' = ready /\ aborted' = aborted
      /\ phase' = [phase EXCEPT ![i] = to] /\ busy' = WriteCost
  BY DEF Control, Access
<1>4. q.ctrlset = r.ctrlset
  BY DEF Registers
<1>5. /\ timer \in [Timers -> TimerState] /\ reg \in [Timers -> Registers]
      /\ phase \in [Timers -> Phases]
  BY StateNumbers DEF ApiInv
<1> HIDE DEF u, q
<1>6. Used(i)'
  <2>1. timer'[i] = u /\ reg'[i] = q /\ phase'[i] = to
    BY <1>3, <1>5
  <2>2. QED
    BY <1>3, <1>4, <2>1 DEF Used, u
<1>7. ASSUME NEW j \in Timers, j # i PROVE Used(j)'
  <2>1. timer'[j] = timer[j] /\ reg'[j] = reg[j]
    BY <1>3, <1>5, <1>7
  <2>2. QED
    BY <1>1, <1>3, <1>7, <2>1, OthersStayInUse
<1>8. QED
  BY <1>1, <1>2, <1>3, <1>5, <1>6, <1>7 DEF ApiInv

LEMMA SetupLoadKeepsUse ==
  ASSUME CountsFit, ApiInv, NEW i \in Timers, SetupLoad(i)
  PROVE  ApiInv'
<1>1. PICK v \in Counts \ {0} : WriteLoadLo(i, v)
  BY DEF SetupLoad
<1>2. PICK to \in {"loaded", "reloaded"} :
        /\ phase[i] \in {"new", "set", "stopped"} => to = "loaded"
        /\ phase[i] \in {"new", "set", "stopped", "started"}
        /\ phase[i] = "started" => to = "reloaded"
        /\ \E from : Access(i, WriteCost, from, to)
  BY DEF SetupLoad, Access
<1>3. PICK from : Access(i, WriteCost, from, to)
  BY <1>2
<1>4. /\ timer[i] \in TimerState /\ reg[i] \in Registers /\ now \in Nat /\ Used(i)
      /\ timer \in [Timers -> TimerState] /\ reg \in [Timers -> Registers]
      /\ phase \in [Timers -> Phases]
  BY StateNumbers DEF ApiInv
<1>5. WriteCost \in Nat /\ MaxTime \in Nat /\ TimeMod \in Nat /\ WriteCost >= 1
  BY CostsAreNat
<1> DEFINE delay == ((Scale(reg[i].status) * v) % WordMod) % TimeMod
<1>6. delay \in Nat /\ delay # 0 /\ MaxTime + WriteCost + delay < TimeMod
  <2>1. /\ v \in Nat /\ v # 0 /\ 2 * v < WordMod /\ MaxTime + WriteCost + 2 * v < TimeMod
        /\ WordMod \in Nat
    BY ConstantsAreInt DEF CountsFit
  <2>2. PICK x \in {v, 2 * v} : Scale(reg[i].status) * v = x
    <3>1. Scale(reg[i].status) = 1 \/ Scale(reg[i].status) = 2
      BY DEF Scale
    <3>2. QED
      BY <2>1, <3>1
  <2>3. x \in Nat /\ x # 0 /\ x < WordMod /\ x < TimeMod /\ MaxTime + WriteCost + x < TimeMod
    BY <1>5, <2>1, <2>2
  <2>4. \A m \in Nat : \A y \in Nat : y < m => y % m = y
    OBVIOUS
  <2>5. delay = x
    BY <1>5, <2>1, <2>2, <2>3, <2>4
  <2>6. QED
    BY <2>3, <2>5
<1> DEFINE u == [timer[i] EXCEPT !.load_delay = delay]
<1>7. /\ timer' = [timer EXCEPT ![i] = u]
      /\ reg' = [reg EXCEPT ![i].load_lo = v, ![i].load_hi = 0]
      /\ now' = now /\ ready' = ready /\ aborted' = aborted
      /\ phase' = [phase EXCEPT ![i] = to] /\ busy = 0 /\ busy' = WriteCost
  BY <1>1, <1>3 DEF WriteLoadLo, Load, Access
<1> HIDE DEF delay
<1>8. /\ u.load_delay = delay /\ u.start_time = timer[i].start_time
      /\ u.trigger_time = timer[i].trigger_time /\ u.event = timer[i].event
      /\ u.paused = timer[i].paused /\ u.abort = timer[i].abort
      /\ u.continuous = timer[i].continuous
  BY <1>4 DEF TimerState
<1>9. \A j \in Timers : reg'[j].ctrlset = reg[j].ctrlset
  BY <1>4, <1>7 DEF Registers
<1> HIDE DEF u
<1>10. Used(i)'
  <2>1. timer'[i] = u /\ phase'[i] = to
    BY <1>4, <1>7
  <2>2. u.start_time <= now + WriteCost
    BY <1>4, <1>5, <1>7, <1>8, TimerNumbers DEF Used, InUse
  <2>3. InUse(u, reg[i].ctrlset, to, i \in ready, WriteCost, now)
    BY <1>2, <1>4, <1>5, <1>6, <1>7, <1>8, <2>2
       DEF Used, InUse, Runs, Rests, Running, Live
  <2>4. QED
    BY <1>7, <1>9, <2>1, <2>3 DEF Used
<1>11. ASSUME NEW j \in Timers, j # i PROVE Used(j)'
  <2>1. timer'[j] = timer[j]
    BY <1>4, <1>7, <1>11
  <2>2. QED
    BY <1>3, <1>5, <1>7, <1>9, <1>11, <2>1, OthersStayInUse
<1>12. BankOK'
  <2>1. Software
    BY <1>1 DEF Software
  <2>2. QED
    BY <2>1, SoftwareKeepsBank DEF ApiInv
<1>13. to \in Phases
  BY DEF Phases
<1>14. QED
  BY <1>4, <1>5, <1>7, <1>10, <1>11, <1>12, <1>13 DEF ApiInv

\* What holds of a timer when software makes an access to it.
LEMMA AtAccess ==
  ASSUME CountsFit, ApiInv, NEW i \in Timers, NEW from, NEW to, Access(i, WriteCost, from, to)
  PROVE  /\ timer[i] \in TimerState /\ reg[i] \in Registers /\ now \in Nat /\ Used(i)
         /\ GetTimerStatus(i) \in SUBSET Flags
         /\ WriteCost \in Nat /\ WriteCost # 0 /\ timer[i].start_time <= now + WriteCost
         /\ phase[i] \in from
         /\ phase[i] \in Running =>
              /\ timer[i].trigger_time # 0 /\ timer[i].continuous
              /\ IsRunning(timer[i], 0, now)
              /\ Runs(timer[i], i \in ready, now)
         /\ phase[i] \notin Running =>
              /\ timer[i].trigger_time = 0 /\ timer[i].event = Never /\ i \notin ready
              /\ ~IsRunning(timer[i], 0, now)
<1>1. /\ timer[i] \in TimerState /\ reg[i] \in Registers /\ now \in Nat /\ Used(i)
      /\ busy = 0 /\ phase[i] \in from
  BY StateNumbers DEF Access
<1>2. GetTimerStatus(i) \in SUBSET Flags
  BY StatusIsWord DEF ApiInv, BankOK
<1>3. WriteCost \in Nat /\ WriteCost # 0 /\ timer[i].start_time <= now + WriteCost
  BY <1>1, CostsAreNat, TimerNumbers DEF Used, InUse
<1>4. ASSUME phase[i] \in Running
      PROVE  /\ timer[i].trigger_time # 0 /\ timer[i].continuous
             /\ IsRunning(timer[i], 0, now)
             /\ Runs(timer[i], i \in ready, now)
  BY <1>1, <1>4 DEF Used, InUse, Runs, Running, IsRunning
<1>5. ASSUME phase[i] \notin Running
      PROVE  /\ timer[i].trigger_time = 0 /\ timer[i].event = Never /\ i \notin ready
             /\ ~IsRunning(timer[i], 0, now)
  BY <1>1, <1>5 DEF Used, InUse, Rests, IsRunning
<1>6. QED
  BY <1>1, <1>2, <1>3, <1>4, <1>5

\* A timer at rest that gets new modes rests on.
LEMMA RestingUse ==
  ASSUME NEW i \in Timers, timer[i] \in TimerState, NEW w, NEW c,
         NEW p \in Phases \ {"new"},
         Live(timer[i]), ~timer[i].paused, timer[i].load_delay # 0,
         timer[i].trigger_time = 0, timer[i].event = Never,
         MaxTime + WriteCost + timer[i].load_delay < TimeMod,
         timer[i].start_time <= now + WriteCost, WriteCost # 0,
         "NORMAL" \notin c, p \notin Running,
         p \in {"set", "stopped"} => "CONTINUOUS" \in w,
         p = "stopped" => c = {"START"}
  PROVE  InUse(WithMode(timer[i], w), c, p, i \in ready, WriteCost, now)
<1> DEFINE u == WithMode(timer[i], w)
<1>1. /\ u.continuous = ("CONTINUOUS" \in w) /\ u.load_delay = timer[i].load_delay
      /\ u.start_time = timer[i].start_time /\ u.trigger_time = 0 /\ u.event = Never
      /\ ~u.paused /\ u.abort = timer[i].abort
  BY ModeOnly
<1> HIDE DEF u
<1>2. Rests(u, i \in ready, WriteCost)
  BY <1>1 DEF Rests
<1>3. Live(u)
  BY <1>1 DEF Live
<1>4. p \notin {"started", "reloaded"}
  BY DEF Running
<1>5. p \in {"set", "started", "reloaded", "stopped"} => u.continuous
  BY <1>1, <1>4
<1>6. InUse(u, c, p, i \in ready, WriteCost, now)
  BY <1>1, <1>2, <1>3, <1>4, <1>5 DEF InUse
<1>7. QED
  BY <1>6 DEF u

\* A timer that runs and is stopped rests from now on.
LEMMA StoppingUse ==
  ASSUME NEW i \in Timers, timer[i] \in TimerState, NEW w, NEW c,
         NEW p \in {"cleared", "stopped"},
         Live(timer[i]), timer[i].load_delay # 0,
         MaxTime + WriteCost + timer[i].load_delay < TimeMod,
         timer[i].start_time <= now + WriteCost, WriteCost # 0,
         "CONTINUOUS" \in w, c = {"START"}
  PROVE  InUse(Stop(WithMode(timer[i], w)), c, p, i \in ready, WriteCost, now)
<1> DEFINE u == Stop(WithMode(timer[i], w))
<1>1. /\ u.continuous = ("CONTINUOUS" \in w) /\ u.load_delay = timer[i].load_delay
      /\ u.start_time = timer[i].start_time /\ u.trigger_time = 0 /\ u.event = Never
      /\ u.paused = FALSE /\ u.abort = timer[i].abort
  BY StopEffect
<1> HIDE DEF u
<1>2. Rests(u, i \in ready, WriteCost) /\ u.continuous
  BY <1>1 DEF Rests
<1>3. Live(u)
  BY <1>1 DEF Live
<1>4. p \notin Running /\ "NORMAL" \notin c
  BY DEF Running
<1>5. InUse(u, c, p, i \in ready, WriteCost, now)
  BY <1>1, <1>2, <1>3, <1>4 DEF InUse
<1>6. QED
  BY <1>5 DEF u

\* A timer that runs and is started again runs on.
LEMMA RunningUse ==
  ASSUME NEW i \in Timers, timer[i] \in TimerState, NEW w,
         Live(timer[i]), ~timer[i].paused, timer[i].load_delay # 0,
         Runs(timer[i], i \in ready, now),
         MaxTime + WriteCost + timer[i].load_delay < TimeMod,
         timer[i].start_time <= now + WriteCost,
         "CONTINUOUS" \in w
  PROVE  InUse(WithMode(timer[i], w), {"START"}, "started", i \in ready, WriteCost, now)
<1> DEFINE u == WithMode(timer[i], w)
<1>1. /\ u.continuous = ("CONTINUOUS" \in w) /\ u.load_delay = timer[i].load_delay
      /\ u.start_time = timer[i].start_time /\ u.trigger_time = timer[i].trigger_time
      /\ u.event = timer[i].event /\ ~u.paused /\ u.abort = timer[i].abort
  BY ModeOnly
<1> HIDE DEF u
<1>2. Runs(u, i \in ready, now) /\ u.continuous
  BY <1>1 DEF Runs
<1>3. Live(u)
  BY <1>1 DEF Live
<1>4. InUse(u, {"START"}, "started", i \in ready, WriteCost, now)
  BY <1>1, <1>2, <1>3 DEF InUse, Running
<1>5. QED
  BY <1>4 DEF u

\* A timer at rest that is started runs.
LEMMA StartedUse ==
  ASSUME NEW i \in Timers, timer[i] \in TimerState, NEW w, i \notin ready,
         now \in Nat, WriteCost \in Nat \ {0},
         Live(timer[i]), ~timer[i].paused, timer[i].load_delay # 0, timer[i].event = Never,
         MaxTime + WriteCost + timer[i].load_delay < TimeMod,
         (now + WriteCost) + timer[i].load_delay < TimeMod, "CONTINUOUS" \in w
  PROVE  InUse(StartAt(WithMode(timer[i], w), now + WriteCost), {"START"}, "started",
               i \in ready, WriteCost, now)
<1> DEFINE s == now + WriteCost
           u == StartAt(WithMode(timer[i], w), s)
<1>1. s \in Nat /\ timer[i].load_delay \in Nat /\ s + timer[i].load_delay < TimeMod
  BY TimerNumbers
<1>2. s + timer[i].load_delay > now /\ s + timer[i].load_delay # 0
  BY <1>1
<1> HIDE DEF s
<1>3. /\ u.trigger_time = s + timer[i].load_delay /\ u.event = s + timer[i].load_delay
      /\ u.start_time = s /\ u.paused = timer[i].paused
      /\ u.load_delay = timer[i].load_delay /\ u.abort = timer[i].abort
      /\ u.continuous = ("CONTINUOUS" \in w)
  BY <1>1, StartAtEffect
<1> HIDE DEF u
<1>4. Runs(u, i \in ready, now) /\ u.continuous
  BY <1>2, <1>3 DEF Runs
<1>5. Live(u)
  BY <1>3 DEF Live
<1>6. u.start_time <= now + WriteCost
  BY <1>1, <1>3 DEF s
<1>7. InUse(u, {"START"}, "started", i \in ready, WriteCost, now)
  BY <1>3, <1>4, <1>5, <1>6 DEF InUse, Running
<1>8. QED
  BY <1>7 DEF u, s

\* What a client may rely on once it has loaded a count.
LEMMA UseOf ==
  ASSUME NEW i \in Timers, Used(i), phase[i] # "new"
  PROVE  /\ Live(timer[i]) /\ ~timer[i].paused /\ timer[i].load_delay # 0
         /\ MaxTime + WriteCost + timer[i].load_delay < TimeMod
         /\ "NORMAL" \notin reg[i].ctrlset
         /\ phase[i] \in {"set", "started", "reloaded", "stopped"} => timer[i].continuous
         /\ phase[i] \in {"started", "reloaded", "stopped"} => reg[i].ctrlset = {"START"}
  BY DEF Used, InUse

LEMMA SetupClearKeepsUse ==
  ASSUME CountsFit, ApiInv, NEW i \in Timers, SetupClear(i)
  PROVE  ApiInv'
<1> DEFINE w == GetTimerStatus(i) \ reg[i].ctrlset
           u == SetTimerStatus(timer[i], w, WriteCost)
<1>1. /\ Access(i, WriteCost, {"loaded", "reloaded"}, "cleared")
      /\ Control(i, w, reg[i], WriteCost)
  BY DEF SetupClear, WriteCtrlClr
<1>2. /\ timer[i] \in TimerState /\ reg[i] \in Registers /\ Used(i)
      /\ w \in SUBSET Flags /\ WriteCost # 0 /\ timer[i].start_time <= now + WriteCost
      /\ phase[i] \in {"loaded", "reloaded"} /\ phase[i] # "new"
  BY <1>1, AtAccess
<1>3. Live(timer[i]) /\ ~timer[i].paused /\ timer[i].load_delay # 0
      /\ MaxTime + WriteCost + timer[i].load_delay < TimeMod
      /\ "NORMAL" \notin reg[i].ctrlset
  BY <1>2, UseOf
<1>4. InUse(u, reg[i].ctrlset, "cleared", i \in ready, WriteCost, now)
  <2>1. CASE phase[i] = "loaded"
    <3>1. /\ timer[i].trigger_time = 0 /\ timer[i].event = Never /\ i \notin ready
          /\ ~IsRunning(timer[i], 0, now)
      BY <1>1, <2>1, AtAccess DEF Running
    <3>2. "NORMAL" \in w /\ "START" \notin w
      BY <1>3, <3>1, StatusTells
    <3> HIDE DEF w
    <3>3. u = WithMode(timer[i], w)
      BY <1>2, <1>3, <3>1, <3>2, RestingControl
    <3>4. QED
      BY <1>2, <1>3, <3>1, <3>3, RestingUse DEF Phases, Running
  <2>2. CASE phase[i] = "reloaded"
    <3>1. timer[i].trigger_time # 0 /\ timer[i].continuous
      BY <1>1, <2>2, AtAccess DEF Running
    <3>2. reg[i].ctrlset = {"START"}
      BY <1>2, <2>2, UseOf
    <3>3. "CONTINUOUS" \in w /\ "START" \notin w
      BY <1>3, <3>1, <3>2, StatusTells
    <3> HIDE DEF w
    <3>4. u = Stop(WithMode(timer[i], w))
      BY <1>2, <1>3, <3>1, <3>3, RunningControl
    <3>5. QED
      BY <1>2, <1>3, <3>2, <3>3, <3>4, StoppingUse
  <2>3. QED
    BY <1>2, <2>1, <2>2
<1> HIDE DEF w
<1>5. QED
  BY <1>1, <1>2, <1>4, ControlKeepsUse DEF Phases

LEMMA SetupSetKeepsUse ==
  ASSUME CountsFit, ApiInv, NEW i \in Timers, SetupSet(i)
  PROVE  ApiInv'
<1> DEFINE v == {"RELOAD", "CONTINUOUS", "IRQ_ENABLE", "SCALE"}
           w == GetTimerStatus(i) \cup v
           r == [reg[i] EXCEPT !.ctrlset = v]
           u == SetTimerStatus(timer[i], w, WriteCost)
<1>1. /\ Access(i, WriteCost, {"cleared"}, "set")
      /\ Control(i, w, r, WriteCost)
  BY DEF SetupSet, WriteCtrlSet
<1>2. /\ timer[i] \in TimerState /\ reg[i] \in Registers /\ Used(i)
      /\ GetTimerStatus(i) \in SUBSET Flags
      /\ WriteCost # 0 /\ timer[i].start_time <= now + WriteCost
      /\ phase[i] = "cleared" /\ phase[i] # "new" /\ phase[i] \notin Running
  BY <1>1, AtAccess DEF Running
<1>3. Live(timer[i]) /\ ~timer[i].paused /\ timer[i].load_delay # 0
      /\ MaxTime + WriteCost + timer[i].load_delay < TimeMod
  BY <1>2, UseOf
<1>4. /\ timer[i].trigger_time = 0 /\ timer[i].event = Never /\ i \notin ready
      /\ ~IsRunning(timer[i], 0, now)
  BY <1>1, <1>2, AtAccess
<1>5. "NORMAL" \in w /\ "START" \notin w /\ "CONTINUOUS" \in w /\ w \in SUBSET Flags
  BY <1>2, <1>3, <1>4, StatusTells DEF Flags
<1>6. r \in Registers /\ r.ctrlset = v /\ "NORMAL" \notin v
  BY <1>2 DEF Registers, Flags
<1> HIDE DEF w, r
<1>7. u = WithMode(timer[i], w)
  BY <1>2, <1>3, <1>4, <1>5, RestingControl
<1> HIDE DEF v
<1>8. InUse(u, r.ctrlset, "set", i \in ready, WriteCost, now)
  BY <1>2, <1>3, <1>4, <1>5, <1>6, <1>7, RestingUse DEF Phases, Running
<1>9. QED
  BY <1>1, <1>5, <1>6, <1>8, ControlKeepsUse DEF Phases

\* start() leaves a timer that runs as it is, and starts one at rest when the
\* access ends.
LEMMA ApiStartResult ==
  ASSUME CountsFit, ApiInv, NEW i \in Timers, ApiStart(i)
  PROVE  \E w \in SUBSET Flags :
           /\ "CONTINUOUS" \in w
           /\ Control(i, w, [reg[i] EXCEPT !.ctrlset = {"START"}], WriteCost)
           /\ phase[i] \in Running =>
                SetTimerStatus(timer[i], w, WriteCost) = WithMode(timer[i], w)
           /\ phase[i] \notin Running =>
                SetTimerStatus(timer[i], w, WriteCost)
                  = StartAt(WithMode(timer[i], w), now + WriteCost)
           /\ (now + WriteCost) + timer[i].load_delay < TimeMod
<1> DEFINE w == GetTimerStatus(i) \cup {"START"}
           u == SetTimerStatus(timer[i], w, WriteCost)
<1>1. /\ Access(i, WriteCost, {"set", "started", "stopped"}, "started")
      /\ Control(i, w, [reg[i] EXCEPT !.ctrlset = {"START"}], WriteCost)
  BY DEF ApiStart, WriteCtrlSet
<1>2. /\ timer[i] \in TimerState /\ Used(i) /\ now \in Nat
      /\ GetTimerStatus(i) \in SUBSET Flags /\ WriteCost \in Nat
      /\ phase[i] \in {"set", "started", "stopped"} /\ phase[i] # "new"
  BY <1>1, AtAccess
<1>3. /\ Live(timer[i]) /\ ~timer[i].paused /\ timer[i].load_delay # 0
      /\ MaxTime + WriteCost + timer[i].load_delay < TimeMod /\ timer[i].continuous
  BY <1>2, UseOf
<1>4. "NORMAL" \in w /\ "START" \in w /\ "CONTINUOUS" \in w /\ w \in SUBSET Flags
  BY <1>2, <1>3, StatusTells DEF Flags
<1>5. /\ now <= MaxTime /\ MaxTime \in Nat /\ timer[i].load_delay \in Nat
      /\ MaxTime + WriteCost < TimeMod
  BY <1>2, StateNumbers, CostsAreNat, TimerNumbers
<1>6. now + WriteCost < TimeMod /\ (now + WriteCost) + timer[i].load_delay < TimeMod
  BY <1>2, <1>3, <1>5, CostsAreNat
<1> HIDE DEF w
<1>7. ASSUME phase[i] \in Running
      PROVE  u = WithMode(timer[i], w)
  <2>1. timer[i].trigger_time # 0
    BY <1>1, <1>7, AtAccess
  <2>2. QED
    BY <1>2, <1>3, <1>4, <2>1, RunningControl
<1>8. ASSUME phase[i] \notin Running
      PROVE  u = StartAt(WithMode(timer[i], w), now + WriteCost)
  <2>1. timer[i].trigger_time = 0
    BY <1>1, <1>8, AtAccess
  <2>2. u = StartAt(WithMode(timer[i], w), Plus(now, WriteCost))
    BY <1>2, <1>3, <1>4, <2>1, StartingControl
  <2>3. Plus(now, WriteCost) = now + WriteCost
    BY <1>2, <1>6, NoWrap
  <2>4. QED
    BY <2>2, <2>3
<1>9. QED
  BY <1>1, <1>4, <1>6, <1>7, <1>8

LEMMA ApiStartKeepsUse ==
  ASSUME CountsFit, ApiInv, NEW i \in Timers, ApiStart(i)
  PROVE  ApiInv'
<1> DEFINE r == [reg[i] EXCEPT !.ctrlset = {"START"}]
<1>1. Access(i, WriteCost, {"set", "started", "stopped"}, "started")
  BY DEF ApiStart
<1>2. PICK w \in SUBSET Flags :
        /\ "CONTINUOUS" \in w
        /\ Control(i, w, r, WriteCost)
        /\ phase[i] \in Running =>
             SetTimerStatus(timer[i], w, WriteCost) = WithMode(timer[i], w)
        /\ phase[i] \notin Running =>
             SetTimerStatus(timer[i], w, WriteCost)
               = StartAt(WithMode(timer[i], w), now + WriteCost)
        /\ (now + WriteCost) + timer[i].load_delay < TimeMod
  BY ApiStartResult
<1>3. /\ timer[i] \in TimerState /\ reg[i] \in Registers /\ Used(i) /\ now \in Nat
      /\ WriteCost \in Nat
      /\ WriteCost # 0 /\ timer[i].start_time <= now + WriteCost
      /\ phase[i] \in {"set", "started", "stopped"} /\ phase[i] # "new"
  BY <1>1, AtAccess
<1>4. /\ Live(timer[i]) /\ ~timer[i].paused /\ timer[i].load_delay # 0
      /\ MaxTime + WriteCost + timer[i].load_delay < TimeMod
  BY <1>3, UseOf
<1>5. r \in Registers /\ r.ctrlset = {"START"}
  BY <1>3 DEF Registers, Flags
<1> HIDE DEF r
<1> DEFINE u == SetTimerStatus(timer[i], w, WriteCost)
<1>6. InUse(u, {"START"}, "started", i \in ready, WriteCost, now)
  <2>1. CASE phase[i] \in Running
    <3>1. Runs(timer[i], i \in ready, now)
      BY <1>1, <2>1, AtAccess
    <3>2. u = WithMode(timer[i], w)
      BY <1>2, <2>1
    <3> HIDE DEF u
    <3>3. QED
      BY <1>2, <1>3, <1>4, <3>1, <3>2, RunningUse
  <2>2. CASE phase[i] \notin Running
    <3>1. timer[i].event = Never /\ i \notin ready
      BY <1>1, <2>2, AtAccess
    <3>2. u = StartAt(WithMode(timer[i], w), now + WriteCost)
      BY <1>2, <2>2
    <3> HIDE DEF u
    <3>3. QED
      BY <1>2, <1>3, <1>4, <3>1, <3>2, StartedUse
  <2>3. QED
    BY <2>1, <2>2
<1>7. QED
  BY <1>1, <1>2, <1>5, <1>6, ControlKeepsUse DEF Phases

LEMMA ApiStopKeepsUse ==
  ASSUME CountsFit, ApiInv, NEW i \in Timers, ApiStop(i)
  PROVE  ApiInv'
<1> DEFINE w == GetTimerStatus(i) \ reg[i].ctrlset
           u == SetTimerStatus(timer[i], w, WriteCost)
<1>1. /\ Access(i, WriteCost, {"started", "stopped"}, "stopped")
      /\ Control(i, w, reg[i], WriteCost)
  BY DEF ApiStop, WriteCtrlClr
<1>2. /\ timer[i] \in TimerState /\ reg[i] \in Registers /\ Used(i)
      /\ w \in SUBSET Flags /\ WriteCost # 0 /\ timer[i].start_time <= now + WriteCost
      /\ phase[i] \in {"started", "stopped"} /\ phase[i] # "new"
  BY <1>1, AtAccess
<1>3. Live(timer[i]) /\ ~timer[i].paused /\ timer[i].load_delay # 0
      /\ MaxTime + WriteCost + timer[i].load_delay < TimeMod
      /\ reg[i].ctrlset = {"START"} /\ timer[i].continuous
  BY <1>2, UseOf
<1>4. "NORMAL" \in w /\ "START" \notin w /\ "CONTINUOUS" \in w
  BY <1>3, StatusTells
<1> HIDE DEF w
<1>5. InUse(u, reg[i].ctrlset, "stopped", i \in ready, WriteCost, now)
  <2>1. CASE phase[i] \in Running
    <3>1. timer[i].trigger_time # 0
      BY <1>1, <2>1, AtAccess
    <3>2. u = Stop(WithMode(timer[i], w))
      BY <1>2, <1>3, <1>4, <3>1, RunningControl
    <3>3. QED
      BY <1>2, <1>3, <1>4, <3>2, StoppingUse
  <2>2. CASE phase[i] \notin Running
    <3>1. timer[i].trigger_time = 0 /\ timer[i].event = Never /\ i \notin ready
      BY <1>1, <2>2, AtAccess
    <3>2. u = WithMode(timer[i], w)
      BY <1>2, <1>3, <1>4, <3>1, RestingControl
    <3>3. QED
      BY <1>2, <1>3, <1>4, <3>1, <3>2, RestingUse DEF Phases, Running
  <2>3. QED
    BY <2>1, <2>2
<1>6. QED
  BY <1>1, <1>2, <1>5, ControlKeepsUse DEF Phases

\* A read changes no timer, and neither its phase nor its control-set register.
LEMMA ReadKeepsUse ==
  ASSUME ApiInv, BankOK', NEW i \in Timers, NEW cost \in Nat, NEW from,
         Access(i, cost, from, phase[i]), timer' = timer, ready' = ready, now' = now,
         aborted' = FALSE, \A j \in Timers : reg'[j].ctrlset = reg[j].ctrlset
  PROVE  ApiInv'
<1>1. /\ busy = 0 /\ busy' = cost /\ phase' = phase /\ phase \in [Timers -> Phases]
  BY DEF Access, ApiInv
<1>2. ASSUME NEW j \in Timers
      PROVE  Used(j)'
  <2>1. timer[j] \in TimerState /\ now \in Nat /\ Used(j)
    BY StateNumbers
  <2>2. timer[j].start_time <= now + cost
    BY <1>1, <2>1, TimerNumbers DEF Used, InUse
  <2>3. QED
    BY <1>1, <2>1, <2>2 DEF Used, InUse, Rests
<1>3. QED
  BY <1>1, <1>2 DEF ApiInv

LEMMA ApiStatusKeepsUse ==
  ASSUME CountsFit, ApiInv, NEW i \in Timers, ApiStatus(i)
  PROVE  ApiInv'
<1>1. /\ Access(i, ReadCost, {"new", "set", "started", "stopped"}, phase[i])
      /\ ReadStatus(i)
  BY DEF ApiStatus
<1>2. Software
  BY <1>1 DEF Software
<1>3. BankOK'
  BY <1>2, SoftwareKeepsBank DEF ApiInv
<1>4. \A j \in Timers : reg'[j].ctrlset = reg[j].ctrlset
  BY <1>1 DEF ReadStatus, ApiInv, BankOK, TypeOK, Registers
<1>5. timer' = timer /\ ready' = ready /\ now' = now /\ aborted' = FALSE
  BY <1>1 DEF ReadStatus, ApiInv
<1>6. QED
  BY <1>1, <1>3, <1>4, <1>5, CostsAreNat, ReadKeepsUse

\* The access that reads the current count takes time, so what it asserts, that
\* the timer started before it ends, holds.
LEMMA ApiValueKeepsUse ==
  ASSUME CountsFit, ApiInv, NEW i \in Timers, ApiValue(i)
  PROVE  ApiInv'
<1>1. /\ Access(i, Read64Cost, {"new", "set", "started", "stopped"}, phase[i])
      /\ ReadCurr(i, AddrClocks) /\ busy = 0
  BY DEF ApiValue, Access
<1>2. BankOK'
  BY <1>1, RegistersKeepBank DEF ReadCurr, ApiInv, BankOK, TypeOK
<1>3. Plus(now, AddrClocks) > timer[i].start_time
  <2>1. timer[i] \in TimerState /\ now \in Nat /\ now <= MaxTime /\ Used(i)
    BY StateNumbers
  <2>2. /\ AddrClocks \in Nat /\ AddrClocks >= 1 /\ MaxTime \in Nat /\ WriteCost \in Nat
        /\ WriteCost >= AddrClocks /\ MaxTime + WriteCost < TimeMod
        /\ TimeMod \in Nat
    BY CostsAreNat
  <2>3. now + AddrClocks < TimeMod
    BY <2>1, <2>2
  <2>4. Plus(now, AddrClocks) = now + AddrClocks
    BY <2>1, <2>2, <2>3, NoWrap
  <2>5. timer[i].start_time <= now /\ timer[i].start_time \in Nat
    BY <1>1, <2>1, TimerNumbers DEF Used, InUse
  <2>6. QED
    BY <2>1, <2>2, <2>4, <2>5
<1>4. timer' = timer /\ ready' = ready /\ now' = now /\ aborted' = FALSE /\ reg' = reg
  BY <1>1, <1>3 DEF ReadCurr
<1>5. QED
  BY <1>1, <1>2, <1>4, CostsAreNat, ReadKeepsUse

-----------------------------------------------------------------------------
(* Time, and the processes *)

LEMMA ApiTickKeepsUse ==
  ASSUME ApiInv, ApiTick
  PROVE  ApiInv'
<1>1. BankOK'
  BY TickKeepsBank DEF ApiTick, ApiInv
<1>2. /\ ready = {} /\ now' = now + 1 /\ ready' = DueTimers(now')
      /\ reg' = reg /\ phase' = phase /\ aborted' = aborted
      /\ busy' = IF busy = 0 THEN 0 ELSE busy - 1
  BY DEF ApiTick, Tick, Quiet, Notify
<1>3. ASSUME NEW j \in Timers
      PROVE  Used(j)'
  <2> DEFINE t == timer[j]
             u == timer'[j]
  <2>1. t \in TimerState /\ now \in Nat /\ busy \in Nat /\ Used(j)
    BY StateNumbers
  <2>2. u = [t EXCEPT !.event       = IF Due(@, now') THEN Never ELSE @,
                      !.pulse_event = IF Due(@, now') THEN Never ELSE @]
    BY DEF ApiTick, Tick
  <2>3. /\ u.event = (IF Due(t.event, now') THEN Never ELSE t.event)
        /\ u.trigger_time = t.trigger_time /\ u.load_delay = t.load_delay
        /\ u.start_time = t.start_time /\ u.paused = t.paused
        /\ u.continuous = t.continuous /\ u.abort = t.abort
    BY <2>1, <2>2 DEF TimerState
  <2>4. j \in ready' <=> Due(t.event, now')
    BY <1>2 DEF DueTimers
  <2> HIDE DEF u, t
  <2>5. t.start_time \in Nat /\ t.trigger_time \in Nat /\ t.start_time <= now + busy
    BY <2>1, TimerNumbers DEF Used, InUse, t
  <2>6. u.start_time <= now' + busy'
    BY <1>2, <2>1, <2>3, <2>5
  <2>7. j \notin ready
    BY <1>2
  <2>8. ASSUME Runs(t, j \in ready, now)
        PROVE  Runs(u, (j \in ready)', now')
    <3>1. t.trigger_time # 0 /\ t.event = t.trigger_time /\ t.trigger_time > now
      BY <2>7, <2>8 DEF Runs
    <3>2. t.event # Never
      BY <2>5, <3>1 DEF Never
    <3>3. CASE t.trigger_time = now + 1
      <4>1. j \in ready' /\ u.event = Never
        BY <1>2, <2>3, <2>4, <2>5, <3>1, <3>2, <3>3 DEF Due
      <4>2. QED
        BY <1>2, <2>3, <3>1, <3>3, <4>1 DEF Runs
    <3>4. CASE t.trigger_time > now + 1
      <4>1. j \notin ready' /\ u.event = t.event
        BY <1>2, <2>1, <2>3, <2>4, <2>5, <3>1, <3>4 DEF Due
      <4>2. QED
        BY <1>2, <2>3, <3>1, <3>4, <4>1 DEF Runs
    <3>5. QED
      BY <2>1, <2>5, <3>1, <3>3, <3>4
  <2>9. ASSUME Rests(t, j \in ready, busy)
        PROVE  Rests(u, (j \in ready)', busy')
    <3>1. t.event = Never /\ t.trigger_time = 0
      BY <2>9 DEF Rests
    <3>2. j \notin ready' /\ u.event = Never
      BY <2>3, <2>4, <3>1 DEF Due
    <3>3. QED
      BY <2>3, <3>1, <3>2 DEF Rests
  <2>10. InUse(t, reg[j].ctrlset, phase[j], j \in ready, busy, now)
    BY <2>1 DEF Used, t
  <2>11. InUse(u, reg'[j].ctrlset, phase'[j], (j \in ready)', busy', now')
    BY <1>2, <2>3, <2>6, <2>8, <2>9, <2>10 DEF InUse, Live
  <2>12. QED
    BY <2>11 DEF Used, u
<1>4. busy' \in Nat
  BY <1>2 DEF ApiInv
<1>5. QED
  BY <1>1, <1>2, <1>3, <1>4 DEF ApiInv

\* A timer that runs goes on running when it expires.
LEMMA TriggerEffect ==
  ASSUME NEW t \in TimerState, NEW n \in Nat, ~t.paused, t.trigger_time # 0,
         t.trigger_time = n, t.continuous, t.load_delay # 0, t.event = Never,
         n + t.load_delay < TimeMod
  PROVE  LET u == Trigger(t, n)
         IN /\ u.trigger_time = n + t.load_delay /\ u.event = n + t.load_delay
            /\ u.start_time \in {n, t.start_time} /\ u.paused = FALSE
            /\ u.load_delay = t.load_delay /\ u.abort = t.abort
            /\ u.triggered = TRUE /\ u.continuous = TRUE
<1> DEFINE f == [t EXCEPT
             !.triggered   = TRUE,
             !.pulse_event = IF t.pulse_delay > 0
                             THEN Earlier(@, Plus(n, t.pulse_delay)) ELSE @,
             !.start_time  = IF t.reload /\ t.load_delay # 0 THEN n ELSE @]
<1>1. Plus(n, t.load_delay) = n + t.load_delay
  BY TimerNumbers, NoWrap
<1>2. Earlier(Never, n + t.load_delay) = n + t.load_delay
  BY DEF Earlier
<1>3. Trigger(t, n) = [f EXCEPT !.trigger_time = n + t.load_delay,
                                !.event = Earlier(@, n + t.load_delay)]
  BY <1>1 DEF Trigger
<1>4. /\ f.event = Never /\ f.start_time \in {n, t.start_time} /\ f.paused = FALSE
      /\ f.load_delay = t.load_delay /\ f.abort = t.abort
      /\ f.triggered = TRUE /\ f.continuous = TRUE
      /\ f = [f EXCEPT !.triggered = TRUE]
      /\ DOMAIN f = DOMAIN t
  BY DEF TimerState
<1>5. DOMAIN t = {"load_delay", "start_time", "pulse_delay", "resume_delay",
                  "trigger_time", "triggered", "reload", "continuous", "paused",
                  "event", "pulse_event", "abort"}
  BY DEF TimerState
<1> HIDE DEF f
<1>6. QED
  BY <1>2, <1>3, <1>4, <1>5

LEMMA TriggerThreadKeepsUse ==
  ASSUME CountsFit, ApiInv, NEW i \in Timers, TriggerThread(i), UNCHANGED <<phase, busy>>
  PROVE  ApiInv'
<1>1. BankOK'
  BY TriggerThreadKeepsBank DEF ApiInv
<1> DEFINE t == timer[i]
           u == Trigger(timer[i], now)
<1>2. /\ timer' = [timer EXCEPT ![i] = u] /\ i \in ready /\ ready' = ready \ {i}
      /\ now' = now /\ reg' = reg /\ aborted' = aborted
  BY DEF TriggerThread
<1>3. /\ t \in TimerState /\ now \in Nat /\ now <= MaxTime /\ busy \in Nat /\ Used(i)
      /\ timer \in [Timers -> TimerState]
  BY StateNumbers
<1>4. timer'[i] = u /\ i \notin ready'
  BY <1>2, <1>3
<1>5. /\ Live(t) /\ ~t.paused /\ t.start_time <= now + busy
      /\ MaxTime + WriteCost + t.load_delay < TimeMod
      /\ t.load_delay = 0 => phase[i] = "new"
  BY <1>3 DEF Used, InUse
<1> HIDE DEF u
<1>6. InUse(u, reg[i].ctrlset, phase[i], (i \in ready)', busy, now)
  <2>1. CASE phase[i] \in Running
    <3>1. t.event = Never /\ t.trigger_time = now /\ t.trigger_time # 0 /\ t.continuous
          /\ t.load_delay # 0
      BY <1>2, <1>3, <1>5, <2>1 DEF Used, InUse, Runs, Running
    <3>2. now + t.load_delay < TimeMod /\ t.load_delay \in Nat /\ t.start_time \in Nat
      BY <1>3, <1>5, CostsAreNat, TimerNumbers
    <3>3. /\ u.trigger_time = now + t.load_delay /\ u.event = now + t.load_delay
          /\ u.start_time \in {now, t.start_time} /\ u.paused = FALSE
          /\ u.load_delay = t.load_delay /\ u.abort = t.abort /\ u.continuous = TRUE
      BY <1>3, <1>5, <3>1, <3>2, TriggerEffect DEF u
    <3>4. u.trigger_time > now /\ u.trigger_time # 0 /\ u.start_time <= now + busy
      BY <1>3, <1>5, <3>1, <3>2, <3>3
    <3>5. Runs(u, (i \in ready)', now)
      BY <1>4, <3>3, <3>4 DEF Runs
    <3>6. Live(u)
      BY <1>5, <3>3 DEF Live
    <3> HIDE DEF t
    <3>7. InUse(t, reg[i].ctrlset, phase[i], i \in ready, busy, now)
      BY <1>3 DEF Used, t
    <3>8. QED
      BY <1>5, <2>1, <3>1, <3>3, <3>4, <3>5, <3>6, <3>7 DEF InUse
  <2>2. CASE phase[i] \notin Running
    <3>1. t.trigger_time = 0 /\ Rests(t, i \in ready, busy)
      BY <1>3, <2>2 DEF Used, InUse, Rests
    <3>2. u = t
      BY <3>1 DEF Trigger, u
    <3>3. Rests(t, (i \in ready)', busy)
      BY <1>4, <3>1 DEF Rests
    <3> HIDE DEF t
    <3>4. InUse(t, reg[i].ctrlset, phase[i], i \in ready, busy, now)
      BY <1>3 DEF Used, t
    <3>5. QED
      BY <2>2, <3>2, <3>3, <3>4 DEF InUse
  <2>3. QED
    BY <2>1, <2>2
<1>7. ASSUME NEW j \in Timers
      PROVE  Used(j)'
  <2>1. CASE j = i
    BY <1>2, <1>4, <1>6, <2>1 DEF Used
  <2>2. CASE j # i
    <3>1. timer'[j] = timer[j] /\ (j \in ready') = (j \in ready) /\ Used(j)
      BY <1>2, <1>3, <2>2 DEF ApiInv
    <3>2. QED
      BY <1>2, <3>1 DEF Used
  <2>3. QED
    BY <2>1, <2>2
<1>8. QED
  BY <1>1, <1>2, <1>7 DEF ApiInv

\* timer_thread writes the status register alone.
LEMMA TimerThreadKeepsUse ==
  ASSUME ApiInv, TimerThread, UNCHANGED <<phase, busy>>
  PROVE  ApiInv'
<1>1. BankOK'
  BY TimerThreadKeepsBank DEF ApiInv
<1>2. \A j \in Timers : reg'[j].ctrlset = reg[j].ctrlset
  BY DEF TimerThread, ApiInv, BankOK, TypeOK, Registers
<1>3. timer' = timer /\ ready' = ready /\ now' = now /\ aborted' = aborted
  BY DEF TimerThread
<1>4. QED
  BY <1>1, <1>2, <1>3 DEF ApiInv, Used

-----------------------------------------------------------------------------
(* Theorems *)

LEMMA ApiInitInUse ==
  ASSUME CountsFit, ApiInit
  PROVE  ApiInv
<1>1. BankOK
  BY BankInit DEF ApiInit
<1>2. /\ phase \in [Timers -> Phases] /\ busy \in Nat /\ aborted = FALSE /\ now = 0
      /\ \A i \in Timers : phase[i] = "new" /\ busy = 0 /\ i \notin ready
                           /\ reg[i].ctrlset = {} /\ timer[i] = NewTimer(PulseDelay)
  BY DEF ApiInit, Init, Phases
<1>3. ASSUME NEW i \in Timers
      PROVE  Used(i)
  <2> DEFINE t == NewTimer(PulseDelay)
  <2>1. /\ t.abort = "" /\ t.paused = FALSE /\ t.load_delay = 0 /\ t.start_time = 0
        /\ t.trigger_time = 0 /\ t.event = Never
    BY DEF NewTimer
  <2> HIDE DEF t
  <2>2. MaxTime + WriteCost + t.load_delay < TimeMod /\ t.start_time <= 0 + 0
    <3>1. MaxTime \in Nat /\ WriteCost \in Nat /\ MaxTime + WriteCost < TimeMod
      BY CostsAreNat
    <3>2. \A x : x = 0 => MaxTime + WriteCost + x < TimeMod /\ x <= 0 + 0
      BY <3>1
    <3>3. t.load_delay = 0 /\ t.start_time = 0
      BY <2>1
    <3>4. QED
      BY <3>2, <3>3
  <2>3. Rests(t, FALSE, 0)
    BY <2>1 DEF Rests
  <2>4. InUse(t, {}, "new", FALSE, 0, 0)
    BY <2>1, <2>2, <2>3 DEF InUse, Live, Running
  <2>5. (i \in ready) = FALSE
    BY <1>2
  <2>6. QED
    BY <1>2, <2>4, <2>5 DEF Used, t
<1>4. QED
  BY <1>1, <1>2, <1>3 DEF ApiInv

LEMMA ApiStep ==
  ASSUME CountsFit, ApiInv, [ApiNext]_apiVars
  PROVE  ApiInv'
<1>1. ASSUME NEW i \in Timers, SetupLoad(i)
      PROVE  ApiInv'
  BY <1>1, SetupLoadKeepsUse
<1>2. ASSUME NEW i \in Timers, SetupClear(i)
      PROVE  ApiInv'
  BY <1>2, SetupClearKeepsUse
<1>3. ASSUME NEW i \in Timers, SetupSet(i)
      PROVE  ApiInv'
  BY <1>3, SetupSetKeepsUse
<1>4. ASSUME NEW i \in Timers, ApiStart(i)
      PROVE  ApiInv'
  BY <1>4, ApiStartKeepsUse
<1>5. ASSUME NEW i \in Timers, ApiStop(i)
      PROVE  ApiInv'
  BY <1>5, ApiStopKeepsUse
<1>6. ASSUME NEW i \in Timers, ApiStatus(i)
      PROVE  ApiInv'
  BY <1>6, ApiStatusKeepsUse
<1>7. ASSUME NEW i \in Timers, ApiValue(i)
      PROVE  ApiInv'
  BY <1>7, ApiValueKeepsUse
<1>8. CASE ApiTick
  BY <1>8, ApiTickKeepsUse
<1>9. ASSUME NEW i \in Timers, TriggerThread(i), UNCHANGED <<phase, busy>>
      PROVE  ApiInv'
  BY <1>9, TriggerThreadKeepsUse
<1>10. CASE TimerThread /\ UNCHANGED <<phase, busy>>
  BY <1>10, TimerThreadKeepsUse
<1>11. CASE UNCHANGED apiVars
  BY <1>11 DEF apiVars, ApiInv, BankOK, TypeOK, Used
<1>12. QED
  BY <1>1, <1>2, <1>3, <1>4, <1>5, <1>6, <1>7, <1>8, <1>9, <1>10, <1>11
     DEF ApiNext, Api, ApiThread

LEMMA ApiAlways ==
  ASSUME CountsFit
  PROVE  ApiSpec => []ApiInv
<1>1. ApiInit => ApiInv
  BY ApiInitInUse
<1>2. ApiInv /\ [ApiNext]_apiVars => ApiInv'
  BY ApiStep
<1>3. QED
  BY <1>1, <1>2, PTL DEF ApiSpec

\* No assertion of Timer or of Timer_module fails for software that uses
\* Timer_api in order, whenever its accesses meet the expiry of a timer.
THEOREM ApiFailsNoAssertion ==
  ASSUME CountsFit
  PROVE  ApiSpec => []ApiNeverAborts
<1>1. ApiInv => ApiNeverAborts
  BY DEF ApiInv, ApiNeverAborts, Alive, Used, InUse
<1>2. QED
  BY <1>1, ApiAlways, PTL

\* start() is kept, while a new count is being loaded too: the timer is continuous
\* and its next trigger time is set and not in the past.
THEOREM ApiKeepsStart ==
  ASSUME CountsFit
  PROVE  ApiSpec => []StartedRuns
<1>1. ApiInv => StartedRuns
  <2> SUFFICES ASSUME ApiInv, NEW i \in Timers, phase[i] \in {"started", "reloaded"}
               PROVE  timer[i].continuous /\ ~timer[i].paused /\ timer[i].trigger_time >= now
    BY DEF StartedRuns
  <2>1. timer[i] \in TimerState /\ now \in Nat /\ Used(i) /\ timer[i].trigger_time \in Nat
    BY StateNumbers, TimerNumbers
  <2>2. timer[i].continuous /\ ~timer[i].paused /\ Runs(timer[i], i \in ready, now)
    BY <2>1 DEF Used, InUse, Running
  <2>3. timer[i].trigger_time = now \/ timer[i].trigger_time > now
    BY <2>2 DEF Runs
  <2>4. QED
    BY <2>1, <2>2, <2>3
<1>2. QED
  BY <1>1, ApiAlways, PTL

\* stop() is kept, and setup() stops the timer: it has no trigger time until
\* start() is called again.
THEOREM ApiKeepsStop ==
  ASSUME CountsFit
  PROVE  ApiSpec => []StoppedIsSilent
<1>1. ApiInv => StoppedIsSilent
  BY DEF ApiInv, StoppedIsSilent, Used, InUse, Running, Rests
<1>2. QED
  BY <1>1, ApiAlways, PTL

-----------------------------------------------------------------------------
(* Each timer of the bank is a countdown *)

\* One step of timer i, seen as a countdown.
CountsDown(i) == [Countdowns(i)!Next]_(Countdowns(i)!vars)

\* A step that neither pauses timer i nor finds it paused, and leaves its trigger flag.
Alike(i) ==
  /\ ~timer[i].paused /\ ~timer'[i].paused
  /\ timer'[i].triggered = timer[i].triggered

LEMMA SameIsStutter ==
  ASSUME NEW i, Alike(i), timer'[i].trigger_time = timer[i].trigger_time,
         timer'[i].load_delay = timer[i].load_delay,
         timer'[i].continuous = timer[i].continuous,
         now' = now \/ timer[i].trigger_time = 0
  PROVE  CountsDown(i)
  BY DEF CountsDown, Alike, Countdowns!vars

LEMMA LoadIsProgram ==
  ASSUME NEW i, Alike(i), timer'[i].trigger_time = timer[i].trigger_time,
         timer'[i].load_delay \in Time,
         timer'[i].continuous = timer[i].continuous, now' = now
  PROVE  CountsDown(i)
  BY DEF CountsDown, Alike, Countdowns!Next, Countdowns!Program

LEMMA ModeIsSetMode ==
  ASSUME NEW i, Alike(i), timer'[i].trigger_time = timer[i].trigger_time,
         timer'[i].load_delay = timer[i].load_delay,
         timer'[i].continuous \in BOOLEAN, now' = now
  PROVE  CountsDown(i)
  BY DEF CountsDown, Alike, Countdowns!Next, Countdowns!SetMode

LEMMA StopIsHalt ==
  ASSUME NEW i, Alike(i), timer'[i].trigger_time = 0,
         timer'[i].load_delay = timer[i].load_delay,
         timer'[i].continuous = timer[i].continuous
  PROVE  CountsDown(i)
  BY DEF CountsDown, Alike, Countdowns!Next, Countdowns!Halt

LEMMA StartIsBegin ==
  ASSUME NEW i, Alike(i), timer[i].trigger_time = 0,
         now \in Nat, WriteCost \in Nat \ {0}, timer[i].load_delay \in Nat, now' = now,
         timer'[i].trigger_time = (now + WriteCost) + timer[i].load_delay,
         timer'[i].load_delay = timer[i].load_delay,
         timer'[i].continuous = timer[i].continuous
  PROVE  CountsDown(i)
<1>1. /\ timer'[i].trigger_time # 0
      /\ timer'[i].trigger_time - now = timer[i].load_delay + WriteCost
  OBVIOUS
<1>2. Countdowns(i)!Begin(WriteCost)
  BY <1>1 DEF Alike, Countdowns!Begin
<1>3. QED
  BY <1>2 DEF CountsDown, Countdowns!Next

LEMMA TimeIsElapse ==
  ASSUME NEW i, Alike(i), now \in Nat, timer[i].trigger_time \in Nat,
         timer[i].trigger_time > now, now' = now + 1,
         timer'[i].trigger_time = timer[i].trigger_time,
         timer'[i].load_delay = timer[i].load_delay,
         timer'[i].continuous = timer[i].continuous
  PROVE  CountsDown(i)
<1>1. /\ timer[i].trigger_time # 0 /\ timer[i].trigger_time - now > 0
      /\ timer[i].trigger_time - now' = (timer[i].trigger_time - now) - 1
  OBVIOUS
<1>2. Countdowns(i)!Elapse
  BY <1>1 DEF Alike, Countdowns!Elapse
<1>3. QED
  BY <1>2 DEF CountsDown, Countdowns!Next

LEMMA TriggerIsExpire ==
  ASSUME NEW i, ~timer[i].paused, ~timer'[i].paused, timer'[i].triggered = TRUE,
         now \in Nat, timer[i].load_delay \in Nat \ {0}, now' = now,
         timer[i].trigger_time = now, timer[i].trigger_time # 0,
         timer'[i].trigger_time = now + timer[i].load_delay,
         timer'[i].load_delay = timer[i].load_delay,
         timer[i].continuous = TRUE, timer'[i].continuous = TRUE
  PROVE  CountsDown(i)
<1>1. /\ timer[i].trigger_time - now = 0 /\ timer'[i].trigger_time # 0
      /\ timer'[i].trigger_time - now = timer[i].load_delay
  OBVIOUS
<1>2. Countdowns(i)!Expire
  BY <1>1 DEF Countdowns!Expire
<1>3. QED
  BY <1>2 DEF CountsDown, Countdowns!Next

\* No word written to the control registers changes the load delay or the trigger
\* flag; the mode is the one in the word.
LEMMA ControlKeepsDelay ==
  ASSUME now \in Int, NEW t, Wellformed(t), NEW w, NEW d \in Int,
         NEW r \in BOOLEAN, Awake(t, r)
  PROVE  LET u == SetTimerStatus(t, w, d)
         IN /\ u.load_delay = t.load_delay /\ u.triggered = t.triggered
            /\ u.continuous = ("CONTINUOUS" \in w)
<1> DEFINE Same(a, b) == /\ b.load_delay = a.load_delay /\ b.triggered = a.triggered
                         /\ b.continuous = a.continuous
           t1 == WithMode(t, w)
           t2 == ResumeIf(t1.paused /\ "NORMAL" \in w, t1, d)
           t3 == StartIf("START" \in w, t2, d)
           t4 == PauseIf("NORMAL" \notin w, t3, d)
<1>1. SetTimerStatus(t, w, d) =
        IF IsRunning(t1, 0, now) THEN IF "START" \in w THEN t1 ELSE Stop(t1) ELSE t4
  BY DEF SetTimerStatus, WithMode
<1>2. /\ Wellformed(t1) /\ Awake(t1, r) /\ t1 \in TimerState
      /\ t1.load_delay = t.load_delay /\ t1.triggered = t.triggered
      /\ t1.continuous = ("CONTINUOUS" \in w)
  <2>1. t \in TimerState
    BY DEF Wellformed
  <2>2. QED
    BY <2>1, WithModeWellformed, ModeOnly
<1> HIDE DEF t1
<1>3. Same(t1, Stop(t1))
  BY <1>2 DEF Stop, TimerState
<1>4. \A a \in TimerState : Same(a, Resume(a, d, now)) /\ Same(a, Resume(a, 0, now))
  BY DEF Resume, Fail, ResumeAt, TimerState
<1>5. \A a \in TimerState : Same(a, Start(a, d, now))
  BY <1>4 DEF Start, Fail, StartAt, TimerState
<1>6. \A a \in TimerState : Same(a, Pause(a, d, now))
  BY DEF Pause, TimerState
<1>7. Wellformed(t2) /\ Awake(t2, r) /\ Same(t1, t2) /\ t2 \in TimerState
  BY <1>2, <1>4, ResumeWellformed DEF ResumeIf, Wellformed
<1> HIDE DEF t2
<1>8. Wellformed(t3) /\ Awake(t3, r) /\ Same(t2, t3) /\ t3 \in TimerState
  BY <1>5, <1>7, StartWellformed DEF StartIf, Wellformed
<1> HIDE DEF t3
<1>9. Same(t3, t4)
  BY <1>6, <1>8 DEF PauseIf
<1> HIDE DEF t4
<1>10. QED
  BY <1>1, <1>2, <1>3, <1>7, <1>8, <1>9

\* An access to the control word, seen as a step of its own timer.
LEMMA ControlAlike ==
  ASSUME CountsFit, ApiInv, ApiInv', NEW i \in Timers, NEW w, NEW r,
         Control(i, w, r, WriteCost)
  PROVE  /\ Alike(i) /\ now' = now
         /\ timer'[i] = SetTimerStatus(timer[i], w, WriteCost)
         /\ timer'[i].load_delay = timer[i].load_delay
         /\ timer'[i].continuous = ("CONTINUOUS" \in w)
<1>1. /\ timer[i] \in TimerState /\ timer \in [Timers -> TimerState] /\ now \in Nat
      /\ Used(i) /\ Used(i)' /\ WriteCost \in Nat
      /\ Wellformed(timer[i]) /\ Awake(timer[i], i \in ready)
  BY StateNumbers, CostsAreNat DEF ApiInv, BankOK
<1>2. timer'[i] = SetTimerStatus(timer[i], w, WriteCost) /\ now' = now
  BY <1>1 DEF Control
<1>3. /\ timer'[i].load_delay = timer[i].load_delay
      /\ timer'[i].triggered = timer[i].triggered
      /\ timer'[i].continuous = ("CONTINUOUS" \in w)
  <2> DEFINE k == i \in ready
  <2>1. k \in BOOLEAN /\ Awake(timer[i], k) /\ WriteCost \in Int /\ now \in Int
    BY <1>1
  <2> HIDE DEF k
  <2>2. QED
    BY <1>1, <1>2, <2>1, ControlKeepsDelay
<1>4. ~timer[i].paused /\ ~timer'[i].paused
  BY <1>1 DEF Used, InUse
<1>5. QED
  BY <1>2, <1>3, <1>4 DEF Alike

LEMMA SetupLoadCounts ==
  ASSUME CountsFit, ApiInv, ApiInv', NEW i \in Timers, SetupLoad(i)
  PROVE  CountsDown(i)
<1>1. PICK delay, lo, hi : Load(i, delay, lo, hi)
  BY DEF SetupLoad, WriteLoadLo
<1>2. /\ timer[i] \in TimerState /\ timer'[i] \in TimerState
      /\ timer \in [Timers -> TimerState] /\ Used(i) /\ Used(i)'
  BY StateNumbers DEF ApiInv, BankOK, TypeOK
<1>3. timer'[i] = [timer[i] EXCEPT !.load_delay = delay % TimeMod] /\ now' = now
  BY <1>1, <1>2 DEF Load
<1>4. /\ timer'[i].trigger_time = timer[i].trigger_time /\ timer'[i].load_delay \in Time
      /\ timer'[i].continuous = timer[i].continuous
      /\ timer'[i].triggered = timer[i].triggered
  BY <1>2, <1>3 DEF TimerState
<1>5. Alike(i)
  BY <1>2, <1>4 DEF Alike, Used, InUse
<1>6. QED
  BY <1>3, <1>4, <1>5, LoadIsProgram

LEMMA SetupClearCounts ==
  ASSUME CountsFit, ApiInv, ApiInv', NEW i \in Timers, SetupClear(i)
  PROVE  CountsDown(i)
<1> DEFINE w == GetTimerStatus(i) \ reg[i].ctrlset
<1>1. /\ Access(i, WriteCost, {"loaded", "reloaded"}, "cleared")
      /\ Control(i, w, reg[i], WriteCost)
  BY DEF SetupClear, WriteCtrlClr
<1>2. /\ Alike(i) /\ now' = now
      /\ timer'[i].load_delay = timer[i].load_delay
      /\ timer'[i].continuous = ("CONTINUOUS" \in w)
  BY <1>1, ControlAlike
<1>3. /\ Used(i) /\ Used(i)' /\ phase'[i] = "cleared"
      /\ phase[i] \in {"loaded", "reloaded"} /\ phase[i] # "new"
  BY <1>1, StateNumbers DEF Access, ApiInv
<1>4. timer'[i].trigger_time = 0
  BY <1>3 DEF Used, InUse, Rests, Running
<1>5. CASE phase[i] = "loaded"
  <2>1. timer[i].trigger_time = 0
    BY <1>3, <1>5 DEF Used, InUse, Rests, Running
  <2>2. timer'[i].trigger_time = timer[i].trigger_time /\ timer'[i].continuous \in BOOLEAN
    BY <1>2, <1>4, <2>1
  <2>3. QED
    BY <1>2, <2>2, ModeIsSetMode
<1>6. CASE phase[i] = "reloaded"
  <2>1. ~timer[i].paused /\ timer[i].continuous = TRUE /\ reg[i].ctrlset = {"START"}
    <3>1. timer[i].continuous \in BOOLEAN
      BY StateNumbers, TimerNumbers
    <3>2. QED
      BY <1>3, <1>6, <3>1, UseOf
  <2>2. "CONTINUOUS" \in w
    BY <2>1, StatusTells
  <2> HIDE DEF w
  <2>3. timer'[i].continuous = timer[i].continuous
    BY <1>2, <2>1, <2>2
  <2>4. QED
    BY <1>2, <1>4, <2>3, StopIsHalt
<1>7. QED
  BY <1>3, <1>5, <1>6

LEMMA SetupSetCounts ==
  ASSUME CountsFit, ApiInv, ApiInv', NEW i \in Timers, SetupSet(i)
  PROVE  CountsDown(i)
<1>1. PICK w, r : Control(i, w, r, WriteCost)
  BY DEF SetupSet, WriteCtrlSet
<1>2. /\ Alike(i) /\ now' = now
      /\ timer'[i].load_delay = timer[i].load_delay
      /\ timer'[i].continuous = ("CONTINUOUS" \in w)
  BY <1>1, ControlAlike
<1>3. /\ Used(i) /\ Used(i)' /\ phase[i] = "cleared" /\ phase'[i] = "set"
  BY DEF SetupSet, Access, ApiInv
<1>4. timer[i].trigger_time = 0 /\ timer'[i].trigger_time = 0
  BY <1>3 DEF Used, InUse, Rests, Running
<1>5. timer'[i].trigger_time = timer[i].trigger_time /\ timer'[i].continuous \in BOOLEAN
  BY <1>2, <1>4
<1>6. QED
  BY <1>2, <1>5, ModeIsSetMode

LEMMA ApiStartCounts ==
  ASSUME CountsFit, ApiInv, ApiInv', NEW i \in Timers, ApiStart(i)
  PROVE  CountsDown(i)
<1>1. PICK w \in SUBSET Flags :
        /\ "CONTINUOUS" \in w
        /\ Control(i, w, [reg[i] EXCEPT !.ctrlset = {"START"}], WriteCost)
        /\ phase[i] \in Running =>
             SetTimerStatus(timer[i], w, WriteCost) = WithMode(timer[i], w)
        /\ phase[i] \notin Running =>
             SetTimerStatus(timer[i], w, WriteCost)
               = StartAt(WithMode(timer[i], w), now + WriteCost)
        /\ (now + WriteCost) + timer[i].load_delay < TimeMod
  BY ApiStartResult
<1>2. /\ Alike(i) /\ now' = now
      /\ timer'[i] = SetTimerStatus(timer[i], w, WriteCost)
      /\ timer'[i].load_delay = timer[i].load_delay
      /\ timer'[i].continuous = ("CONTINUOUS" \in w)
  BY <1>1, ControlAlike
<1>3. /\ timer[i] \in TimerState /\ Used(i) /\ now \in Nat /\ WriteCost \in Nat \ {0}
      /\ timer[i].load_delay \in Nat /\ timer[i].continuous \in BOOLEAN
      /\ phase[i] \in {"set", "started", "stopped"} /\ phase[i] # "new"
  BY AtAccess, TimerNumbers DEF ApiStart
<1>4. timer[i].continuous
  BY <1>3, UseOf
<1>5. timer'[i].continuous = timer[i].continuous
  BY <1>1, <1>2, <1>3, <1>4
<1>6. CASE phase[i] \in Running
  <2>1. timer'[i].trigger_time = timer[i].trigger_time
    BY <1>1, <1>2, <1>3, <1>6, ModeOnly
  <2>2. QED
    BY <1>2, <1>5, <2>1, SameIsStutter
<1>7. CASE phase[i] \notin Running
  <2>1. timer[i].trigger_time = 0 /\ timer[i].event = Never
    BY <1>3, <1>7 DEF Used, InUse, Rests
  <2>2. now + WriteCost \in Nat
    BY <1>3
  <2>3. timer'[i].trigger_time = (now + WriteCost) + timer[i].load_delay
    BY <1>1, <1>2, <1>3, <1>7, <2>1, <2>2, StartAtEffect
  <2>4. QED
    BY <1>2, <1>3, <1>5, <2>1, <2>3, StartIsBegin
<1>8. QED
  BY <1>6, <1>7

LEMMA ApiStopCounts ==
  ASSUME CountsFit, ApiInv, ApiInv', NEW i \in Timers, ApiStop(i)
  PROVE  CountsDown(i)
<1>1. PICK w, r : Control(i, w, r, WriteCost)
  BY DEF ApiStop, WriteCtrlClr
<1>2. /\ Alike(i) /\ now' = now
      /\ timer'[i].load_delay = timer[i].load_delay
  BY <1>1, ControlAlike
<1>3. /\ Used(i) /\ Used(i)' /\ phase[i] \in {"started", "stopped"} /\ phase'[i] = "stopped"
      /\ timer[i] \in TimerState /\ timer'[i] \in TimerState
  BY StateNumbers DEF ApiStop, Access, ApiInv, BankOK, TypeOK
<1>4. timer'[i].trigger_time = 0 /\ timer[i].continuous /\ timer'[i].continuous
  BY <1>3 DEF Used, InUse, Rests, Running
<1>5. timer[i].continuous = timer'[i].continuous
  BY <1>3, <1>4, TimerNumbers
<1>6. QED
  BY <1>2, <1>4, <1>5, StopIsHalt

LEMMA TickCounts ==
  ASSUME ApiInv, ApiTick, NEW i \in Timers
  PROVE  CountsDown(i)
<1>1. timer[i] \in TimerState /\ now \in Nat /\ Used(i) /\ timer[i].trigger_time \in Nat
  BY StateNumbers, TimerNumbers
<1>2. /\ timer'[i].trigger_time = timer[i].trigger_time
      /\ timer'[i].load_delay = timer[i].load_delay
      /\ timer'[i].continuous = timer[i].continuous
      /\ timer'[i].triggered = timer[i].triggered /\ timer'[i].paused = timer[i].paused
  BY <1>1 DEF ApiTick, Tick, TimerState
<1>3. Alike(i)
  BY <1>1, <1>2 DEF Alike, Used, InUse
<1>4. now' = now + 1 /\ i \notin ready
  BY DEF ApiTick, Tick, Quiet
<1>5. CASE timer[i].trigger_time = 0
  BY <1>2, <1>3, <1>5, SameIsStutter
<1>6. CASE timer[i].trigger_time # 0
  <2>1. timer[i].trigger_time > now
    BY <1>1, <1>4, <1>6 DEF Used, InUse, Rests, Runs
  <2>2. QED
    BY <1>1, <1>2, <1>3, <1>4, <2>1, TimeIsElapse
<1>7. QED
  BY <1>5, <1>6

LEMMA TriggerCounts ==
  ASSUME CountsFit, ApiInv, NEW i \in Timers, TriggerThread(i)
  PROVE  CountsDown(i)
<1>1. /\ timer[i] \in TimerState /\ now \in Nat /\ now <= MaxTime /\ Used(i)
      /\ timer \in [Timers -> TimerState] /\ timer[i].load_delay \in Nat
      /\ timer[i].continuous \in BOOLEAN
  BY StateNumbers, TimerNumbers
<1>2. timer'[i] = Trigger(timer[i], now) /\ i \in ready /\ now' = now
  BY <1>1 DEF TriggerThread
<1>3. /\ ~timer[i].paused /\ MaxTime + WriteCost + timer[i].load_delay < TimeMod
  BY <1>1 DEF Used, InUse
<1>4. CASE phase[i] \in Running
  <2>1. /\ timer[i].event = Never /\ timer[i].trigger_time = now
        /\ timer[i].trigger_time # 0 /\ timer[i].continuous
        /\ timer[i].load_delay # 0
    BY <1>1, <1>2, <1>4 DEF Used, InUse, Runs, Running
  <2>2. now + timer[i].load_delay < TimeMod
    BY <1>1, <1>3, CostsAreNat
  <2>3. /\ timer'[i].trigger_time = now + timer[i].load_delay /\ timer'[i].paused = FALSE
        /\ timer'[i].load_delay = timer[i].load_delay
        /\ timer'[i].triggered = TRUE /\ timer'[i].continuous = TRUE
    <3> DEFINE u == Trigger(timer[i], now)
    <3>1. /\ u.trigger_time = now + timer[i].load_delay /\ u.paused = FALSE
          /\ u.load_delay = timer[i].load_delay
          /\ u.triggered = TRUE /\ u.continuous = TRUE
      BY <1>1, <1>3, <2>1, <2>2, TriggerEffect
    <3> HIDE DEF u
    <3>2. QED
      BY <1>2, <3>1 DEF u
  <2>4. QED
    BY <1>1, <1>2, <1>3, <2>1, <2>3, TriggerIsExpire
<1>5. CASE phase[i] \notin Running
  <2>1. timer[i].trigger_time = 0
    BY <1>1, <1>5 DEF Used, InUse, Rests
  <2>2. timer'[i] = timer[i]
    BY <1>2, <2>1 DEF Trigger
  <2>3. QED
    BY <1>3, <2>1, <2>2, SameIsStutter DEF Alike
<1>6. QED
  BY <1>4, <1>5

\* A timer that a step leaves as it is, in the same instant.
LEMMA UnchangedCounts ==
  ASSUME ApiInv, NEW i \in Timers, timer'[i] = timer[i], now' = now
  PROVE  CountsDown(i)
<1>1. ~timer[i].paused
  BY StateNumbers DEF Used, InUse
<1>2. QED
  BY <1>1, SameIsStutter DEF Alike

LEMMA StepCounts ==
  ASSUME CountsFit, ApiInv, ApiInv', [ApiNext]_apiVars, NEW i \in Timers
  PROVE  CountsDown(i)
<1>1. timer \in [Timers -> TimerState]
  BY StateNumbers
<1>2. ASSUME NEW j \in Timers, NEW w, NEW r, NEW d, Control(j, w, r, d), j # i
      PROVE  CountsDown(i)
  BY <1>1, <1>2, UnchangedCounts DEF Control
<1>3. ASSUME NEW j \in Timers, SetupLoad(j)
      PROVE  CountsDown(i)
  <2>1. CASE j = i
    BY <1>3, <2>1, SetupLoadCounts
  <2>2. CASE j # i
    BY <1>1, <1>3, <2>2, UnchangedCounts DEF SetupLoad, WriteLoadLo, Load
  <2>3. QED
    BY <2>1, <2>2
<1>4. ASSUME NEW j \in Timers, SetupClear(j)
      PROVE  CountsDown(i)
  BY <1>2, <1>4, SetupClearCounts DEF SetupClear, WriteCtrlClr
<1>5. ASSUME NEW j \in Timers, SetupSet(j)
      PROVE  CountsDown(i)
  BY <1>2, <1>5, SetupSetCounts DEF SetupSet, WriteCtrlSet
<1>6. ASSUME NEW j \in Timers, ApiStart(j)
      PROVE  CountsDown(i)
  BY <1>2, <1>6, ApiStartCounts DEF ApiStart, WriteCtrlSet
<1>7. ASSUME NEW j \in Timers, ApiStop(j)
      PROVE  CountsDown(i)
  BY <1>2, <1>7, ApiStopCounts DEF ApiStop, WriteCtrlClr
<1>8. ASSUME NEW j \in Timers, ApiStatus(j) \/ ApiValue(j)
      PROVE  CountsDown(i)
  BY <1>8, UnchangedCounts DEF ApiStatus, ReadStatus, ApiValue, ReadCurr
<1>9. CASE ApiTick
  BY <1>9, TickCounts
<1>10. ASSUME NEW j \in Timers, TriggerThread(j)
       PROVE  CountsDown(i)
  <2>1. CASE j = i
    BY <1>10, <2>1, TriggerCounts
  <2>2. CASE j # i
    BY <1>1, <1>10, <2>2, UnchangedCounts DEF TriggerThread
  <2>3. QED
    BY <2>1, <2>2
<1>11. CASE TimerThread
  BY <1>11, UnchangedCounts DEF TimerThread
<1>12. CASE UNCHANGED apiVars
  BY <1>12, UnchangedCounts DEF apiVars
<1>13. QED
  BY <1>3, <1>4, <1>5, <1>6, <1>7, <1>8, <1>9, <1>10, <1>11, <1>12
     DEF ApiNext, Api, ApiThread

LEMMA ApiInitCounts ==
  ASSUME ApiInit, NEW i \in Timers
  PROVE  Countdowns(i)!Init
<1> DEFINE t == NewTimer(PulseDelay)
<1>1. timer[i] = t
  BY DEF ApiInit, Init
<1>2. /\ t.paused = FALSE /\ t.load_delay = 0 /\ t.trigger_time = 0
      /\ t.continuous = FALSE /\ t.triggered = FALSE
  BY DEF NewTimer
<1> HIDE DEF t
<1>3. QED
  BY <1>1, <1>2 DEF Countdowns!Init

\* Through Timer_api each timer of the bank is a countdown: what the software asks
\* for in its registers is what the timer does, to the clock period.
THEOREM ApiTimersCountDown ==
  ASSUME CountsFit
  PROVE  ApiSpec => ImplementsCountdowns
<1>1. ApiInit => \A i \in Timers : Countdowns(i)!Init
  BY ApiInitCounts
<1>2. ApiInv /\ ApiInv' /\ [ApiNext]_apiVars =>
        [\A i \in Timers : [Countdowns(i)!Next]_(Countdowns(i)!vars)]_apiVars
  BY StepCounts DEF CountsDown
<1>3. QED
  BY <1>1, <1>2, ApiAlways, PTL DEF ApiSpec, ImplementsCountdowns
=============================================================================
