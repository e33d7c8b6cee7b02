-------------------------- MODULE TransportProofs --------------------------
(***************************************************************************)
(* What carries the data. The connection never waits for nothing, is live  *)
(* only on a session that subscribed, and stays closed: for every          *)
(* configuration the assumption allows and any number of faults and calls  *)
(* of close(). The byte ring between threads and processes never overruns  *)
(* and implements the channel: for every capacity and every set of message *)
(* lengths the assumption allows, however old the copies of the indices.   *)
(***************************************************************************)
EXTENDS Connection, MsgRing, Induction

-----------------------------------------------------------------------------
(***************************************************************************)
(* The connection.                                                         *)
(***************************************************************************)

States == {"Idle", "Resolving", "Connecting", "TlsHandshake", "WsHandshake", "Authenticating",
           "Subscribing", "Live", "Stale", "Backoff"}

Session == [phase : {"None", "Connecting", "Authenticating", "Subscribing", "Live"},
            ws : {"closed", "connecting", "handshake", "upgrading", "open"},
            hung : BOOLEAN, subscribed : BOOLEAN]

ConnType == [state : States, active : Session, pending : Session,
             timers : SUBSET (SessionTimers \cup {"backoff"}), looking : BOOLEAN, orphans : Nat,
             quiet : {"fresh", "stale", "dead"}, closed : BOOLEAN]

\* A session that exists has a socket, opened by the time it authenticates, and its subscriptions
\* were sent from "Subscribing" on.
SessionSound(s) ==
  /\ s.phase = "None" => s = NoSession
  /\ s.phase = "Connecting" => s.ws \in {"connecting", "handshake", "upgrading"}
  /\ s.phase \in {"Authenticating", "Subscribing", "Live"} => s.ws = "open"
  /\ s.phase \in {"Subscribing", "Live"} => s.subscribed

\* The public state tells the phase of the active session.
StateTellsPhase(k) ==
  /\ k.state \in {"Idle", "Resolving", "Backoff"} <=> k.active.phase = "None"
  /\ k.state \in {"Connecting", "TlsHandshake", "WsHandshake"} <=> k.active.phase = "Connecting"
  /\ k.state = "Authenticating" <=> k.active.phase = "Authenticating"
  /\ k.state = "Subscribing" <=> k.active.phase = "Subscribing"
  /\ IsLive(k) <=> k.active.phase = "Live"

\* A second session exists only next to a live one and is not live itself.
PendingSound(k) == k.pending.phase # "None" => k.active.phase = "Live" /\ k.pending.phase # "Live"

\* What each state waits for.
WaitsSound(c, k) ==
  /\ k.looking <=> k.state = "Resolving"
  /\ k.state = "Backoff" <=> "backoff" \in k.timers
  /\ k.active.phase \in {"Connecting", "Authenticating", "Subscribing"} => "connect" \in k.timers
  /\ k.pending.phase # "None" => "connect" \in k.timers
  /\ IsLive(k) => "health" \in k.timers
  /\ IsLive(k) /\ c.lifetime => k.pending.phase # "None" \/ "lifetime" \in k.timers

\* Idle, closed or never connected, nothing is left to wait for.
IdleSound(k) == /\ k.closed => k.state = "Idle"
                /\ k.state = "Idle" => k.timers = {}

Sound(c, k) ==
  /\ k \in ConnType
  /\ SessionSound(k.active) /\ SessionSound(k.pending)
  /\ StateTellsPhase(k) /\ PendingSound(k) /\ WaitsSound(c, k) /\ IdleSound(k)

\* The inductive invariant.
ConnInv == cfg \in Configs /\ Sound(cfg, conn)

-----------------------------------------------------------------------------
(***************************************************************************)
(* What the member functions do to a sound connection.                     *)
(***************************************************************************)

\* A session whose phase is not "None" is one that exists.
LEMMA HasPhase ==
  ASSUME NEW c, NEW k, Sound(c, k)
  PROVE  /\ Has(k, "active") <=> k.active.phase # "None"
         /\ Has(k, "pending") <=> k.pending.phase # "None"
  BY DEF Sound, SessionSound, Has, NoSession, ConnType, Session

LEMMA NoSessionSound ==
  NoSession \in Session /\ SessionSound(NoSession) /\ NoSession.phase = "None"
  BY DEF SessionSound, NoSession, Session

\* A lookup starts from a connection without session.
LEMMA StartResolveSound ==
  ASSUME NEW c, NEW k, Sound(c, k), k.state \in {"Idle", "Backoff"}
  PROVE  Sound(c, StartResolve([Disarm(k, {"backoff"}) EXCEPT !.closed = FALSE]))
  BY DEF Sound, StartResolve, SetState, Disarm, ConnType, States, StateTellsPhase, PendingSound,
         WaitsSound, IdleSound, IsLive, SessionSound, SessionTimers

\* A rollover's session that ends is tried again.
LEMMA EndPendingSound ==
  ASSUME NEW c, NEW k, Sound(c, k), Has(k, "pending")
  PROVE  Sound(c, OnSessionEnd(k, "pending"))
  BY ZenonT(30), HasPhase
  DEF Sound, OnSessionEnd, ScheduleRolloverRetry, Arm, ConnType, States, StateTellsPhase,
      PendingSound, WaitsSound, IdleSound, IsLive, SessionSound, SessionTimers, NoSession, Session

\* When the active session ends the rollover's takes over, whatever it has reached, or the
\* connection backs off.
LEMMA EndActiveSound ==
  ASSUME NEW c, NEW k, Sound(c, k), Has(k, "active")
  PROVE  Sound(c, OnSessionEnd(k, "active"))
<1> DEFINE n == OnSessionEnd(k, "active")
<1>1. k \in ConnType /\ k.active.phase # "None" /\ (Has(k, "pending") <=> k.pending.phase # "None")
  BY HasPhase DEF Sound
<1>2. CASE Has(k, "pending")
  <2>1. /\ n \in ConnType
        /\ n.state = StateOf(k.pending) /\ n.active = k.pending /\ n.pending = NoSession
        /\ n.timers = k.timers /\ n.looking = k.looking /\ n.closed = k.closed
    BY <1>1, <1>2, NoSessionSound DEF OnSessionEnd, ConnType, StateOf, States
  <2> HIDE DEF n
  <2>2. Sound(c, n)
    BY <1>1, <1>2, <2>1, NoSessionSound
    DEF Sound, StateOf, ConnType, Session, StateTellsPhase, PendingSound, WaitsSound, IdleSound,
        IsLive
  <2> QED BY <2>2 DEF n
<1>3. CASE ~Has(k, "pending")
  <2>1. /\ n \in ConnType
        /\ n.state = "Backoff" /\ n.active = NoSession /\ n.pending = k.pending
        /\ n.timers = (k.timers \ SessionTimers) \cup {"backoff"}
        /\ n.looking = k.looking /\ n.closed = k.closed
    BY <1>1, <1>3, NoSessionSound
    DEF OnSessionEnd, ScheduleBackoff, SetState, Arm, Disarm, ConnType, States, SessionTimers
  <2> HIDE DEF n
  <2>2. Sound(c, n)
    BY <1>1, <1>3, <2>1, NoSessionSound
    DEF Sound, ConnType, Session, StateTellsPhase, PendingSound, WaitsSound, IdleSound, IsLive,
        SessionTimers
  <2> QED BY <2>2 DEF n
<1> QED BY <1>2, <1>3

\* The end of a session forgets what it had reached.
LEMMA EndForgetsActive ==
  ASSUME NEW k \in ConnType, NEW s \in Session, s # NoSession, NEW st \in States,
         Has(k, "active"), ~Has(k, "pending")
  PROVE  OnSessionEnd([k EXCEPT !.active = s, !.state = st], "active") = OnSessionEnd(k, "active")
  BY DEF ConnType, Has, OnSessionEnd, ScheduleBackoff, SetState, Arm, Disarm

LEMMA EndForgetsPending ==
  ASSUME NEW k \in ConnType, NEW s \in Session, s # NoSession, Has(k, "pending")
  PROVE  OnSessionEnd([k EXCEPT !.pending = s], "pending") = OnSessionEnd(k, "pending")
  BY DEF ConnType, Has, OnSessionEnd, ScheduleRolloverRetry, Arm

\* The session that subscribed goes live, in the place of the other if it is a rollover's.
LEMMA EnterLiveSound ==
  ASSUME NEW k \in ConnType, ~k.looking, ~k.closed, "backoff" \notin k.timers, NEW who \in Slots,
         k[who].ws = "open", k[who].subscribed, who = "active" => k.pending = NoSession
  PROVE  Sound(cfg, EnterLive(k, who))
<1> DEFINE n == EnterLive(k, who)
           s == [k[who] EXCEPT !.phase = "Live"]
<1>1. s \in Session /\ SessionSound(s) /\ s.phase = "Live"
  BY DEF ConnType, Session, SessionSound, Slots
<1>2. /\ n \in ConnType /\ n.state = "Live" /\ n.active = s /\ n.pending = NoSession
      /\ "backoff" \notin n.timers /\ "health" \in n.timers /\ (cfg.lifetime => "lifetime" \in n.timers)
      /\ ~n.looking /\ ~n.closed
  <2> DEFINE l == Disarm([k EXCEPT ![who].phase = "Live"], {"connect"})
  <2>1. CASE who = "active"
    <3>1. l \in ConnType /\ l.active = s /\ l.pending = NoSession /\ ~l.looking /\ ~l.closed
          /\ "backoff" \notin l.timers
      BY <1>1, <2>1, NoSessionSound DEF Disarm, ConnType
    <3>2. n = ArmLiveTimers(SetState(l, "Live"))
      BY <2>1 DEF EnterLive
    <3> HIDE DEF l, n, s
    <3> QED BY <3>1, <3>2 DEF ArmLiveTimers, SetState, ConnType, SessionTimers, States
  <2>2. CASE who = "pending"
    <3>1. l \in ConnType /\ l.pending = s /\ ~l.looking /\ ~l.closed
          /\ "backoff" \notin l.timers
      BY <1>1, <2>2, NoSessionSound DEF Disarm, ConnType
    <3>2. n = ArmLiveTimers(SetState(PromotePending(l), "Live"))
      BY <2>2 DEF EnterLive
    <3> HIDE DEF l, n, s
    <3> QED
      BY <3>1, <3>2, NoSessionSound
      DEF PromotePending, ArmLiveTimers, SetState, ConnType, SessionTimers, States
  <2> QED BY <2>1, <2>2 DEF Slots
<1> HIDE DEF n, s
<1>3. Sound(cfg, n)
  BY <1>1, <1>2, NoSessionSound
  DEF Sound, StateTellsPhase, PendingSound, WaitsSound, IdleSound, IsLive
<1> QED BY <1>3 DEF n

\* A session that authenticated sends its subscriptions on itself and waits, goes live, or ends.
LEMMA EnterSubscribingSound ==
  ASSUME NEW k, Sound(cfg, k), NEW who \in Slots, NEW fails \in BOOLEAN,
         k[who].phase = "Authenticating", who = "active" => ~Has(k, "pending")
  PROVE  Sound(cfg, EnterSubscribing(k, who, fails))
<1> DEFINE e == [k EXCEPT ![who].phase = "Subscribing",
                          !.state = IF who = "active" THEN "Subscribing" ELSE @]
           f == [e EXCEPT ![who].subscribed = TRUE]
           s == [k[who] EXCEPT !.phase = "Subscribing"]
           t == [s EXCEPT !.subscribed = TRUE]
<1>1. /\ k \in ConnType
      /\ Has(k, "active") <=> k.active.phase # "None"
      /\ Has(k, "pending") <=> k.pending.phase # "None"
  BY HasPhase DEF Sound
<1>2. /\ s \in Session /\ t \in Session /\ s # NoSession /\ SessionSound(t)
      /\ s.phase = "Subscribing" /\ t.phase = "Subscribing" /\ t.subscribed /\ t.ws = "open"
  BY <1>1 DEF Sound, SessionSound, ConnType, Session, NoSession, Slots
<1>3. CASE who = "active"
  <2>1. k.pending = NoSession /\ ~k.looking /\ ~k.closed
    BY <1>1, <1>3 DEF Sound, WaitsSound, IdleSound, StateTellsPhase, IsLive, Has
  <2>2. e = [k EXCEPT !.active = s, !.state = "Subscribing"]
    BY <1>1, <1>3 DEF ConnType
  <2>3. f = [k EXCEPT !.active = t, !.state = "Subscribing"]
    BY <1>1, <1>3, <2>2 DEF ConnType
  <2>4. e \in ConnType /\ f \in ConnType /\ e.pending = NoSession
    BY <1>1, <1>2, <2>1, <2>2, <2>3 DEF ConnType, States
  <2>5. SendTarget(e) = who
    BY <1>3, <2>4 DEF SendTarget, Has
  <2>6. Sound(cfg, f)
    <3>1. /\ f.state = "Subscribing" /\ f.active = t /\ f.pending = NoSession
          /\ f.timers = k.timers /\ ~f.looking /\ ~f.closed
      BY <1>1, <2>1, <2>3 DEF ConnType
    <3>2. "connect" \in k.timers /\ "backoff" \notin k.timers
      BY <1>3 DEF Sound, WaitsSound, StateTellsPhase
    <3> HIDE DEF f, t
    <3> QED
      BY <1>2, <2>4, <3>1, <3>2, NoSessionSound
      DEF Sound, StateTellsPhase, PendingSound, WaitsSound, IdleSound, IsLive
  <2>7. Sound(cfg, OnSessionEnd(e, who))
    <3>1. OnSessionEnd(e, who) = OnSessionEnd(k, "active")
      BY <1>1, <1>2, <1>3, <2>1, <2>2, EndForgetsActive DEF Has, States
    <3> QED BY <1>1, <1>3, <3>1, EndActiveSound
  <2>8. Sound(cfg, EnterLive(f, who))
    <3>1. /\ f.active = t /\ f.pending = NoSession /\ ~f.looking /\ ~f.closed
          /\ "backoff" \notin f.timers
      BY <1>1, <1>3, <2>1, <2>3 DEF ConnType, Sound, WaitsSound, StateTellsPhase
    <3> HIDE DEF f, t
    <3> QED BY <1>2, <1>3, <2>4, <3>1, EnterLiveSound
  <2> HIDE DEF f
  <2> QED BY <2>5, <2>6, <2>7, <2>8 DEF EnterSubscribing, f
<1>4. CASE who = "pending"
  <2>1. k.active.phase = "Live" /\ ~k.looking /\ ~k.closed
    BY <1>1, <1>4 DEF Sound, WaitsSound, IdleSound, StateTellsPhase, PendingSound, IsLive
  <2>2. e = [k EXCEPT !.pending = s]
    BY <1>1, <1>4 DEF ConnType
  <2>3. f = [k EXCEPT !.pending = t]
    BY <1>1, <1>4, <2>2 DEF ConnType
  <2>4. e \in ConnType /\ f \in ConnType /\ e.pending = s
    BY ZenonT(30), <1>1, <1>2, <2>1, <2>2, <2>3 DEF ConnType, States
  <2>5. SendTarget(e) = who
    BY <1>2, <1>4, <2>4 DEF SendTarget, Has
  <2>6. Sound(cfg, f)
    BY ZenonT(30), <1>1, <1>2, <1>4, <2>1, <2>3, <2>4
    DEF Sound, ConnType, StateTellsPhase, PendingSound, WaitsSound, IdleSound, IsLive
  <2>7. Sound(cfg, OnSessionEnd(e, who))
    <3>1. OnSessionEnd(e, who) = OnSessionEnd(k, "pending")
      <4>1. Has(k, "pending")
        BY <1>1, <1>4
      <4>2. OnSessionEnd([k EXCEPT !.pending = s], "pending") = OnSessionEnd(k, "pending")
        <5> HIDE DEF s
        <5> QED BY <1>1, <1>2, <4>1, EndForgetsPending
      <4> QED BY <1>4, <2>2, <4>2
    <3> QED BY <1>1, <1>4, <3>1, EndPendingSound
  <2>8. Sound(cfg, EnterLive(f, who))
    <3>1. f.pending = t /\ ~f.looking /\ ~f.closed /\ "backoff" \notin f.timers
      BY <1>1, <2>1, <2>3 DEF ConnType, Sound, WaitsSound, StateTellsPhase
    <3> HIDE DEF f, t
    <3> QED BY <1>2, <1>4, <2>4, <3>1, EnterLiveSound
  <2> HIDE DEF f
  <2> QED BY <2>5, <2>6, <2>7, <2>8 DEF EnterSubscribing, f
<1> QED BY <1>3, <1>4 DEF Slots

\* A session whose upgrade is answered has to authenticate, or subscribes at once.
LEMMA OnSessionOpenSound ==
  ASSUME NEW k, Sound(cfg, k), NEW who \in Slots, NEW fails \in BOOLEAN, k[who].phase = "Connecting"
  PROVE  Sound(cfg, OnSessionOpen(k, who, fails))
<1> DEFINE s == [k[who] EXCEPT !.ws = "open", !.phase = "Authenticating"]
           o == TouchRx([k EXCEPT ![who].ws = "open", ![who].phase = "Authenticating",
                                  !.state = IF who = "active" THEN "Authenticating" ELSE @])
<1>1. k \in ConnType /\ (Has(k, "pending") <=> k.pending.phase # "None")
  BY HasPhase DEF Sound
<1>2. s \in Session /\ SessionSound(s) /\ s.phase = "Authenticating"
  BY <1>1 DEF ConnType, Session, SessionSound, Slots
<1>3. Sound(cfg, o) /\ o[who].phase = "Authenticating" /\ (who = "active" => ~Has(o, "pending"))
  <2>1. CASE who = "active"
    <3>1. k.pending.phase = "None"
      BY <1>1, <2>1 DEF Sound, PendingSound
    <3>2. /\ o \in ConnType /\ o.state = "Authenticating" /\ o.active = s /\ o.pending = k.pending
          /\ o.timers = k.timers /\ o.looking = k.looking /\ o.closed = k.closed
      BY <1>1, <1>2, <2>1 DEF TouchRx, ConnType, States
    <3>3. ~k.looking /\ ~k.closed /\ "connect" \in k.timers /\ "backoff" \notin k.timers
      BY <1>1, <2>1 DEF Sound, WaitsSound, IdleSound, StateTellsPhase, IsLive
    <3> HIDE DEF o, s
    <3> QED
      BY <1>1, <1>2, <2>1, <3>1, <3>2, <3>3
      DEF Sound, StateTellsPhase, PendingSound, WaitsSound, IdleSound, IsLive, Has
  <2>2. CASE who = "pending"
    <3>1. /\ o \in ConnType /\ o.state = k.state /\ o.active = k.active /\ o.pending = s
          /\ o.timers = k.timers /\ o.looking = k.looking /\ o.closed = k.closed
      BY <1>1, <1>2, <2>2 DEF TouchRx, ConnType, States
    <3>2. k.pending.phase = "Connecting"
      BY <2>2
    <3> HIDE DEF o, s
    <3> QED
      BY <1>1, <1>2, <2>2, <3>1, <3>2
      DEF Sound, StateTellsPhase, PendingSound, WaitsSound, IdleSound, IsLive, Has
  <2> QED BY <2>1, <2>2 DEF Slots
<1> HIDE DEF o
<1>4. Sound(cfg, EnterSubscribing(o, who, fails))
  BY <1>3, EnterSubscribingSound
<1> QED BY <1>3, <1>4 DEF OnSessionOpen, o

\* A socket that connects begins a session that the connect timer watches; one that is refused
\* backs off or, for a rollover, tries again.
LEMMA OpenSessionSound ==
  ASSUME NEW c, NEW k \in ConnType, SessionSound(k.active), SessionSound(k.pending), ~k.looking,
         ~k.closed, "backoff" \notin k.timers, NEW refused \in BOOLEAN
  PROVE  /\ k.active.phase = "None" /\ k.pending.phase = "None"
              => Sound(c, OpenSession(k, "active", refused))
         /\ Sound(c, Arm(k, "lifetime")) /\ IsLive(k) /\ k.pending.phase = "None"
              => Sound(c, OpenSession(k, "pending", refused))
<1>1. NewSession \in Session /\ SessionSound(NewSession) /\ NewSession.phase = "Connecting"
  BY DEF NewSession, Session, SessionSound
<1>2. ASSUME k.active.phase = "None", k.pending.phase = "None"
      PROVE  Sound(c, OpenSession(k, "active", refused))
  <2> DEFINE n == OpenSession(k, "active", refused)
  <2>1. CASE refused
    BY <1>2, <2>1
    DEF OpenSession, ScheduleBackoff, Arm, SetState, ConnType, States, SessionTimers, Sound,
        StateTellsPhase, PendingSound, WaitsSound, IdleSound, IsLive
  <2>2. CASE ~refused
    <3>1. /\ n \in ConnType /\ n.state = "Connecting" /\ n.active = NewSession
          /\ n.pending = k.pending /\ "connect" \in n.timers
          /\ "backoff" \notin n.timers /\ ~n.looking /\ ~n.closed
      BY <1>1, <1>2, <2>2 DEF OpenSession, Arm, ConnType, States, SessionTimers
    <3> HIDE DEF n
    <3>2. Sound(c, n)
      BY <1>1, <1>2, <3>1
      DEF Sound, StateTellsPhase, PendingSound, WaitsSound, IdleSound, IsLive
    <3> QED BY <3>2 DEF n
  <2> QED BY <2>1, <2>2
<1>3. ASSUME Sound(c, Arm(k, "lifetime")), IsLive(k), k.pending.phase = "None"
      PROVE  Sound(c, OpenSession(k, "pending", refused))
  <2> DEFINE n == OpenSession(k, "pending", refused)
  <2>1. CASE refused
    BY <1>3, <2>1 DEF OpenSession, ScheduleRolloverRetry
  <2>2. CASE ~refused
    <3>1. /\ n \in ConnType /\ n.state = k.state /\ n.active = k.active /\ n.pending = NewSession
          /\ n.timers = k.timers \cup {"connect"} /\ ~n.looking /\ ~n.closed
      BY <1>1, <2>2 DEF OpenSession, Arm, ConnType, States, SessionTimers
    <3>2. k.active.phase = "Live" /\ "health" \in k.timers
      BY <1>3 DEF Sound, Arm, StateTellsPhase, WaitsSound, IsLive, ConnType
    <3> HIDE DEF n
    <3>3. Sound(c, n)
      BY <1>1, <1>3, <3>1, <3>2
      DEF Sound, StateTellsPhase, PendingSound, WaitsSound, IdleSound, IsLive
    <3> QED BY <3>3 DEF n
  <2> QED BY <2>1, <2>2
<1> QED BY <1>2, <1>3

\* A change of what no wait depends on.
LEMMA QuietSound ==
  ASSUME NEW c, NEW k, Sound(c, k), NEW q \in {"fresh", "stale", "dead"}
  PROVE  Sound(c, [k EXCEPT !.quiet = q])
  BY DEF Sound, ConnType, StateTellsPhase, PendingSound, WaitsSound, IdleSound, IsLive

LEMMA OrphansSound ==
  ASSUME NEW c, NEW k, Sound(c, k), NEW o \in Nat
  PROVE  Sound(c, [k EXCEPT !.orphans = o])
  BY DEF Sound, ConnType, StateTellsPhase, PendingSound, WaitsSound, IdleSound, IsLive

-----------------------------------------------------------------------------
(***************************************************************************)
(* The invariant.                                                          *)
(***************************************************************************)

LEMMA ConnInit == Init => ConnInv
<1> SUFFICES ASSUME Init PROVE ConnInv
  OBVIOUS
<1>1. conn \in ConnType
  BY NoSessionSound DEF Init, ConnType, States, SessionTimers
<1> QED
  BY <1>1, NoSessionSound
  DEF Init, ConnInv, Sound, StateTellsPhase, PendingSound, WaitsSound, IdleSound, IsLive

LEMMA CallsKeepConnInv ==
  ASSUME ConnInv, Connect \/ Close
  PROVE  Sound(cfg, conn')
<1>1. CASE Connect
  <2>1. conn' = StartResolve([Disarm(conn, {"backoff"}) EXCEPT !.closed = FALSE])
    BY <1>1 DEF ConnInv, Sound, Connect, StartResolve, SetState, Disarm, ConnType, IdleSound
  <2> QED BY <1>1, <2>1, StartResolveSound DEF ConnInv, Connect
<1>2. CASE Close
  <2> DEFINE k == [conn EXCEPT !.closed = TRUE]
             t == Teardown(k)
  <2>1. k \in ConnType
    BY DEF ConnInv, Sound, ConnType
  <2>2. /\ t \in ConnType /\ t.active = NoSession /\ t.pending = NoSession
        /\ t.timers = {} /\ ~t.looking
    <3> HIDE DEF k
    <3> DEFINE d == Disarm(k, SessionTimers \cup {"backoff"})
               x == IF k.looking THEN d.orphans + 1 ELSE d.orphans
    <3>1. d \in ConnType /\ d.timers = {}
      BY <2>1 DEF Disarm, ConnType
    <3>2. x \in Nat
      <4> HIDE DEF d
      <4> QED BY <3>1 DEF ConnType
    <3>3. t = [d EXCEPT !.active = NoSession, !.pending = NoSession, !.orphans = x,
                        !.looking = FALSE]
      BY DEF Teardown
    <3> HIDE DEF d, t, x
    <3> QED BY <3>1, <3>2, <3>3, NoSessionSound DEF ConnType
  <2>3. conn' = SetState(t, "Idle")
    BY <1>2 DEF Close
  <2> HIDE DEF t
  <2>4. /\ conn' \in ConnType /\ conn'.state = "Idle" /\ conn'.active = NoSession
        /\ conn'.pending = NoSession /\ conn'.timers = {} /\ ~conn'.looking
    BY <2>2, <2>3 DEF SetState, ConnType, States
  <2> QED
    BY <2>4, NoSessionSound
    DEF Sound, StateTellsPhase, PendingSound, WaitsSound, IdleSound, IsLive
<1> QED BY <1>1, <1>2

LEMMA LookupsKeepConnInv ==
  ASSUME ConnInv, Resolved \/ OrphanResolved
  PROVE  Sound(cfg, conn')
<1>1. CASE Resolved
  <2> DEFINE k == [conn EXCEPT !.looking = FALSE]
  <2>1. /\ k \in ConnType /\ SessionSound(k.active) /\ SessionSound(k.pending)
        /\ ~k.looking /\ ~k.closed /\ k.active.phase = "None" /\ k.pending.phase = "None"
        /\ "backoff" \notin k.timers
    BY <1>1
    DEF Resolved, ConnInv, Sound, ConnType, WaitsSound, IdleSound, StateTellsPhase, PendingSound
  <2>2. conn' = OpenSession(k, "active", TRUE) \/ conn' = OpenSession(k, "active", FALSE)
    BY <1>1 DEF Resolved, OpenSession
  <2> HIDE DEF k
  <2> QED BY <2>1, <2>2, OpenSessionSound
<1>2. CASE OrphanResolved
  <2>1. conn.orphans \in Nat /\ conn.orphans > 0
    BY <1>2 DEF OrphanResolved, ConnInv, Sound, ConnType
  <2>2. conn' = [conn EXCEPT !.orphans = @ - 1]
    BY <1>2 DEF OrphanResolved, OrphanServed
  <2>3. conn.orphans - 1 \in Nat
    BY <2>1
  <2> QED BY <2>1, <2>2, <2>3, OrphansSound DEF ConnInv
<1> QED BY <1>1, <1>2

LEMMA PeersKeepConnInv ==
  ASSUME ConnInv, NEW who \in Slots, Progress(who) \/ Opened(who) \/ Message(who) \/ Ping(who)
                                     \/ Ended(who) \/ Hang(who)
  PROVE  Sound(cfg, conn')
<1>0. /\ conn \in ConnType /\ Sound(cfg, conn)
      /\ Has(conn, "active") <=> conn.active.phase # "None"
      /\ Has(conn, "pending") <=> conn.pending.phase # "None"
  BY HasPhase DEF ConnInv, Sound
<1>1. CASE Progress(who)
  <2>1. PICK w \in {"handshake", "upgrading"}, st \in {"TlsHandshake", "WsHandshake"} :
          conn' = [conn EXCEPT ![who].ws = w, !.state = IF who = "active" THEN st ELSE @]
    BY <1>1 DEF Progress
  <2>2. conn[who].ws \in {"connecting", "handshake"} /\ conn[who].phase = "Connecting"
    BY <1>0, <1>1
    DEF Progress, Responsive, Sound, SessionSound, Slots, ConnType, Session, Has, NoSession
  <2> DEFINE s == [conn[who] EXCEPT !.ws = w]
  <2>3. s \in Session /\ SessionSound(s) /\ s.phase = "Connecting"
    BY <1>0, <2>2 DEF ConnType, Session, SessionSound, Slots
  <2>4. CASE who = "active"
    <3>1. /\ conn' \in ConnType /\ conn'.state = st /\ conn'.active = s
          /\ conn'.pending = conn.pending
          /\ conn'.timers = conn.timers /\ conn'.looking = conn.looking
          /\ conn'.closed = conn.closed
      BY <1>0, <2>1, <2>3, <2>4 DEF ConnType, States
    <3>2. conn.active.phase = "Connecting"
      BY <2>2, <2>4
    <3> HIDE DEF s
    <3> QED
      BY <1>0, <2>3, <3>1, <3>2
      DEF Sound, StateTellsPhase, PendingSound, WaitsSound, IdleSound, IsLive
  <2>5. CASE who = "pending"
    <3>1. /\ conn' \in ConnType /\ conn'.state = conn.state /\ conn'.active = conn.active
          /\ conn'.pending = s /\ conn'.timers = conn.timers /\ conn'.looking = conn.looking
          /\ conn'.closed = conn.closed
      BY <1>0, <2>1, <2>3, <2>5 DEF ConnType, States
    <3>2. conn.pending.phase = "Connecting"
      BY <2>2, <2>5
    <3> HIDE DEF s
    <3> QED
      BY <1>0, <2>3, <3>1, <3>2
      DEF Sound, StateTellsPhase, PendingSound, WaitsSound, IdleSound, IsLive
  <2> QED BY <2>4, <2>5 DEF Slots
<1>2. CASE Opened(who)
  <2>1. conn[who].phase = "Connecting"
    BY <1>0, <1>2
    DEF Opened, Responsive, Sound, SessionSound, Slots, ConnType, Session, Has, NoSession
  <2> QED BY <1>0, <1>2, <2>1, OnSessionOpenSound DEF Opened
<1>3. CASE Message(who)
  <2>1. /\ conn' \in ConnType /\ conn'.active = conn.active /\ conn'.pending = conn.pending
        /\ conn'.timers = conn.timers /\ conn'.looking = conn.looking /\ conn'.closed = conn.closed
        /\ conn'.state = IF conn.state = "Stale" THEN "Live" ELSE conn.state
    BY <1>0, <1>3 DEF Message, TouchRx, ConnType, States
  <2> QED
    BY <1>0, <2>1 DEF Sound, StateTellsPhase, PendingSound, WaitsSound, IdleSound, IsLive
<1>4. CASE Ping(who)
  BY <1>0, <1>4, QuietSound DEF Ping, TouchRx
<1>5. CASE Ended(who)
  BY <1>0, <1>5, EndActiveSound, EndPendingSound DEF Ended, Slots
<1>6. CASE Hang(who)
  <2> DEFINE s == [conn[who] EXCEPT !.hung = TRUE]
  <2>1. Has(conn, who) /\ conn' = [conn EXCEPT ![who].hung = TRUE]
    BY <1>6 DEF Hang, Responsive
  <2>2. s \in Session /\ SessionSound(s) /\ s.phase = conn[who].phase
    BY <1>0, <2>1 DEF ConnType, Session, Sound, SessionSound, Slots, Has
  <2>3. CASE who = "active"
    <3>1. /\ conn' \in ConnType /\ conn'.state = conn.state /\ conn'.active = s
          /\ conn'.pending = conn.pending /\ conn'.timers = conn.timers
          /\ conn'.looking = conn.looking /\ conn'.closed = conn.closed
      BY <1>0, <2>1, <2>2, <2>3 DEF ConnType, States
    <3> HIDE DEF s
    <3> QED
      BY <1>0, <2>2, <2>3, <3>1
      DEF Sound, StateTellsPhase, PendingSound, WaitsSound, IdleSound, IsLive
  <2>4. CASE who = "pending"
    <3>1. /\ conn' \in ConnType /\ conn'.state = conn.state /\ conn'.active = conn.active
          /\ conn'.pending = s /\ conn'.timers = conn.timers /\ conn'.looking = conn.looking
          /\ conn'.closed = conn.closed
      BY <1>0, <2>1, <2>2, <2>4 DEF ConnType, States
    <3> HIDE DEF s
    <3> QED
      BY <1>0, <2>2, <2>4, <3>1
      DEF Sound, StateTellsPhase, PendingSound, WaitsSound, IdleSound, IsLive
  <2> QED BY <2>3, <2>4 DEF Slots
<1> QED BY <1>1, <1>2, <1>3, <1>4, <1>5, <1>6

LEMMA AnswersKeepConnInv ==
  ASSUME ConnInv, AuthDone \/ SubscribeDone \/ Quieter
  PROVE  Sound(cfg, conn')
<1> DEFINE who == Newest(conn)
           k == TouchRx(conn)
<1>0. conn \in ConnType /\ Sound(cfg, conn)
  BY DEF ConnInv, Sound
<1>1. /\ who \in Slots /\ (who = "active" => ~Has(conn, "pending"))
      /\ Has(conn, "pending") => who = "pending"
  BY DEF Newest, Slots
<1>2. /\ k \in ConnType /\ Sound(cfg, k) /\ k.active = conn.active /\ k.pending = conn.pending
      /\ k.looking = conn.looking /\ k.closed = conn.closed /\ k.timers = conn.timers
  BY <1>0, QuietSound DEF TouchRx, ConnType
<1>3. k[who] = conn[who] /\ (who = "active" => ~Has(k, "pending"))
  BY <1>1, <1>2 DEF Slots, Has
<1> HIDE DEF k, who
<1>4. CASE AuthDone
  <2>1. PICK fails \in BOOLEAN :
          conn[who].phase = "Authenticating" /\ conn' = EnterSubscribing(k, who, fails)
    BY <1>4 DEF AuthDone, who, k
  <2> QED BY <1>1, <1>2, <1>3, <2>1, EnterSubscribingSound
<1>5. CASE SubscribeDone
  <2>1. conn[who].phase = "Subscribing" /\ conn[who].subscribed /\ conn' = EnterLive(k, who)
    BY <1>5 DEF SubscribeDone, who, k
  <2>2. conn[who].ws = "open" /\ ~conn.looking /\ ~conn.closed /\ "backoff" \notin conn.timers
    BY <1>0, <1>1, <2>1
    DEF Slots, Sound, SessionSound, WaitsSound, IdleSound, StateTellsPhase, PendingSound, IsLive
  <2>3. who = "active" => k.pending = NoSession
    BY <1>3 DEF Has
  <2> QED BY <1>1, <1>2, <1>3, <2>1, <2>2, <2>3, EnterLiveSound
<1>6. CASE Quieter
  BY <1>0, <1>6, QuietSound DEF Quieter, ConnType
<1> QED BY <1>4, <1>5, <1>6

\* A timer that nothing waits for may go.
LEMMA DisarmSound ==
  ASSUME NEW c, NEW k, Sound(c, k), NEW t \in SessionTimers,
         t = "connect" => k.active.phase \in {"None", "Live"} /\ k.pending.phase = "None",
         t \in {"health", "lifetime"} => ~IsLive(k) \/ (t = "lifetime" /\ k.pending.phase # "None")
  PROVE  Sound(c, Disarm(k, {t}))
<1> DEFINE n == Disarm(k, {t})
<1>1. /\ n \in ConnType /\ n.state = k.state /\ n.active = k.active /\ n.pending = k.pending
      /\ n.timers = k.timers \ {t} /\ n.looking = k.looking /\ n.closed = k.closed
  BY DEF Sound, Disarm, ConnType
<1> HIDE DEF n
<1>2. Sound(c, n)
  BY <1>1
  DEF Sound, StateTellsPhase, PendingSound, WaitsSound, IdleSound, IsLive, SessionTimers, ConnType,
      Session
<1> QED BY <1>2 DEF n

\* A session that ends needs its timers no longer.
LEMMA EndDisarmed ==
  ASSUME NEW c, NEW k, Sound(c, k), NEW t \in {"connect", "health"}, NEW who \in Slots, Has(k, who),
         t = "connect" => who = Newest(k),
         t = "health" => who = "active"
  PROVE  Sound(c, OnSessionEnd(Disarm(k, {t}), who))
<1> DEFINE d == Disarm(k, {t})
           n == OnSessionEnd(d, who)
           o == OnSessionEnd(k, who)
<1>1. /\ k \in ConnType
      /\ Has(k, "active") <=> k.active.phase # "None"
      /\ Has(k, "pending") <=> k.pending.phase # "None"
  BY HasPhase DEF Sound
<1>2. Sound(c, o)
  BY EndActiveSound, EndPendingSound DEF Slots
<1>3. /\ d \in ConnType /\ d.state = k.state /\ d.active = k.active /\ d.pending = k.pending
      /\ d.timers = k.timers \ {t} /\ d.looking = k.looking /\ d.closed = k.closed
      /\ d.orphans = k.orphans /\ d.quiet = k.quiet
  BY <1>1 DEF Disarm, ConnType
<1> HIDE DEF d
<1>4. CASE who = "pending"
  <2>1. /\ n \in ConnType /\ n.state = k.state /\ n.active = k.active /\ n.pending = NoSession
        /\ n.timers = d.timers \cup {"lifetime"} /\ n.looking = k.looking /\ n.closed = k.closed
    BY <1>3, <1>4, NoSessionSound
    DEF OnSessionEnd, Has, ScheduleRolloverRetry, Arm, ConnType, SessionTimers
  <2>2. k.active.phase = "Live" /\ t = "connect"
    BY <1>1, <1>4 DEF Sound, PendingSound
  <2> HIDE DEF n
  <2>3. Sound(c, n)
    BY <1>3, <2>1, <2>2, NoSessionSound
    DEF Sound, StateTellsPhase, PendingSound, WaitsSound, IdleSound, IsLive
  <2> QED BY <2>3 DEF n, d
<1>5. CASE who = "active" /\ Has(k, "pending")
  <2>1. t = "health"
    BY <1>5 DEF Newest
  <2>2. /\ n \in ConnType /\ n.state = StateOf(k.pending) /\ n.active = k.pending
        /\ n.pending = NoSession /\ n.timers = d.timers /\ n.looking = k.looking
        /\ n.closed = k.closed
    BY <1>3, <1>5, NoSessionSound DEF OnSessionEnd, Has, ConnType, StateOf, States
  <2> HIDE DEF n
  <2>3. Sound(c, n)
    BY <1>1, <1>3, <1>5, <2>1, <2>2, NoSessionSound
    DEF Sound, StateOf, ConnType, Session, StateTellsPhase, PendingSound, WaitsSound, IdleSound,
        IsLive
  <2> QED BY <2>3 DEF n, d
<1>6. CASE who = "active" /\ ~Has(k, "pending")
  <2>1. n = o
    <3>1. d.timers \ SessionTimers = k.timers \ SessionTimers
      BY <1>3 DEF SessionTimers
    <3> DEFINE e == Disarm([d EXCEPT !.active = NoSession], SessionTimers)
               f == Disarm([k EXCEPT !.active = NoSession], SessionTimers)
    <3>2. e = f
      BY <1>1, <1>3, <3>1 DEF Disarm, ConnType
    <3>3. Has(d, "active") /\ ~Has(d, "pending") /\ Has(k, "active")
      BY <1>3, <1>6 DEF Has
    <3> QED BY <1>6, <3>2, <3>3 DEF OnSessionEnd
  <2> QED BY <1>2, <2>1 DEF d
<1> QED BY <1>4, <1>5, <1>6 DEF Slots

LEMMA TimersKeepConnInv ==
  ASSUME ConnInv, ConnectTimer \/ HealthTimer \/ HeartbeatTimer \/ LifetimeTimer \/ BackoffTimer
  PROVE  Sound(cfg, conn')
<1>0. /\ conn \in ConnType /\ Sound(cfg, conn)
      /\ Has(conn, "active") <=> conn.active.phase # "None"
      /\ Has(conn, "pending") <=> conn.pending.phase # "None"
  BY HasPhase DEF ConnInv, Sound
<1>1. CASE ConnectTimer
  <2> DEFINE who == Newest(conn)
  <2>1. who \in Slots
    BY DEF Newest, Slots
  <2>2. CASE Has(conn, who) /\ conn[who].phase # "Live"
    <3>1. conn' = OnSessionEnd(Disarm(conn, {"connect"}), who)
      BY <1>1, <2>2 DEF ConnectTimer
    <3> HIDE DEF who
    <3> QED BY <1>0, <2>1, <2>2, <3>1, EndDisarmed DEF who
  <2>3. CASE ~(Has(conn, who) /\ conn[who].phase # "Live")
    <3>1. conn' = Disarm(conn, {"connect"})
      BY <1>1, <2>3 DEF ConnectTimer
    <3>2. conn.active.phase \in {"None", "Live"} /\ conn.pending.phase = "None"
      BY <1>0, <2>3 DEF Newest, Sound, PendingSound
    <3> QED BY <1>0, <3>1, <3>2, DisarmSound DEF SessionTimers
  <2> QED BY <2>2, <2>3
<1>2. CASE HealthTimer
  <2>1. CASE ~IsLive(conn)
    BY <1>0, <1>2, <2>1, DisarmSound DEF HealthTimer, SessionTimers
  <2>2. CASE IsLive(conn) /\ conn.quiet = "dead"
    <3>1. Has(conn, "active")
      BY <1>0, <2>2 DEF Sound, StateTellsPhase
    <3>2. conn' = OnSessionEnd(Disarm(conn, {"health"}), "active")
      BY <1>2, <2>2 DEF HealthTimer
    <3> QED BY <1>0, <3>1, <3>2, EndDisarmed DEF Slots
  <2>3. CASE IsLive(conn) /\ conn.quiet # "dead"
    <3>1. conn' = [conn EXCEPT !.state = IF conn.quiet = "stale" THEN "Stale" ELSE @]
      BY <1>2, <2>3 DEF HealthTimer
    <3>2. /\ conn' \in ConnType /\ conn'.state \in {conn.state, "Stale"}
          /\ conn'.active = conn.active /\ conn'.pending = conn.pending
          /\ conn'.timers = conn.timers /\ conn'.looking = conn.looking
          /\ conn'.closed = conn.closed
      BY <1>0, <3>1 DEF ConnType, States
    <3> QED
      BY <1>0, <2>3, <3>2
      DEF Sound, StateTellsPhase, PendingSound, WaitsSound, IdleSound, IsLive
  <2> QED BY <2>1, <2>2, <2>3
<1>3. CASE HeartbeatTimer
  <2>1. CASE ~IsLive(conn)
    BY <1>0, <1>3, <2>1, DisarmSound DEF HeartbeatTimer, SessionTimers
  <2>2. CASE conn' = conn
    BY <1>0, <2>2
  <2>3. CASE IsLive(conn) /\ conn' = Arm(OnSessionEnd(conn, SendTarget(conn)), "heartbeat")
    <3> DEFINE n == OnSessionEnd(conn, SendTarget(conn))
    <3>1. Has(conn, "active")
      BY <1>0, <2>3 DEF Sound, StateTellsPhase
    <3>2. Sound(cfg, n) /\ n.state # "Idle"
      <4>1. SendTarget(conn) \in Slots /\ Has(conn, SendTarget(conn))
        BY <3>1 DEF SendTarget, Slots
      <4>2. Sound(cfg, n)
        BY <1>0, <4>1, EndActiveSound, EndPendingSound DEF Slots
      <4>3. n.state # "Idle"
        BY <1>0, <2>3, <4>1
        DEF Slots, OnSessionEnd, ScheduleRolloverRetry, ScheduleBackoff, StateOf, SetState, Arm,
            Disarm, ConnType, IsLive
      <4> QED BY <4>2, <4>3
    <3> HIDE DEF n
    <3>3. /\ conn' \in ConnType /\ conn'.state = n.state /\ conn'.active = n.active
          /\ conn'.pending = n.pending /\ conn'.timers = n.timers \cup {"heartbeat"}
          /\ conn'.looking = n.looking /\ conn'.closed = n.closed
      BY <2>3, <3>2 DEF Arm, Sound, ConnType, SessionTimers, n
    <3> QED
      BY <3>2, <3>3 DEF Sound, StateTellsPhase, PendingSound, WaitsSound, IdleSound, IsLive
  <2> QED BY <1>3, <2>1, <2>2, <2>3 DEF HeartbeatTimer
<1>4. CASE LifetimeTimer
  <2> DEFINE k == Disarm(conn, {"lifetime"})
  <2>1. CASE ~(IsLive(conn) /\ ~Has(conn, "pending"))
    <3>1. conn' = k
      BY <1>4, <2>1 DEF LifetimeTimer
    <3> QED BY <1>0, <2>1, <3>1, DisarmSound DEF SessionTimers
  <2>2. CASE IsLive(conn) /\ ~Has(conn, "pending")
    <3>1. PICK refused \in BOOLEAN :
            "lifetime" \in conn.timers /\ conn' = OpenSession(k, "pending", refused)
      BY <1>4, <2>2 DEF LifetimeTimer
    <3>2. /\ k \in ConnType /\ k.state = conn.state /\ k.active = conn.active
          /\ k.pending = conn.pending /\ k.looking = conn.looking /\ k.closed = conn.closed
          /\ k.timers = conn.timers \ {"lifetime"}
      BY <1>0 DEF Disarm, ConnType
    <3>3. Arm(k, "lifetime") = conn
      BY <1>0, <3>1 DEF Arm, Disarm, ConnType
    <3>4. ~k.looking /\ ~k.closed /\ IsLive(k) /\ k.pending.phase = "None"
          /\ SessionSound(k.active) /\ SessionSound(k.pending) /\ "backoff" \notin k.timers
      BY <1>0, <2>2, <3>2 DEF IsLive, Sound, WaitsSound, IdleSound
    <3> HIDE DEF k
    <3> QED BY <1>0, <3>1, <3>2, <3>3, <3>4, OpenSessionSound
  <2> QED BY <2>1, <2>2
<1>5. CASE BackoffTimer
  <2>1. ~conn.closed
    BY <1>0, <1>5 DEF BackoffTimer, Sound, IdleSound
  <2>2. conn.state = "Backoff"
    BY <1>0, <1>5 DEF BackoffTimer, Sound, WaitsSound
  <2>3. Disarm(conn, {"backoff"}) = [Disarm(conn, {"backoff"}) EXCEPT !.closed = FALSE]
    BY <1>0, <2>1 DEF Disarm, ConnType
  <2>4. conn' = StartResolve([Disarm(conn, {"backoff"}) EXCEPT !.closed = FALSE])
    BY <1>5, <2>1, <2>3 DEF BackoffTimer
  <2> QED BY <1>0, <2>2, <2>4, StartResolveSound
<1> QED BY <1>1, <1>2, <1>3, <1>4, <1>5

LEMMA ConnStep == ConnInv /\ [Next]_vars => ConnInv'
<1> SUFFICES ASSUME ConnInv, [Next]_vars PROVE ConnInv'
  OBVIOUS
<1>1. cfg' = cfg
  BY DEF Next, vars, Connect, Close, Resolved, OrphanResolved, AuthDone, SubscribeDone, Quieter,
         Progress, Opened, Message, Ping, Ended, Hang, ConnectTimer, HealthTimer, HeartbeatTimer,
         LifetimeTimer, BackoffTimer
<1>2. Sound(cfg, conn')
  <2>1. CASE UNCHANGED vars
    BY <2>1 DEF ConnInv, vars
  <2>2. CASE Connect \/ Close
    BY <2>2, CallsKeepConnInv
  <2>3. CASE Resolved \/ OrphanResolved
    BY <2>3, LookupsKeepConnInv
  <2>4. CASE AuthDone \/ SubscribeDone \/ Quieter
    BY <2>4, AnswersKeepConnInv
  <2>5. CASE \E who \in Slots : Progress(who) \/ Opened(who) \/ Message(who) \/ Ping(who)
                                \/ Ended(who) \/ Hang(who)
    BY <2>5, PeersKeepConnInv
  <2>6. CASE ConnectTimer \/ HealthTimer \/ HeartbeatTimer \/ LifetimeTimer \/ BackoffTimer
    BY <2>6, TimersKeepConnInv
  <2> QED BY <2>1, <2>2, <2>3, <2>4, <2>5, <2>6 DEF Next
<1> QED BY <1>1, <1>2 DEF ConnInv, Sound, WaitsSound, ConnType, StateTellsPhase, PendingSound,
                          IdleSound, IsLive, SessionSound

LEMMA ConnInvariant == Spec => []ConnInv
<1> QED BY ConnInit, ConnStep, PTL DEF Spec

-----------------------------------------------------------------------------
\* Whatever the connection waits for, something will end the wait, through every failure of either
\* session during a rollover and every early return of the timers' callbacks.
THEOREM ConnNeverWaitsForNothing == Spec => []NeverWaitsForNothing
<1>1. ConnInv => NeverWaitsForNothing
  <2> SUFFICES ASSUME ConnInv PROVE NeverWaitsForNothing
    OBVIOUS
  <2>1. /\ Has(conn, "active") <=> conn.active.phase # "None"
        /\ Has(conn, "pending") <=> conn.pending.phase # "None"
    BY HasPhase DEF ConnInv
  <2> QED
    BY <2>1
    DEF ConnInv, Sound, ConnType, States, NeverWaitsForNothing, StateTellsPhase, PendingSound,
        WaitsSound, IsLive
<1> QED BY <1>1, ConnInvariant, PTL

\* A live connection's subscriptions were sent on the very session that is live (send_target).
THEOREM ConnLiveIsSubscribed == Spec => []LiveIsSubscribed
<1>1. ConnInv => LiveIsSubscribed
  BY DEF ConnInv, Sound, LiveIsSubscribed, StateTellsPhase, SessionSound, IsLive
<1> QED BY <1>1, ConnInvariant, PTL

\* After close() no session, timer or lookup is left that could bring the connection back.
THEOREM ConnCloseIsFinal == Spec => []CloseIsFinal
<1>1. ConnInv => CloseIsFinal
  <2> SUFFICES ASSUME ConnInv, conn.closed
               PROVE  /\ conn.state = "Idle" /\ conn.timers = {} /\ ~conn.looking
                      /\ ~Has(conn, "active") /\ ~Has(conn, "pending")
    BY DEF CloseIsFinal, Slots
  <2>1. conn.state = "Idle" /\ conn.timers = {} /\ ~conn.looking /\ conn.active.phase = "None"
    BY DEF ConnInv, Sound, IdleSound, WaitsSound, StateTellsPhase
  <2>2. conn.pending.phase = "None"
    BY <2>1 DEF ConnInv, Sound, PendingSound
  <2> QED BY <2>1, <2>2, HasPhase DEF ConnInv
<1> QED BY <1>1, ConnInvariant, PTL

-----------------------------------------------------------------------------
(***************************************************************************)
(* Sessions follow each other.                                             *)
(***************************************************************************)

\* What the slot of the active session may hold after a step: what it held, the rollover's session,
\* nothing, or a session that has got further than a new one.
Follows(k, s) == s \in {k.active, k.pending} \/ s # NewSession

LEMMA EndFollows ==
  ASSUME NEW k \in ConnType, NEW who \in Slots
  PROVE  OnSessionEnd(k, who).active \in {k.active, k.pending, NoSession}
<1>1. CASE who = "active"
  BY <1>1
  DEF OnSessionEnd, ScheduleBackoff, SetState, Arm, Disarm, ConnType
<1>2. CASE who = "pending"
  BY <1>2 DEF OnSessionEnd, ScheduleRolloverRetry, Arm, ConnType
<1> QED BY <1>1, <1>2 DEF Slots

LEMMA NewIsNew ==
  /\ NoSession # NewSession
  /\ \A s \in Session : s.phase # "Connecting" \/ s.ws # "connecting" \/ s.hung => s # NewSession
  BY DEF NoSession, NewSession, Session

LEMMA EnterLiveFollows ==
  ASSUME NEW k \in ConnType, NEW who \in Slots
  PROVE  EnterLive(k, who).active # NewSession
<1> DEFINE l == Disarm([k EXCEPT ![who].phase = "Live"], {"connect"})
<1>1. CASE who = "active"
  <2>1. l \in ConnType /\ l.active.phase = "Live"
    BY <1>1 DEF Disarm, ConnType, Session
  <2>2. EnterLive(k, who) = ArmLiveTimers(SetState(l, "Live"))
    BY <1>1 DEF EnterLive
  <2> HIDE DEF l
  <2>3. EnterLive(k, who).active = l.active
    BY <2>1, <2>2 DEF ArmLiveTimers, SetState, ConnType
  <2> QED BY <2>1, <2>3, NewIsNew DEF ConnType
<1>2. CASE who = "pending"
  <2>1. l \in ConnType /\ l.pending.phase = "Live"
    BY <1>2 DEF Disarm, ConnType, Session
  <2>2. EnterLive(k, who) = ArmLiveTimers(SetState(PromotePending(l), "Live"))
    BY <1>2 DEF EnterLive
  <2> HIDE DEF l
  <2>3. EnterLive(k, who).active = l.pending
    BY <2>1, <2>2 DEF PromotePending, ArmLiveTimers, SetState, ConnType
  <2> QED BY <2>1, <2>3, NewIsNew DEF ConnType
<1> QED BY <1>1, <1>2 DEF Slots

LEMMA EnterSubscribingFollows ==
  ASSUME NEW k \in ConnType, NEW who \in Slots, NEW fails \in BOOLEAN
  PROVE  Follows(k, EnterSubscribing(k, who, fails).active)
<1> DEFINE e == [k EXCEPT ![who].phase = "Subscribing",
                          !.state = IF who = "active" THEN "Subscribing" ELSE @]
           target == SendTarget(e)
           f == [e EXCEPT ![target].subscribed = TRUE]
<1>1. /\ e \in ConnType /\ target \in Slots
      /\ \/ who = "active" /\ e.active.phase = "Subscribing" /\ e.pending = k.pending
         \/ who = "pending" /\ e.pending.phase = "Subscribing" /\ e.active = k.active
  <2>1. CASE who = "active"
    BY <2>1 DEF ConnType, Session, States, SendTarget, Slots
  <2>2. CASE who = "pending"
    BY <2>2 DEF ConnType, Session, States, SendTarget, Slots
  <2> QED BY <2>1, <2>2 DEF Slots
<1> HIDE DEF e, target
<1>2. /\ f \in ConnType /\ f.active.phase = e.active.phase /\ f.pending.phase = e.pending.phase
      /\ target = "pending" => f.active = e.active
      /\ target = "active" /\ e.active.phase = "Connecting" => f.active # NewSession
  <2>1. CASE target = "active"
    BY <1>1, <2>1 DEF ConnType, Session, NewSession
  <2>2. CASE target = "pending"
    BY <1>1, <2>2 DEF ConnType, Session
  <2> QED BY <1>1, <2>1, <2>2 DEF Slots
<1> HIDE DEF f
<1>3. Follows(k, e.active) /\ Follows(k, e.pending) /\ Follows(k, NoSession)
  BY <1>1, NewIsNew DEF Follows, ConnType
<1>4. Follows(k, f.active)
  <2>1. CASE target = "pending"
    BY <1>2, <1>3, <2>1
  <2>2. CASE target = "active" /\ e.active.phase # "Connecting"
    BY <1>1, <1>2, <2>2, NewIsNew DEF Follows, ConnType
  <2>3. CASE target = "active" /\ e.active.phase = "Connecting"
    BY <1>2, <2>3 DEF Follows
  <2> QED BY <1>1, <2>1, <2>2, <2>3 DEF Slots
<1>5. Follows(k, OnSessionEnd(e, target).active)
  BY <1>1, <1>3, EndFollows
<1>6. Follows(k, EnterLive(f, who).active)
  BY <1>2, EnterLiveFollows DEF Follows
<1>7. EnterSubscribing(k, who, fails) \in {OnSessionEnd(e, target), f, EnterLive(f, who)}
  BY DEF EnterSubscribing, e, f, target
<1> QED BY <1>4, <1>5, <1>6, <1>7

LEMMA FollowsStep ==
  ASSUME ConnInv, Next, Has(conn, "active")
  PROVE  Follows(conn, conn'.active)
<1>0. conn \in ConnType /\ Sound(cfg, conn) /\ conn.active.phase # "None"
  BY HasPhase DEF ConnInv, Sound
<1>t. TouchRx(conn) \in ConnType /\ TouchRx(conn).active = conn.active
      /\ TouchRx(conn).pending = conn.pending
  BY <1>0 DEF TouchRx, ConnType
<1>n. Newest(conn) \in Slots
  BY DEF Newest, Slots
<1>1. CASE Connect \/ OrphanResolved \/ Quieter
  BY <1>0, <1>1
  DEF Connect, OrphanResolved, OrphanServed, Quieter, StartResolve, SetState, ConnType, Follows
<1>2. CASE Close
  <2>1. conn'.active = NoSession
    BY <1>0, <1>2 DEF Close, Teardown, SetState, Disarm, ConnType
  <2> QED BY <2>1, NewIsNew DEF Follows
<1>3. CASE Resolved
  BY <1>0, <1>3 DEF Resolved, Sound, WaitsSound, StateTellsPhase
<1>4. CASE AuthDone
  <2>1. PICK fails \in BOOLEAN : conn' = EnterSubscribing(TouchRx(conn), Newest(conn), fails)
    BY <1>4 DEF AuthDone
  <2> QED BY <1>t, <1>n, <2>1, EnterSubscribingFollows DEF Follows
<1>5. CASE SubscribeDone
  <2>1. conn' = EnterLive(TouchRx(conn), Newest(conn))
    BY <1>5 DEF SubscribeDone
  <2> QED BY <1>t, <1>n, <2>1, EnterLiveFollows DEF Follows
<1>6. ASSUME NEW who \in Slots,
             Progress(who) \/ Opened(who) \/ Message(who) \/ Ping(who) \/ Ended(who) \/ Hang(who)
      PROVE  Follows(conn, conn'.active)
  <2>1. CASE Progress(who)
    <3>1. PICK w \in {"handshake", "upgrading"}, st \in {"TlsHandshake", "WsHandshake"} :
            conn' = [conn EXCEPT ![who].ws = w, !.state = IF who = "active" THEN st ELSE @]
      BY <2>1 DEF Progress
    <3>2. CASE who = "active"
      BY <1>0, <3>1, <3>2 DEF ConnType, Session, Follows, NewSession
    <3>3. CASE who = "pending"
      BY <1>0, <3>1, <3>3 DEF ConnType, Follows
    <3> QED BY <1>6, <3>2, <3>3 DEF Slots
  <2>2. CASE Opened(who)
    <3> DEFINE o == TouchRx([conn EXCEPT ![who].ws = "open", ![who].phase = "Authenticating",
                                         !.state = IF who = "active" THEN "Authenticating" ELSE @])
    <3>1. /\ o \in ConnType /\ Follows(conn, o.active) /\ Follows(conn, o.pending)
          /\ o.active = conn.active \/ o.active # NewSession
          /\ o.pending = conn.pending \/ o.pending # NewSession
      <4>1. CASE who = "active"
        BY <1>0, <4>1 DEF TouchRx, ConnType, Session, States, Follows, NewSession
      <4>2. CASE who = "pending"
        BY <1>0, <4>2 DEF TouchRx, ConnType, Session, States, Follows, NewSession
      <4> QED BY <1>6, <4>1, <4>2 DEF Slots
    <3>2. PICK fails \in BOOLEAN : conn' \in {o, EnterSubscribing(o, who, fails)}
      BY <2>2 DEF Opened, OnSessionOpen
    <3> HIDE DEF o
    <3>3. Follows(o, EnterSubscribing(o, who, fails).active)
      BY <1>6, <3>1, EnterSubscribingFollows
    <3> QED BY <3>1, <3>2, <3>3 DEF Follows
  <2>3. CASE Message(who) \/ Ping(who)
    BY <1>0, <2>3 DEF Message, Ping, TouchRx, ConnType, Follows
  <2>4. CASE Ended(who)
    BY <1>0, <1>6, <2>4, EndFollows, NewIsNew DEF Ended, Follows
  <2>5. CASE Hang(who)
    <3>1. CASE who = "active"
      BY <1>0, <2>5, <3>1 DEF Hang, ConnType, Session, Follows, NewSession
    <3>2. CASE who = "pending"
      BY <1>0, <2>5, <3>2 DEF Hang, ConnType, Follows
    <3> QED BY <1>6, <3>1, <3>2 DEF Slots
  <2> QED BY <1>6, <2>1, <2>2, <2>3, <2>4, <2>5
<1>7. CASE ConnectTimer \/ HealthTimer
  <2>1. ASSUME NEW t
        PROVE  /\ Disarm(conn, {t}) \in ConnType
               /\ Disarm(conn, {t}).active = conn.active /\ Disarm(conn, {t}).pending = conn.pending
    BY <1>0 DEF Disarm, ConnType
  <2>2. \/ \E t \in SessionTimers, who \in Slots :
             conn' \in {Disarm(conn, {t}), OnSessionEnd(Disarm(conn, {t}), who)}
        \/ conn' = [conn EXCEPT !.state = IF conn.quiet = "stale" THEN "Stale" ELSE @]
    BY <1>7, <1>n DEF ConnectTimer, HealthTimer, SessionTimers, Slots
  <2>3. CASE conn' = [conn EXCEPT !.state = IF conn.quiet = "stale" THEN "Stale" ELSE @]
    BY <1>0, <2>3 DEF ConnType, Follows
  <2> QED BY ZenonT(30), <2>1, <2>2, <2>3, EndFollows, NewIsNew DEF Follows
<1>8. CASE HeartbeatTimer
  <2>1. SendTarget(conn) \in Slots
    BY DEF SendTarget, Slots
  <2> DEFINE n == OnSessionEnd(conn, SendTarget(conn))
  <2>2. n \in ConnType /\ n.active \in {conn.active, conn.pending, NoSession}
    <3>1. Has(conn, SendTarget(conn))
      BY DEF SendTarget
    <3> QED BY <1>0, <2>1, <3>1, EndFollows, EndActiveSound, EndPendingSound DEF Slots, Sound
  <2>3. conn' \in {conn, Disarm(conn, {"heartbeat"}), Arm(n, "heartbeat")}
    BY <1>8 DEF HeartbeatTimer
  <2> HIDE DEF n
  <2>4. conn'.active \in {conn.active, n.active}
    BY <1>0, <2>2, <2>3 DEF Disarm, Arm, ConnType
  <2> QED BY <2>2, <2>4, NewIsNew DEF Follows
<1>9. CASE LifetimeTimer
  <2>1. Disarm(conn, {"lifetime"}) \in ConnType
        /\ Disarm(conn, {"lifetime"}).active = conn.active
    BY <1>0 DEF Disarm, ConnType
  <2>2. ASSUME NEW k \in ConnType, NEW refused \in BOOLEAN
        PROVE  OpenSession(k, "pending", refused).active = k.active
    BY DEF OpenSession, ScheduleRolloverRetry, Arm, ConnType
  <2> QED BY <1>9, <2>1, <2>2 DEF LifetimeTimer, Follows
<1>10. CASE BackoffTimer
  BY <1>0, <1>10 DEF BackoffTimer, StartResolve, SetState, Disarm, ConnType, Follows
<1> QED BY <1>1, <1>2, <1>3, <1>4, <1>5, <1>6, <1>7, <1>8, <1>9, <1>10 DEF Next

\* A session is never replaced by another before it has ended: a lookup that close() orphaned opens
\* nothing next to the one of the connection made since.
THEOREM ConnOneSessionAtATime == Spec => OneSessionAtATime
<1>1. ConnInv /\ [Next]_vars =>
        [Has(conn, "active") /\ conn'.active = NewSession
           => NewSession \in {conn.active, conn.pending}]_vars
  BY FollowsStep DEF Follows
<1> QED BY <1>1, ConnInvariant, PTL DEF Spec, OneSessionAtATime

-----------------------------------------------------------------------------
(***************************************************************************)
(* The byte ring.                                                          *)
(***************************************************************************)

(***************************************************************************)
(* Offsets: where a position lies in the ring.                             *)
(***************************************************************************)

LEMMA AtRange ==
  ASSUME NEW p \in Nat
  PROVE  At(p) \in Granules
  BY RingAssumption DEF At, Granules

LEMMA AtCombine ==
  ASSUME NEW d \in Nat, NEW r \in Granules
  PROVE  At(Cap * d + r) = r
  BY RingAssumption DEF At, Granules

LEMMA AtSplit ==
  ASSUME NEW p \in Nat
  PROVE  \E d \in Nat : p = Cap * d + At(p)
<1> DEFINE S == {n \in Nat : \E d \in Nat, r \in Granules : n = Cap * d + r}
<1>1. Cap \in Nat \ {0}
  BY RingAssumption
<1>2. 0 \in S
  <2>1. 0 \in Granules /\ 0 = Cap * 0 + 0
    BY <1>1 DEF Granules
  <2> QED BY <2>1
<1>3. ASSUME NEW n \in Nat, n \in S PROVE n + 1 \in S
  <2>1. PICK d \in Nat, r \in Granules : n = Cap * d + r
    BY <1>3
  <2>2. CASE r + 1 < Cap
    <3>1. r + 1 \in Granules /\ n + 1 = Cap * d + (r + 1)
      BY <1>1, <2>1, <2>2 DEF Granules
    <3> QED BY <3>1
  <2>3. CASE r + 1 = Cap
    <3>1. 0 \in Granules /\ d + 1 \in Nat /\ n + 1 = Cap * (d + 1) + 0
      BY <1>1, <2>1, <2>3 DEF Granules
    <3> QED BY <3>1
  <2> QED BY <1>1, <2>2, <2>3 DEF Granules
<1> HIDE DEF S
<1>4. p \in S
  BY <1>2, <1>3, NatSetInduction
<1> QED BY <1>4, AtCombine DEF S

\* Two positions less than the capacity apart lie at different offsets.
LEMMA AtInjective ==
  ASSUME NEW p \in Nat, NEW q \in Nat, p < q + Cap, q < p + Cap, At(p) = At(q)
  PROVE  p = q
<1>1. PICK a \in Nat : p = Cap * a + At(p)
  BY AtSplit
<1>2. PICK b \in Nat : q = Cap * b + At(q)
  BY AtSplit
<1>3. Cap \in Nat \ {0} /\ At(p) \in Nat
  BY RingAssumption, AtRange DEF Granules
<1>4. Cap * a < Cap * b + Cap /\ Cap * b < Cap * a + Cap
  BY <1>1, <1>2, <1>3
<1>5. a = b
  BY <1>3, <1>4
<1> QED BY <1>1, <1>2, <1>5

\* Padding leads to offset 0, and a message that needs none ends in the ring.
LEMMA PadFits ==
  ASSUME NEW t \in Nat, NEW n \in Lens
  PROVE  /\ PadFor(t, n) \in Nat /\ PadFor(t, n) < Cap
         /\ At(t + PadFor(t, n)) + n <= Cap
<1>1. Cap \in Nat \ {0} /\ At(t) \in Nat /\ At(t) < Cap /\ n \in Nat \ {0} /\ n <= Cap
  BY RingAssumption, AtRange DEF Granules
<1>2. CASE Cap - At(t) >= n
  <2>1. PadFor(t, n) = 0
    BY <1>1, <1>2 DEF PadFor
  <2> QED BY <1>1, <1>2, <2>1
<1>3. CASE Cap - At(t) < n
  <2>1. PadFor(t, n) = Cap - At(t)
    BY <1>3 DEF PadFor
  <2>2. At(t) # 0
    BY <1>1, <1>3
  <2>3. PICK d \in Nat : t = Cap * d + At(t)
    BY AtSplit
  <2>4. t + PadFor(t, n) = Cap * (d + 1) + 0 /\ d + 1 \in Nat /\ 0 \in Granules
    BY <1>1, <2>1, <2>3 DEF Granules
  <2>5. At(t + PadFor(t, n)) = 0
    BY <2>4, AtCombine
  <2> QED BY <1>1, <2>1, <2>2, <2>5
<1> QED BY <1>1, <1>2, <1>3

LEMMA MessageLen ==
  ASSUME NEW m \in Messages
  PROVE  /\ Len(m) \in Lens /\ Len(m) \in Nat \ {0} /\ m \in [1 .. Len(m) -> Words]
<1>1. PICK n \in Lens : m \in [1 .. n -> Words]
  BY DEF Messages
<1>2. n \in Nat \ {0}
  BY RingAssumption
<1>3. Len(m) = n
  BY <1>1, <1>2
<1> QED BY <1>1, <1>2, <1>3

-----------------------------------------------------------------------------
(***************************************************************************)
(* The inductive invariant.  The records between the head and the tail     *)
(* begin at the positions of a set B, in which each leads to the next by   *)
(* the length in its prefix; both copies of the tail are such positions.   *)
(***************************************************************************)

RingType ==
  /\ buf \in [Granules -> [len : Nat, word : Words \cup {Padding}]]
  /\ tail \in Nat /\ head \in Nat /\ headCache \in Nat /\ tailCache \in Nat
  /\ prod \in [step : {"idle", "trying", "filling"}, msg : Messages \cup {<<>>}, pos : Nat,
               filled : Nat]
  /\ held \in BOOLEAN

\* The message that begins at p, n granules long.
ReadAt(p, n) == [k \in 1 .. n |-> buf[At(p + k - 1)].word]

\* What the prefix at p says.
RecordAt(p) ==
  /\ buf[At(p)].len > 0
  /\ p + buf[At(p)].len <= tail
  /\ buf[At(p)].word # Padding => ReadAt(p, buf[At(p)].len) \in Messages

Marks(B) ==
  /\ head \in B /\ tailCache \in B /\ tail \in B
  /\ \A p \in B : p < tail =>
       /\ RecordAt(p) /\ p + buf[At(p)].len \in B
       /\ \A q \in B : q > p => q >= p + buf[At(p)].len

ProdSound ==
  /\ prod.step # "idle" => prod.msg \in Messages
  /\ prod.step # "filling" => prod.filled = 0
  /\ prod.step = "filling" =>
       LET pad == PadFor(tail, Len(prod.msg))
       IN  /\ prod.filled <= Len(prod.msg)
           /\ prod.pos = tail + pad
           /\ prod.pos + Len(prod.msg) - head <= Cap
           /\ pad > 0 => buf[At(tail)] = [len |-> pad, word |-> Padding]
           /\ \A k \in 1 .. prod.filled :
                buf[At(prod.pos + k - 1)] =
                  [len |-> IF k = 1 THEN Len(prod.msg) ELSE 0, word |-> prod.msg[k]]

RingInv ==
  /\ RingType /\ NoOverrun /\ ProdSound
  /\ held => head < tailCache /\ buf[At(head)].word # Padding
  /\ \E B \in SUBSET Nat : (\A p \in B : head <= p /\ p <= tail) /\ Marks(B)

-----------------------------------------------------------------------------
\* What is written at a free position leaves everything that is committed alone.
LEMMA FreeWrite ==
  ASSUME RingType, NEW x \in Nat, tail <= x, x < head + Cap, NEW c,
         buf' = [buf EXCEPT ![At(x)] = c]
  PROVE  /\ buf'[At(x)] = c
         /\ \A p \in Nat : head <= p /\ p < x => buf'[At(p)] = buf[At(p)]
<1>1. At(x) \in Granules
  BY AtRange
<1>2. ASSUME NEW p \in Nat, head <= p, p < x PROVE buf'[At(p)] = buf[At(p)]
  <2>1. p < x + Cap /\ x < p + Cap /\ p # x
    BY <1>2, RingAssumption DEF RingType
  <2>2. At(p) \in Granules /\ At(p) # At(x)
    BY <2>1, AtRange, AtInjective
  <2> QED BY <2>2 DEF RingType
<1> QED BY <1>1, <1>2 DEF RingType

\* The records stay where they are while what is committed does.
LEMMA MarksStay ==
  ASSUME RingType, RingType', UNCHANGED <<head, tail, tailCache>>,
         \A p \in Nat : head <= p /\ p < tail => buf'[At(p)] = buf[At(p)],
         \E B \in SUBSET Nat : (\A p \in B : head <= p /\ p <= tail) /\ Marks(B)
  PROVE  (\E B \in SUBSET Nat : (\A p \in B : head <= p /\ p <= tail) /\ Marks(B))'
<1>1. PICK B \in SUBSET Nat : (\A p \in B : head <= p /\ p <= tail) /\ Marks(B)
  OBVIOUS
<1>2. ASSUME NEW p \in B, p < tail
      PROVE  /\ buf'[At(p)] = buf[At(p)]
             /\ \A n \in Nat : p + n <= tail =>
                  [k \in 1 .. n |-> buf'[At(p + k - 1)].word] = ReadAt(p, n)
  BY <1>1, <1>2 DEF RingType, ReadAt
<1>3. Marks(B)'
  <2>1. ASSUME NEW p \in B, p < tail' PROVE RecordAt(p)'
    <3>1. buf[At(p)].len \in Nat
      BY <1>1, <2>1, AtRange DEF RingType
    <3> QED BY <1>1, <1>2, <2>1, <3>1 DEF Marks, RecordAt, ReadAt
  <2> QED BY <1>1, <1>2, <2>1 DEF Marks
<1> QED BY <1>1, <1>3

LEMMA RingInitInv == RingInit => RingInv
<1> SUFFICES ASSUME RingInit PROVE RingInv
  OBVIOUS
<1>1. RingType
  BY RingAssumption DEF RingInit, RingType, Raw, Idle
<1>2. NoOverrun /\ ProdSound /\ ~held
  BY RingAssumption DEF RingInit, NoOverrun, ProdSound, Idle
<1>3. (\A p \in {0} : head <= p /\ p <= tail) /\ Marks({0})
  BY DEF RingInit, Marks
<1> QED BY <1>1, <1>2, <1>3 DEF RingInv

LEMMA OfferInv ==
  ASSUME RingInv, NEW m \in Messages, Offer(m)
  PROVE  RingInv'
<1>1. prod' = [Idle EXCEPT !.step = "trying", !.msg = m]
      /\ UNCHANGED <<buf, tail, head, headCache, tailCache, held>>
  BY DEF Offer
<1>2. RingType' /\ prod'.step = "trying" /\ prod'.msg = m /\ prod'.filled = 0
  BY <1>1 DEF RingInv, RingType, Idle
<1>3. NoOverrun' /\ ProdSound'
  BY <1>1, <1>2 DEF RingInv, NoOverrun, ProdSound
<1>4. (\E B \in SUBSET Nat : (\A p \in B : head <= p /\ p <= tail) /\ Marks(B))'
  BY <1>1, <1>2, MarksStay DEF RingInv
<1> QED BY <1>1, <1>2, <1>3, <1>4 DEF RingInv

LEMMA TryReserveInv ==
  ASSUME RingInv, TryReserve
  PROVE  RingInv'
<1> DEFINE n == Len(prod.msg)
           pad == PadFor(tail, n)
<1>1. /\ RingType /\ NoOverrun /\ ProdSound /\ prod.step = "trying"
      /\ UNCHANGED <<tail, head, tailCache, held>> /\ Cap \in Nat \ {0}
      /\ tail \in Nat /\ head \in Nat /\ headCache \in Nat /\ tailCache \in Nat
  BY RingAssumption DEF RingInv, TryReserve, RingType
<1>2. n \in Lens /\ n \in Nat \ {0} /\ pad \in Nat /\ pad < Cap
  BY <1>1, MessageLen, PadFits DEF ProdSound, RingType
<1> HIDE DEF n
<1>3. /\ headCache' \in Nat /\ headCache' <= head
      /\ tail + pad + n <= headCache' + Cap
  <2>1. Renewed \in Nat /\ Renewed <= head
    BY <1>1 DEF Renewed, RingType, NoOverrun
  <2>2. tail + (pad + n) - Renewed <= Cap /\ headCache' = Renewed
    BY DEF TryReserve, Fits, Need, n
  <2> HIDE DEF pad
  <2> QED BY <1>1, <1>2, <2>1, <2>2
<1> HIDE DEF pad
<1>4. tail + pad + n <= head + Cap
  <2>1. tail \in Nat /\ head \in Nat /\ Cap \in Nat
    BY <1>1
  <2>2. ASSUME NEW a \in Nat, NEW b \in Nat, NEW c \in Nat, NEW h \in Nat, NEW i \in Nat,
               a + b + c <= h + Cap, h <= i
        PROVE  a + b + c <= i + Cap
    BY <2>1, <2>2
  <2> QED BY <1>2, <1>3, <2>1, <2>2
<1>5. /\ buf' \in [Granules -> [len : Nat, word : Words \cup {Padding}]]
      /\ pad > 0 => buf'[At(tail)] = [len |-> pad, word |-> Padding]
      /\ \A p \in Nat : head <= p /\ p < tail => buf'[At(p)] = buf[At(p)]
  <2>1. CASE pad = 0
    BY <1>1, <2>1 DEF TryReserve, RingType, n, pad
  <2>2. CASE pad > 0
    <3> DEFINE c == [len |-> pad, word |-> Padding]
    <3>1. buf' = [buf EXCEPT ![At(tail)] = c]
      BY <2>2 DEF TryReserve, n, pad
    <3>2. tail \in Nat /\ tail <= tail /\ tail < head + Cap /\ At(tail) \in Granules
      BY <1>1, <1>2, <1>4, AtRange
    <3>3. c \in [len : Nat, word : Words \cup {Padding}]
      BY <1>2
    <3> HIDE DEF c
    <3>4. /\ buf'[At(tail)] = c
          /\ \A p \in Nat : head <= p /\ p < tail => buf'[At(p)] = buf[At(p)]
      BY <1>1, <3>1, <3>2, FreeWrite
    <3> QED BY <1>1, <3>1, <3>2, <3>3, <3>4 DEF RingType, c
  <2> QED BY <1>2, <2>1, <2>2
<1>6. prod' = [prod EXCEPT !.step = "filling", !.pos = tail + pad]
  BY DEF TryReserve, n, pad
<1>7. /\ prod'.step = "filling" /\ prod'.msg = prod.msg /\ prod'.pos = tail + pad
      /\ prod'.filled = prod.filled
      /\ RingType'
  <2>1. tail + pad \in Nat
    BY <1>1, <1>2
  <2> QED BY <1>1, <1>3, <1>5, <1>6, <2>1 DEF RingType
<1>8. NoOverrun'
  BY <1>1, <1>2, <1>3, <1>4, <1>7 DEF NoOverrun, RingType, n
<1>9. ProdSound'
  <2>1. prod.filled = 0
    BY <1>1 DEF ProdSound
  <2> QED BY <1>1, <1>2, <1>4, <1>5, <1>7, <2>1 DEF ProdSound, RingType, n, pad
<1>10. (\E B \in SUBSET Nat : (\A p \in B : head <= p /\ p <= tail) /\ Marks(B))'
  BY <1>1, <1>5, <1>7, MarksStay DEF RingInv
<1>11. held => head < tailCache /\ buf'[At(head)].word # Padding
  <2>1. held => head < tail
    BY <1>1 DEF RingInv, NoOverrun
  <2> QED BY <1>1, <1>5, <2>1 DEF RingInv
<1> QED BY <1>1, <1>7, <1>8, <1>9, <1>10, <1>11 DEF RingInv

LEMMA TryReserveFullInv ==
  ASSUME RingInv, TryReserveFull
  PROVE  RingInv'
<1>1. /\ RingType /\ NoOverrun /\ ProdSound /\ prod.step = "trying" /\ prod' \in {prod, Idle}
      /\ UNCHANGED <<buf, tail, head, tailCache, held>> /\ headCache' = Renewed
  BY DEF RingInv, TryReserveFull
<1>2. headCache' \in Nat /\ headCache' <= head
  BY <1>1 DEF Renewed, RingType, NoOverrun
<1>3. RingType' /\ prod'.step # "filling" /\ prod'.filled = 0
      /\ (prod'.step # "idle" => prod'.msg \in Messages)
  BY <1>1, <1>2 DEF RingType, Idle, ProdSound
<1>4. NoOverrun' /\ ProdSound'
  BY <1>1, <1>2, <1>3 DEF NoOverrun, ProdSound
<1>5. (\E B \in SUBSET Nat : (\A p \in B : head <= p /\ p <= tail) /\ Marks(B))'
  BY <1>1, <1>3, MarksStay DEF RingInv
<1> QED BY <1>1, <1>3, <1>4, <1>5 DEF RingInv

LEMMA FillInv ==
  ASSUME RingInv, Fill
  PROVE  RingInv'
<1>1. PICK n \in Nat : n = Len(prod.msg) /\ n \in Lens /\ n # 0 /\ prod.msg \in [1 .. n -> Words]
  BY MessageLen DEF RingInv, ProdSound, Fill
<1>2. PICK pad \in Nat : pad = PadFor(tail, n)
  BY <1>1, PadFits DEF RingInv, RingType
<1>3. PICK k \in Nat, pos \in Nat : k = prod.filled + 1 /\ pos = prod.pos /\ k <= n /\ k > 0
  BY <1>1 DEF RingInv, RingType, Fill
<1> DEFINE c == [len |-> IF k = 1 THEN n ELSE 0, word |-> prod.msg[k]]
<1>4. /\ RingType /\ NoOverrun /\ ProdSound /\ prod.step = "filling" /\ Cap \in Nat \ {0}
      /\ tail \in Nat /\ head \in Nat /\ head <= tail
      /\ UNCHANGED <<tail, head, headCache, tailCache, held>>
      /\ prod' = [prod EXCEPT !.filled = k]
      /\ pos = tail + pad /\ pos + n - head <= Cap
  <2>1. head <= tail
    BY DEF RingInv, NoOverrun, RingType
  <2> QED BY <1>1, <1>2, <1>3, <2>1, RingAssumption DEF RingInv, Fill, RingType, ProdSound
<1>x. PICK x \in Nat : x = pos + k - 1 /\ tail <= x /\ x < head + Cap /\ x >= pos
  <2>1. tail \in Nat /\ head \in Nat /\ Cap \in Nat /\ pos = tail + pad /\ pos + n - head <= Cap
    BY <1>4
  <2>2. pos + k - 1 \in Nat /\ tail <= pos + k - 1 /\ pos + k - 1 < head + Cap /\ pos + k - 1 >= pos
    BY <1>3, <2>1
  <2> QED BY <2>2
<1>b. buf' = [buf EXCEPT ![At(x)] = c]
  BY <1>1, <1>3, <1>x DEF Fill
<1>5. c \in [len : Nat, word : Words \cup {Padding}]
  <2>1. prod.msg[k] \in Words
    BY <1>1, <1>3
  <2> QED BY <1>1, <2>1
<1>6. /\ buf' \in [Granules -> [len : Nat, word : Words \cup {Padding}]]
      /\ buf'[At(x)] = c
      /\ \A p \in Nat : head <= p /\ p < x => buf'[At(p)] = buf[At(p)]
  <2> HIDE DEF c
  <2>1. At(x) \in Granules
    BY AtRange
  <2>2. buf' \in [Granules -> [len : Nat, word : Words \cup {Padding}]]
    BY <1>4, <1>b, <1>5, <2>1 DEF RingType
  <2>3. RingType /\ tail <= x /\ x < head + Cap
    BY <1>4, <1>x
  <2> QED BY <1>b, <2>2, <2>3, FreeWrite
<1>7. /\ prod'.step = "filling" /\ prod'.msg = prod.msg /\ prod'.pos = prod.pos
      /\ prod'.filled = k
      /\ RingType'
  BY <1>4, <1>6 DEF RingType
<1>8. NoOverrun'
  BY <1>4, <1>7 DEF NoOverrun
<1>9. ProdSound'
  <2>1. ASSUME NEW j \in 1 .. k
        PROVE  buf'[At(pos + j - 1)] = [len |-> IF j = 1 THEN n ELSE 0, word |-> prod.msg[j]]
    <3>1. CASE j = k
      BY <1>x, <1>6, <3>1
    <3>2. CASE j # k
      <4>1. j \in 1 .. prod.filled
        BY <1>3, <3>2 DEF RingInv, RingType
      <4>2. buf[At(pos + j - 1)] = [len |-> IF j = 1 THEN n ELSE 0, word |-> prod.msg[j]]
        BY <1>1, <1>3, <1>4, <4>1 DEF ProdSound
      <4>3. /\ pos + j - 1 \in Nat /\ head <= pos + j - 1 /\ pos + j - 1 < x
        BY <1>2, <1>3, <1>4, <1>x, <3>2
      <4> QED BY <1>6, <4>2, <4>3
    <3> QED BY <3>1, <3>2
  <2>2. pad > 0 => buf'[At(tail)] = [len |-> pad, word |-> Padding]
    <3>1. SUFFICES ASSUME pad > 0 PROVE buf'[At(tail)] = buf[At(tail)]
      BY <1>1, <1>2, <1>4 DEF ProdSound
    <3>2. tail < x
      BY <1>2, <1>4, <1>x, <3>1
    <3> QED BY <1>4, <1>6, <3>2
  <2> QED BY SMTT(30), <1>1, <1>2, <1>3, <1>4, <1>7, <2>1, <2>2 DEF ProdSound
<1>10. (\E B \in SUBSET Nat : (\A p \in B : head <= p /\ p <= tail) /\ Marks(B))'
  <2>1. \A p \in Nat : head <= p /\ p < tail => buf'[At(p)] = buf[At(p)]
    BY <1>4, <1>x, <1>6
  <2> QED BY <1>4, <1>7, <2>1, MarksStay DEF RingInv
<1>11. held => head < tailCache /\ buf'[At(head)].word # Padding
  <2>1. held => head < tailCache /\ tailCache <= tail /\ tailCache \in Nat
    BY DEF RingInv, NoOverrun, RingType
  <2>2. held => head < x
    BY <1>4, <1>x, <2>1
  <2> QED BY <1>4, <1>6, <2>2 DEF RingInv
<1> QED BY <1>4, <1>7, <1>8, <1>9, <1>10, <1>11 DEF RingInv

LEMMA CommitInv ==
  ASSUME RingInv, Commit
  PROVE  RingInv'
<1>1. PICK n \in Nat : n = Len(prod.msg) /\ n \in Lens /\ n # 0 /\ prod.msg \in [1 .. n -> Words]
                       /\ prod.msg \in Messages
  BY MessageLen DEF RingInv, ProdSound, Commit
<1>2. PICK pad \in Nat : pad = PadFor(tail, n)
  BY <1>1, PadFits DEF RingInv, RingType
<1>3. PICK pos \in Nat : pos = prod.pos /\ pos = tail + pad /\ pos + n - head <= Cap
  BY <1>1, <1>2 DEF RingInv, RingType, Commit, ProdSound
<1>4. /\ RingType /\ NoOverrun /\ ProdSound /\ Cap \in Nat
      /\ tail \in Nat /\ head \in Nat /\ headCache \in Nat /\ tailCache \in Nat
      /\ headCache <= head /\ head <= tailCache /\ tailCache <= tail
      /\ prod' = Idle /\ UNCHANGED <<buf, head, headCache, tailCache, held>>
  BY RingAssumption DEF RingInv, Commit, RingType, NoOverrun
<1>5. tail' = pos + n /\ tail' \in Nat /\ tail' > tail /\ tail' - head <= Cap /\ tailCache <= tail'
  <2>1. tail' = pos + n
    BY <1>1, <1>3 DEF Commit
  <2>2. /\ n \in Nat /\ n > 0 /\ pos \in Nat /\ pad \in Nat /\ pos = tail + pad /\ pos + n - head <= Cap
        /\ tail \in Nat /\ head \in Nat /\ tailCache \in Nat /\ tailCache <= tail /\ Cap \in Nat
    BY <1>1, <1>2, <1>3, <1>4
  <2> QED BY <2>1, <2>2
<1>a. /\ tail \in Nat /\ head \in Nat /\ n > 0 /\ pos = tail + pad
      /\ tail' = pos + n /\ tail' \in Nat /\ head <= tail
  <2>1. head \in Nat /\ tail \in Nat /\ tailCache \in Nat /\ head <= tailCache /\ tailCache <= tail
    BY <1>4
  <2>2. n > 0 /\ pos = tail + pad /\ tail' = pos + n /\ tail' \in Nat
    BY <1>1, <1>3, <1>5
  <2> QED BY <2>1, <2>2
<1>6. RingType' /\ NoOverrun' /\ ProdSound'
  <2>1. RingType' /\ prod'.step = "idle" /\ prod'.filled = 0
    BY <1>4, <1>5 DEF RingType, Idle
  <2> QED BY <1>4, <1>5, <2>1 DEF NoOverrun, ProdSound
<1>7. /\ pad > 0 => buf[At(tail)] = [len |-> pad, word |-> Padding]
      /\ \A k \in 1 .. n : buf[At(pos + k - 1)] =
                             [len |-> IF k = 1 THEN n ELSE 0, word |-> prod.msg[k]]
  BY <1>1, <1>2, <1>3 DEF RingInv, ProdSound, Commit
<1>8. buf[At(pos)] = [len |-> n, word |-> prod.msg[1]] /\ prod.msg[1] \in Words
  <2>1. 1 \in 1 .. n /\ pos + 1 - 1 = pos
    BY <1>1
  <2> QED BY <1>1, <1>7, <2>1
<1>9. ReadAt(pos, n) = prod.msg
  <2>1. ASSUME NEW k \in 1 .. n PROVE buf[At(pos + k - 1)].word = prod.msg[k]
    <3>1. buf[At(pos + k - 1)] = [len |-> IF k = 1 THEN n ELSE 0, word |-> prod.msg[k]]
      BY <1>7
    <3> QED BY <3>1
  <2> QED BY <1>1, <2>1 DEF ReadAt
<1>10. PICK B \in SUBSET Nat : (\A p \in B : head <= p /\ p <= tail) /\ Marks(B)
  BY DEF RingInv
<1> DEFINE C == B \cup {pos, pos + n}
<1>11. C \in SUBSET Nat /\ \A p \in C : head <= p /\ p <= tail'
  BY <1>a, <1>10
<1>12. ASSUME NEW p \in C, p < tail'
       PROVE  /\ RecordAt(p)' /\ p + buf[At(p)].len \in C
              /\ \A q \in C : q > p => q >= p + buf[At(p)].len
  <2>1. CASE p \in B /\ p < tail
    <3>1. RecordAt(p) /\ p + buf[At(p)].len \in B
          /\ \A q \in B : q > p => q >= p + buf[At(p)].len
      BY <1>10, <2>1 DEF Marks
    <3>2. buf[At(p)].len \in Nat
      BY <1>4, <1>10, <2>1, AtRange DEF RingType
    <3>3. p + buf[At(p)].len <= tail
      BY <3>1 DEF RecordAt
    <3>4. RecordAt(p)'
      <4>1. buf' = buf /\ tail \in Nat /\ tail' \in Nat /\ tail' > tail
        BY <1>4, <1>5
      <4>p. p \in Nat
        BY <1>10, <2>1
      <4>2. p + buf[At(p)].len <= tail'
        BY <3>2, <3>3, <4>1, <4>p
      <4> QED BY <3>1, <4>1, <4>2 DEF RecordAt, ReadAt
    <3>5. pos >= p + buf[At(p)].len /\ pos + n >= p + buf[At(p)].len
      <4>1. p \in Nat
        BY <1>10, <2>1
      <4>2. pos >= tail /\ pos + n >= tail /\ tail \in Nat
        BY <1>a
      <4> QED BY <3>2, <3>3, <4>1, <4>2
    <3> QED BY <3>1, <3>4, <3>5
  <2>2. CASE p = tail /\ pad > 0
    <3>1. buf[At(p)].len = pad /\ buf[At(p)].word = Padding
      BY <1>7, <2>2
    <3>2. p + pad = pos /\ pos <= tail' /\ pos \in C
      BY <1>a, <2>2
    <3>3. RecordAt(p)'
      BY <1>4, <2>2, <3>1, <3>2 DEF RecordAt
    <3>4. \A q \in C : q > p => q >= pos
      BY <1>a, <1>10, <2>2
    <3> QED BY <3>1, <3>2, <3>3, <3>4
  <2>3. CASE p = pos
    <3>1. buf[At(p)].len = n /\ buf[At(p)].word \in Words /\ buf[At(p)].word # Padding
      BY <1>8, <2>3, RingAssumption
    <3>2. p + n = tail' /\ pos + n \in C
      BY <1>5, <2>3
    <3>3. RecordAt(p)'
      BY <1>1, <1>4, <1>5, <1>9, <2>3, <3>1, <3>2 DEF RecordAt, ReadAt
    <3>4. \A q \in C : q > p => q >= pos + n
      BY <1>a, <1>10, <2>3
    <3> QED BY <2>3, <3>1, <3>2, <3>3, <3>4
  <2>4. p \in B => p < tail \/ p = tail
    BY <1>4, <1>10
  <2>5. p = pos + n => FALSE
    BY <1>3, <1>5, <1>12
  <2>6. p = tail /\ ~(pad > 0) => p = pos
    BY <1>2, <1>3, <1>4
  <2> QED BY <1>12, <2>1, <2>2, <2>3, <2>4, <2>5, <2>6
<1>13. Marks(C)'
  <2>1. head \in C /\ tailCache \in C /\ tail' \in C
    BY <1>5, <1>10 DEF Marks
  <2> QED BY <1>4, <1>12, <2>1 DEF Marks
<1>14. held => head < tailCache /\ buf[At(head)].word # Padding
  BY DEF RingInv
<1> QED BY <1>4, <1>6, <1>11, <1>13, <1>14 DEF RingInv

\* The consumer moves from one record to the next, not past its copy of the tail.
LEMMA ConsumerInv ==
  ASSUME RingInv, UNCHANGED <<buf, tail, headCache, prod>>, tailCache' \in {tail, tailCache},
         head < tailCache', head' \in {head, head + buf[At(head)].len}, held' \in BOOLEAN,
         held' => head' = head /\ buf[At(head)].word # Padding
  PROVE  RingInv'
<1>1. /\ RingType /\ NoOverrun /\ ProdSound /\ Cap \in Nat
      /\ tail \in Nat /\ head \in Nat /\ headCache \in Nat /\ tailCache \in Nat
      /\ headCache <= head /\ head <= tailCache /\ tailCache <= tail /\ tail - head <= Cap
  BY RingAssumption DEF RingInv, RingType, NoOverrun
<1>2. PICK B \in SUBSET Nat : (\A p \in B : head <= p /\ p <= tail) /\ Marks(B)
  BY DEF RingInv
<1>3. PICK t \in Nat : t = tailCache' /\ t \in B /\ head < t /\ t <= tail
  BY <1>1, <1>2 DEF Marks
<1>4. PICK n \in Nat : n = buf[At(head)].len /\ n > 0 /\ head + n \in B /\ head + n <= t
  <2>1. buf[At(head)].len \in Nat
    BY <1>1, AtRange DEF RingType
  <2>2. head \in B /\ head < tail
    BY <1>1, <1>2, <1>3 DEF Marks
  <2>3. RecordAt(head) /\ head + buf[At(head)].len \in B
        /\ \A q \in B : q > head => q >= head + buf[At(head)].len
    BY <1>2, <2>2 DEF Marks
  <2>4. t >= head + buf[At(head)].len
    BY <1>3, <2>3, <1>1
  <2> QED BY <1>1, <1>3, <2>1, <2>3, <2>4 DEF RecordAt
<1>5. PICK h \in Nat : h = head' /\ h \in B /\ head <= h /\ h <= t
  BY <1>1, <1>2, <1>3, <1>4 DEF Marks
<1>6. RingType'
  BY <1>1, <1>3, <1>5 DEF RingType
<1>7. NoOverrun'
  <2>1. headCache' <= head' /\ head' <= tailCache' /\ tailCache' <= tail' /\ tail' - head' <= Cap
    <3>1. headCache <= head /\ tail - head <= Cap /\ headCache \in Nat /\ tail \in Nat
          /\ head \in Nat /\ Cap \in Nat
      BY <1>1
    <3>2. head <= h /\ h <= t /\ t <= tail
      BY <1>3, <1>5
    <3>3. headCache <= h /\ h <= t /\ t <= tail /\ tail - h <= Cap
      BY <3>1, <3>2
    <3> QED BY <1>3, <1>5, <3>3
  <2>2. prod.step = "filling" => Len(prod.msg) \in Nat /\ prod.pos \in Nat
    BY <1>1, MessageLen DEF ProdSound, RingType
  <2>3. ASSUME prod.step = "filling" PROVE prod.pos + Len(prod.msg) - h <= Cap
    <3>1. prod.pos + Len(prod.msg) - head <= Cap
      BY <1>1, <2>3 DEF NoOverrun
    <3> QED BY <1>1, <1>5, <2>2, <2>3, <3>1
  <2> QED BY <1>5, <2>1, <2>3 DEF NoOverrun
<1>8. ProdSound'
  BY <1>1, <1>5, <1>7 DEF ProdSound, NoOverrun
<1> DEFINE C == {p \in B : h <= p}
<1>9. C \in SUBSET Nat /\ \A p \in C : head' <= p /\ p <= tail'
  BY <1>2, <1>5
<1>10. Marks(C)'
  <2>1. head' \in C /\ tailCache' \in C /\ tail' \in C
    BY <1>1, <1>2, <1>3, <1>5 DEF Marks
  <2>2. ASSUME NEW p \in C, p < tail'
        PROVE  /\ RecordAt(p)' /\ p + buf[At(p)].len \in C
               /\ \A q \in C : q > p => q >= p + buf[At(p)].len
    <3>1. /\ RecordAt(p) /\ p + buf[At(p)].len \in B
          /\ \A q \in B : q > p => q >= p + buf[At(p)].len
      BY <1>2, <2>2 DEF Marks
    <3>2. RecordAt(p)'
      BY <3>1 DEF RecordAt, ReadAt
    <3>3. p \in Nat /\ h <= p /\ buf[At(p)].len \in Nat
      BY <1>1, <2>2, AtRange DEF RingType
    <3>4. h <= p + buf[At(p)].len
      BY <3>3
    <3> QED BY <3>1, <3>2, <3>4
  <2> QED BY <2>1, <2>2 DEF Marks
<1>11. held' => head' < tailCache' /\ buf'[At(head')].word # Padding
  BY <1>1, <1>3
<1> QED BY <1>6, <1>7, <1>8, <1>9, <1>10, <1>11 DEF RingInv

LEMMA TryPeekInv ==
  ASSUME RingInv, TryPeek
  PROVE  RingInv'
<1>1. head <= tailCache /\ tailCache <= tail /\ head \in Nat /\ tail \in Nat /\ tailCache \in Nat
  BY DEF RingInv, NoOverrun, RingType
<1>2. Seen \in {tail, tailCache} /\ head < Seen
  <2>1. head # Seen
    BY DEF TryPeek
  <2> QED BY <1>1, <2>1 DEF Seen
<1> QED BY <1>2, ConsumerInv DEF TryPeek, RingInv, RingType

LEMMA ReleaseInv ==
  ASSUME RingInv, Release
  PROVE  RingInv'
  BY ConsumerInv DEF Release, RingInv

LEMMA RingStep == RingInv /\ [RingNext]_ringVars => RingInv'
<1> SUFFICES ASSUME RingInv, [RingNext]_ringVars PROVE RingInv'
  OBVIOUS
<1>1. CASE UNCHANGED ringVars
  <2>1. UNCHANGED <<buf, tail, head, headCache, tailCache, prod, held>>
    BY <1>1 DEF ringVars
  <2>2. RingType' /\ NoOverrun' /\ ProdSound'
        /\ (held' => head' < tailCache' /\ buf'[At(head')].word # Padding)
    BY <2>1 DEF RingInv, RingType, NoOverrun, ProdSound
  <2>3. (\E B \in SUBSET Nat : (\A p \in B : head <= p /\ p <= tail) /\ Marks(B))'
    BY <2>1, <2>2, MarksStay DEF RingInv
  <2> QED BY <2>2, <2>3 DEF RingInv
<1>2. CASE \E m \in Messages : Offer(m)
  BY <1>2, OfferInv
<1>3. CASE TryReserve
  BY <1>3, TryReserveInv
<1>4. CASE TryReserveFull
  BY <1>4, TryReserveFullInv
<1>5. CASE Fill
  BY <1>5, FillInv
<1>6. CASE Commit
  BY <1>6, CommitInv
<1>7. CASE TryPeek
  BY <1>7, TryPeekInv
<1>8. CASE Release
  BY <1>8, ReleaseInv
<1> QED
  BY <1>1, <1>2, <1>3, <1>4, <1>5, <1>6, <1>7, <1>8 DEF RingNext, Producer, Consumer

LEMMA RingInvariant == RingSpec => []RingInv
<1> QED BY RingInitInv, RingStep, PTL DEF RingSpec

-----------------------------------------------------------------------------
\* The indices keep their order and the producer stays out of what the consumer has not released,
\* padding included, although each thread decides by an old copy of the other's index.
THEOREM RingNoOverrun == RingSpec => []NoOverrun
<1>1. RingInv => NoOverrun
  BY DEF RingInv
<1> QED BY <1>1, RingInvariant, PTL

-----------------------------------------------------------------------------
(***************************************************************************)
(* The size of a queue is the sum of the lengths of its messages.          *)
(***************************************************************************)

SizeIter(q) ==
  CHOOSE f : f = [s \in SUBSET DOMAIN q |->
                    IF s = {} THEN 0 ELSE f[s \ {Max(s)}] + Len(q[Max(s)])]

LEMMA SizeIsIter ==
  ASSUME NEW q
  PROVE  Channel!Size(q) = SizeIter(q)[DOMAIN q]
  BY Zenon DEF Channel!Size, Channel!FoldLeft, Channel!MapThenFoldSet, Channel!Max, SizeIter, Max

LEMMA SizeSteps ==
  ASSUME NEW n \in Nat, NEW q \in [1 .. n -> Messages]
  PROVE  \E g \in [0 .. n -> Nat] :
           /\ g[0] = 0 /\ g[n] = Channel!Size(q)
           /\ \A i \in 1 .. n : g[i] = g[i - 1] + Len(q[i])
<1> DEFINE Q == SUBSET (1 .. n)
           ch == [s \in Q |-> Max(s)]
           D == [x \in (1 .. n) \X Nat |-> x[2] + Len(q[x[1]])]
           f == SizeIter(q)
<1>1. D \in [(1 .. n) \X Nat -> Nat]
  BY MessageLen
<1>2. \A s \in Q : s # {} => ch[s] = Max(s) /\ ch[s] \in s
  <2>1. ASSUME NEW s \in Q, s # {} PROVE Max(s) \in s
    <3>1. s \in SUBSET (0 .. n)
      OBVIOUS
    <3> QED BY <2>1, <3>1, MaxIsMember
  <2> QED BY <2>1
<1>3. IsFiniteSet(1 .. n)
  BY FS_Interval
<1>4. PICK e \in [Q -> Nat] : Iterates(e, Q, 0, ch, D)
  <2> HIDE DEF D, ch
  <2> QED BY <1>1, <1>2, <1>3, SubsetRecursion
<1>5. e = [s \in SUBSET DOMAIN q |-> IF s = {} THEN 0 ELSE e[s \ {Max(s)}] + Len(q[Max(s)])]
  <2>1. DOMAIN q = 1 .. n
    OBVIOUS
  <2>2. ASSUME NEW s \in Q, s # {} PROVE D[<<ch[s], e[s \ {ch[s]}]>>] = e[s \ {Max(s)}] + Len(q[Max(s)])
    <3>1. ch[s] = Max(s) /\ Max(s) \in 1 .. n /\ s \ {Max(s)} \in Q
      BY <1>2, <2>2
    <3>2. e[s \ {Max(s)}] \in Nat
      BY <3>1
    <3> QED BY <3>1, <3>2
  <2>3. ASSUME NEW s \in Q
        PROVE  e[s] = IF s = {} THEN 0 ELSE e[s \ {Max(s)}] + Len(q[Max(s)])
    <3>1. e[s] = IF s = {} THEN 0 ELSE D[<<ch[s], e[s \ {ch[s]}]>>]
      <4> HIDE DEF D, ch
      <4> QED BY <1>4, Zenon DEF Iterates
    <3> QED BY <2>2, <3>1
  <2>4. e = [s \in Q |-> e[s]]
    OBVIOUS
  <2> QED BY <2>1, <2>3, <2>4
<1>6. f = [s \in SUBSET DOMAIN q |-> IF s = {} THEN 0 ELSE f[s \ {Max(s)}] + Len(q[Max(s)])]
  BY <1>5, Zenon DEF SizeIter
<1> HIDE DEF f
<1>7. f[1 .. 0] = 0 /\ \A i \in 1 .. n : f[1 .. i] = f[1 .. i - 1] + Len(q[i])
  <2>1. DOMAIN q = 1 .. n /\ {} \in Q /\ 1 .. 0 = {}
    OBVIOUS
  <2>2. f[1 .. 0] = 0
    BY <1>6, <2>1
  <2>3. ASSUME NEW i \in 1 .. n PROVE f[1 .. i] = f[1 .. i - 1] + Len(q[i])
    <3>1. 1 .. i \in Q /\ 1 .. i # {} /\ (1 .. i) \ {i} = 1 .. i - 1
      OBVIOUS
    <3>2. Max(1 .. i) = i
      BY MaxOfInterval
    <3>3. f[1 .. i] = f[(1 .. i) \ {Max(1 .. i)}] + Len(q[Max(1 .. i)])
      BY <1>6, <2>1, <3>1
    <3> QED BY <3>1, <3>2, <3>3
  <2> QED BY <2>2, <2>3
<1> DEFINE g == [i \in 0 .. n |-> f[1 .. i]]
           T == {i \in Nat : i <= n => f[1 .. i] \in Nat}
<1>8. \A i \in Nat : i \in T
  <2>1. 0 \in T
    BY <1>7
  <2>2. ASSUME NEW i \in Nat, i \in T PROVE i + 1 \in T
    <3>1. SUFFICES ASSUME i + 1 <= n PROVE f[1 .. i + 1] \in Nat
      OBVIOUS
    <3>2. i + 1 \in 1 .. n /\ (i + 1) - 1 = i /\ f[1 .. i] \in Nat
      BY <2>2, <3>1
    <3>3. Len(q[i + 1]) \in Nat
      BY <3>2, MessageLen
    <3>4. f[1 .. i + 1] = f[1 .. i] + Len(q[i + 1])
      BY <1>7, <3>2
    <3> QED BY <3>2, <3>3, <3>4
  <2> HIDE DEF T
  <2> QED BY <2>1, <2>2, NatSetInduction
<1>9. g \in [0 .. n -> Nat] /\ g[0] = 0 /\ \A i \in 1 .. n : g[i] = g[i - 1] + Len(q[i])
  BY <1>7, <1>8
<1>10. g[n] = Channel!Size(q)
  <2>1. DOMAIN q = 1 .. n
    OBVIOUS
  <2> QED BY <2>1, SizeIsIter DEF f
<1> HIDE DEF g
<1> QED BY <1>9, <1>10

LEMMA SizeLaws ==
  ASSUME NEW q \in Seq(Messages), NEW m \in Messages
  PROVE  /\ Channel!Size(<<>>) = 0
         /\ Channel!Size(q) \in Nat
         /\ Channel!Size(<<m>> \o q) = Len(m) + Channel!Size(q)
<1>1. Channel!Size(<<>>) = 0
  <2>1. <<>> \in [1 .. 0 -> Messages]
    OBVIOUS
  <2> QED BY <2>1, SizeSteps
<1> DEFINE n == Len(q)
           r == <<m>> \o q
<1>2. n \in Nat /\ q \in [1 .. n -> Messages] /\ r \in [1 .. n + 1 -> Messages]
      /\ (\A i \in 1 .. n : r[i + 1] = q[i]) /\ r[1] = m
  <2>1. n \in Nat /\ q \in [1 .. n -> Messages]
    OBVIOUS
  <2>2. r \in Seq(Messages) /\ Len(r) = n + 1
    OBVIOUS
  <2>3. r[1] = m
    OBVIOUS
  <2>4. \A i \in 1 .. n : r[i + 1] = q[i]
    OBVIOUS
  <2> HIDE DEF r
  <2>5. r \in [1 .. n + 1 -> Messages]
    BY <2>2
  <2> QED BY <2>1, <2>3, <2>4, <2>5
<1> HIDE DEF n, r
<1>3. PICK g \in [0 .. n -> Nat] : /\ g[0] = 0 /\ g[n] = Channel!Size(q)
                                   /\ \A i \in 1 .. n : g[i] = g[i - 1] + Len(q[i])
  BY <1>2, SizeSteps
<1>4. PICK h \in [0 .. n + 1 -> Nat] : /\ h[0] = 0 /\ h[n + 1] = Channel!Size(r)
                                       /\ \A i \in 1 .. n + 1 : h[i] = h[i - 1] + Len(r[i])
  <2>1. n + 1 \in Nat
    BY <1>2
  <2> QED BY <1>2, <2>1, SizeSteps
<1>5. Len(m) \in Nat
  BY MessageLen
<1> DEFINE T == {i \in Nat : i <= n => h[i + 1] = Len(m) + g[i]}
<1>6. \A i \in Nat : i \in T
  <2>1. 0 \in T
    <3>1. 1 \in 1 .. n + 1 /\ 1 - 1 = 0 /\ 0 + 1 = 1
      BY <1>2
    <3>2. h[1] = h[0] + Len(r[1])
      BY <1>4, <3>1
    <3> QED BY <1>2, <1>3, <1>4, <1>5, <3>1, <3>2
  <2>2. ASSUME NEW i \in Nat, i \in T PROVE i + 1 \in T
    <3>1. SUFFICES ASSUME i + 1 <= n PROVE h[(i + 1) + 1] = Len(m) + g[i + 1]
      OBVIOUS
    <3>2. /\ i + 1 \in 1 .. n /\ (i + 1) + 1 \in 1 .. n + 1 /\ (i + 1) - 1 = i
          /\ ((i + 1) + 1) - 1 = i + 1 /\ i \in 0 .. n
      BY <1>2, <3>1
    <3>3. h[i + 1] = Len(m) + g[i]
      BY <1>2, <2>2, <3>1
    <3>4. h[(i + 1) + 1] = h[i + 1] + Len(q[i + 1])
      BY <1>2, <1>4, <3>2
    <3>5. g[i + 1] = g[i] + Len(q[i + 1]) /\ g[i] \in Nat /\ Len(q[i + 1]) \in Nat
      BY <1>2, <1>3, <3>2, MessageLen
    <3> QED BY <1>5, <3>3, <3>4, <3>5
  <2> HIDE DEF T
  <2> QED BY <2>1, <2>2, NatSetInduction
<1>7. h[n + 1] = Len(m) + g[n]
  BY <1>2, <1>6
<1>8. g[n] \in Nat
  BY <1>2
<1>9. Channel!Size(r) = Len(m) + Channel!Size(q) /\ Channel!Size(q) \in Nat
  BY <1>3, <1>4, <1>7, <1>8, Zenon
<1> QED BY <1>1, <1>9, Zenon DEF r

-----------------------------------------------------------------------------
(***************************************************************************)
(* What the consumer reads off a buffer, record by record.                 *)
(***************************************************************************)

Bufs == [Granules -> [len : Nat, word : Words \cup {Padding}]]

ReadOf(b, p) == [k \in 1 .. b[At(p)].len |-> b[At(p + k - 1)].word]

NextPos(b, p, to) == IF p + b[At(p)].len < to THEN p + b[At(p)].len ELSE to

ReadStep(b, f, p, to) ==
  IF p = to \/ b[At(p)].len = 0 THEN <<>>
  ELSE IF b[At(p)].word = Padding THEN f[NextPos(b, p, to)]
  ELSE <<ReadOf(b, p)>> \o f[NextPos(b, p, to)]

Reads(b, f, from, to) == f = [p \in from .. to |-> ReadStep(b, f, p, to)]

ReadFrom(b, from, to) == (CHOOSE f : Reads(b, f, from, to))[from]

LEMMA ContentsIsRead == Contents(head, tail) = ReadFrom(buf, head, tail)
  BY Zenon DEF Contents, ReadFrom, Reads, ReadStep, ReadOf, NextPos

LEMMA ContentsIsReadNext == Contents(head, tail)' = ReadFrom(buf', head', tail')
  BY Zenon DEF Contents, ReadFrom, Reads, ReadStep, ReadOf, NextPos

LEMMA NextPosAhead ==
  ASSUME NEW b \in Bufs, NEW p \in Nat, NEW to \in Nat, p < to, b[At(p)].len # 0
  PROVE  NextPos(b, p, to) \in p + 1 .. to
<1>1. b[At(p)].len \in Nat
  BY AtRange DEF Bufs
<1> QED BY <1>1 DEF NextPos

\* There is one way to read a position, wherever the reading began.
LEMMA ReadsAgree ==
  ASSUME NEW b \in Bufs, NEW to \in Nat, NEW i \in Nat, NEW j \in Nat, NEW f, NEW g,
         Reads(b, f, i, to), Reads(b, g, j, to)
  PROVE  \A p \in Nat : i <= p /\ j <= p /\ p <= to => f[p] = g[p]
<1> DEFINE T == {d \in Nat : \A p \in Nat : i <= p /\ j <= p /\ p <= to /\ to - p <= d => f[p] = g[p]}
<1>1. ASSUME NEW p \in Nat, i <= p, j <= p, p <= to
      PROVE  f[p] = ReadStep(b, f, p, to) /\ g[p] = ReadStep(b, g, p, to)
  <2>1. p \in i .. to /\ p \in j .. to
    BY <1>1
  <2> QED BY <2>1, Zenon DEF Reads
<1>2. 0 \in T
  <2>1. ASSUME NEW p \in Nat, i <= p, j <= p, p <= to, to - p <= 0 PROVE f[p] = g[p]
    <3>1. p = to
      BY <2>1
    <3> QED BY <1>1, <2>1, <3>1 DEF ReadStep
  <2> QED BY <2>1
<1>3. ASSUME NEW d \in Nat, d \in T PROVE d + 1 \in T
  <2>1. ASSUME NEW p \in Nat, i <= p, j <= p, p <= to, to - p <= d + 1 PROVE f[p] = g[p]
    <3>1. CASE p = to \/ b[At(p)].len = 0
      BY <1>1, <2>1, <3>1 DEF ReadStep
    <3>2. CASE p # to /\ b[At(p)].len # 0
      <4>1. NextPos(b, p, to) \in p + 1 .. to
        BY <2>1, <3>2, NextPosAhead
      <4>2. f[NextPos(b, p, to)] = g[NextPos(b, p, to)]
        BY <1>3, <2>1, <4>1
      <4> QED BY <1>1, <2>1, <4>2 DEF ReadStep
    <3> QED BY <3>1, <3>2
  <2> QED BY <2>1
<1> HIDE DEF T
<1>4. \A d \in Nat : d \in T
  BY <1>2, <1>3, NatSetInduction
<1> QED BY <1>4 DEF T

\* The buffer can be read from every position.
LEMMA ReadsExist ==
  ASSUME NEW b \in Bufs, NEW to \in Nat, NEW from \in Nat, from <= to
  PROVE  \E f : Reads(b, f, from, to)
<1> DEFINE T == {d \in Nat : d <= to => \E f : Reads(b, f, to - d, to)}
<1>1. 0 \in T
  <2> DEFINE f == [p \in to - 0 .. to |-> <<>>]
  <2>1. ASSUME NEW p \in to - 0 .. to PROVE ReadStep(b, f, p, to) = <<>>
    BY DEF ReadStep
  <2>2. Reads(b, f, to - 0, to)
    BY <2>1 DEF Reads
  <2> QED BY <2>2
<1>2. ASSUME NEW d \in Nat, d \in T PROVE d + 1 \in T
  <2>1. SUFFICES ASSUME d + 1 <= to PROVE \E f : Reads(b, f, to - (d + 1), to)
    OBVIOUS
  <2>2. PICK f : Reads(b, f, to - d, to)
    BY <1>2, <2>1
  <2> DEFINE a == to - (d + 1)
             g == [p \in a .. to |-> IF p = a THEN ReadStep(b, f, p, to) ELSE f[p]]
  <2>3. a \in Nat /\ a < to /\ a + 1 = to - d
    BY <2>1
  <2> HIDE DEF a
  <2>4. ASSUME NEW p \in a .. to PROVE g[p] = ReadStep(b, g, p, to)
    <3>1. p = to \/ b[At(p)].len = 0 \/ (NextPos(b, p, to) \in a + 1 .. to)
      <4>1. p \in Nat /\ a <= p /\ p <= to
        BY <2>3
      <4>2. p # to /\ b[At(p)].len # 0 => NextPos(b, p, to) \in p + 1 .. to
        BY <4>1, NextPosAhead
      <4> QED BY <2>3, <4>1, <4>2
    <3>2. ReadStep(b, g, p, to) = ReadStep(b, f, p, to)
      <4>1. \A x \in a + 1 .. to : g[x] = f[x]
        BY <2>3
      <4> HIDE DEF g
      <4> QED BY <3>1, <4>1 DEF ReadStep
    <3>3. p # a => f[p] = ReadStep(b, f, p, to)
      <4>1. p # a => p \in to - d .. to
        BY <2>3
      <4> QED BY <2>2, <4>1, Zenon DEF Reads
    <3> QED BY <3>2, <3>3
  <2>5. g = [p \in a .. to |-> g[p]]
    OBVIOUS
  <2> HIDE DEF g
  <2>6. Reads(b, g, a, to)
    BY <2>4, <2>5 DEF Reads
  <2> QED BY <2>6 DEF a
<1> HIDE DEF T
<1>3. to - from \in T /\ to - from <= to /\ to - (to - from) = from
  BY <1>1, <1>2, NatSetInduction
<1> QED BY <1>3 DEF T

LEMMA ReadUnfold ==
  ASSUME NEW b \in Bufs, NEW to \in Nat, NEW p \in Nat
  PROVE  /\ ReadFrom(b, to, to) = <<>>
         /\ p < to /\ b[At(p)].len # 0 /\ p + b[At(p)].len <= to =>
              ReadFrom(b, p, to) =
                IF b[At(p)].word = Padding THEN ReadFrom(b, p + b[At(p)].len, to)
                ELSE <<ReadOf(b, p)>> \o ReadFrom(b, p + b[At(p)].len, to)
<1> DEFINE F(i) == CHOOSE f : Reads(b, f, i, to)
<1>1. ASSUME NEW i \in Nat, i <= to PROVE Reads(b, F(i), i, to)
  BY <1>1, ReadsExist, Zenon
<1>2. ASSUME NEW i \in Nat PROVE ReadFrom(b, i, to) = F(i)[i]
  BY Zenon DEF ReadFrom
<1> HIDE DEF F
<1>3. ASSUME NEW i \in Nat, i <= to PROVE ReadFrom(b, i, to) = ReadStep(b, F(i), i, to)
  <2>1. i \in i .. to
    BY <1>3
  <2>2. F(i)[i] = ReadStep(b, F(i), i, to)
    BY <1>1, <1>3, <2>1, Zenon DEF Reads
  <2> QED BY <1>2, <2>2
<1>4. ReadFrom(b, to, to) = <<>>
  <2>1. to <= to
    OBVIOUS
  <2> QED BY <1>3, <2>1, Zenon DEF ReadStep
<1>5. ASSUME p < to, b[At(p)].len # 0, p + b[At(p)].len <= to
      PROVE  ReadFrom(b, p, to) =
               IF b[At(p)].word = Padding THEN ReadFrom(b, p + b[At(p)].len, to)
               ELSE <<ReadOf(b, p)>> \o ReadFrom(b, p + b[At(p)].len, to)
  <2>1. b[At(p)].len \in Nat
    BY AtRange DEF Bufs
  <2>2. PICK n \in Nat : n = p + b[At(p)].len /\ p <= n /\ n <= to
    BY <1>5, <2>1
  <2>3. NextPos(b, p, to) = n
    BY <1>5, <2>1, <2>2 DEF NextPos
  <2>4. F(p)[n] = F(n)[n]
    BY <1>1, <1>5, <2>2, ReadsAgree
  <2>5. ReadFrom(b, n, to) = F(p)[n]
    BY <1>2, <2>4
  <2>6. ReadFrom(b, p, to) = ReadStep(b, F(p), p, to)
    BY <1>3, <1>5
  <2>7. p # to
    BY <1>5
  <2> QED BY <1>5, <2>2, <2>3, <2>5, <2>6, <2>7, Zenon DEF ReadStep
<1> QED BY <1>4, <1>5

-----------------------------------------------------------------------------
(***************************************************************************)
(* Records that lead from one to the next, up to position t.               *)
(***************************************************************************)

Chain(b, B, t) ==
  /\ t \in B
  /\ \A p \in B : p < t =>
       /\ b[At(p)].len \in Nat \ {0}
       /\ p + b[At(p)].len \in B /\ p + b[At(p)].len <= t
       /\ b[At(p)].word # Padding => ReadOf(b, p) \in Messages

\* What holds at the end, and at a record when it holds at the next, holds at every record.
LEMMA ChainInduction ==
  ASSUME NEW b \in Bufs, NEW B \in SUBSET Nat, NEW t \in Nat, Chain(b, B, t), NEW S, t \in S,
         \A p \in B : p < t /\ p + b[At(p)].len \in S => p \in S
  PROVE  \A p \in B : p <= t => p \in S
<1> DEFINE T == {d \in Nat : \A p \in B : p <= t /\ t - p <= d => p \in S}
<1>1. 0 \in T
  <2>1. ASSUME NEW p \in B, p <= t, t - p <= 0 PROVE p = t
    BY <2>1
  <2> QED BY <2>1
<1>2. ASSUME NEW d \in Nat, d \in T PROVE d + 1 \in T
  <2>1. ASSUME NEW p \in B, p <= t, t - p <= d + 1 PROVE p \in S
    <3>1. CASE p = t
      BY <3>1
    <3>2. CASE p < t
      <4>1. PICK n \in Nat \ {0} : n = b[At(p)].len /\ p + n \in B /\ p + n <= t
        BY <3>2 DEF Chain
      <4>2. t - (p + n) <= d
        BY <2>1, <4>1
      <4>3. p + n \in S
        BY <1>2, <4>1, <4>2
      <4> QED BY <3>2, <4>1, <4>3
    <3> QED BY <2>1, <3>1, <3>2
  <2> QED BY <2>1
<1> HIDE DEF T
<1>3. \A d \in Nat : d \in T
  BY <1>1, <1>2, NatSetInduction
<1> QED BY <1>3 DEF T

\* The record at p is n granules long, and what is read from p up to u is its message, then the rest.
Unfolds(b, B, t, p, u, n) ==
  /\ n = b[At(p)].len /\ p + n \in B /\ p + n <= t
  /\ b[At(p)].word # Padding => ReadOf(b, p) \in Messages /\ Len(ReadOf(b, p)) = n
  /\ ReadFrom(b, p, u) = IF b[At(p)].word = Padding THEN ReadFrom(b, p + n, u)
                         ELSE <<ReadOf(b, p)>> \o ReadFrom(b, p + n, u)

LEMMA ChainUnfold ==
  ASSUME NEW b \in Bufs, NEW B \in SUBSET Nat, NEW t \in Nat, Chain(b, B, t),
         NEW p \in B, p < t, NEW u \in Nat, t <= u
  PROVE  \E n \in Nat \ {0} : Unfolds(b, B, t, p, u, n)
<1>1. PICK n \in Nat \ {0} : n = b[At(p)].len /\ p + n \in B /\ p + n <= t
                             /\ (b[At(p)].word # Padding => ReadOf(b, p) \in Messages)
  BY DEF Chain
<1>2. Len(ReadOf(b, p)) = n
  BY <1>1 DEF ReadOf
<1>3. p \in Nat /\ p < u /\ p + n <= u
  <2>1. p \in Nat /\ p + n <= t
    BY <1>1
  <2> QED BY <2>1
<1>4. ReadFrom(b, p, u) = IF b[At(p)].word = Padding THEN ReadFrom(b, p + n, u)
                          ELSE <<ReadOf(b, p)>> \o ReadFrom(b, p + n, u)
  BY <1>1, <1>3, ReadUnfold
<1> QED BY <1>1, <1>2, <1>4 DEF Unfolds

\* What is read is messages, and they take no more granules than lie between the positions.
LEMMA ReadSize ==
  ASSUME NEW b \in Bufs, NEW B \in SUBSET Nat, NEW t \in Nat, Chain(b, B, t)
  PROVE  \A p \in B : p <= t => /\ ReadFrom(b, p, t) \in Seq(Messages)
                                /\ Channel!Size(ReadFrom(b, p, t)) \in Nat
                                /\ Channel!Size(ReadFrom(b, p, t)) <= t - p
<1> DEFINE S == {p \in B : /\ ReadFrom(b, p, t) \in Seq(Messages)
                           /\ Channel!Size(ReadFrom(b, p, t)) \in Nat
                           /\ Channel!Size(ReadFrom(b, p, t)) <= t - p}
<1>1. t \in S
  <2>1. t \in B /\ <<>> \in Seq(Messages)
    BY DEF Chain
  <2>3. ReadFrom(b, t, t) = <<>>
    BY ReadUnfold
  <2>2. Channel!Size(<<>>) = 0
    <3>1. <<>> \in [1 .. 0 -> Messages]
      OBVIOUS
    <3> QED BY <3>1, SizeSteps
  <2> QED BY <2>1, <2>2, <2>3
<1>2. ASSUME NEW p \in B, p < t, p + b[At(p)].len \in S PROVE p \in S
  <2>a. t <= t
    OBVIOUS
  <2>1. PICK n \in Nat \ {0} : Unfolds(b, B, t, p, t, n)
    BY <1>2, <2>a, ChainUnfold
  <2> USE DEF Unfolds
  <2> DEFINE q == ReadFrom(b, p + n, t)
  <2>2. q \in Seq(Messages) /\ Channel!Size(q) \in Nat /\ Channel!Size(q) <= t - (p + n)
    BY <1>2, <2>1
  <2> HIDE DEF q
  <2>3. CASE b[At(p)].word = Padding
    <3>1. ReadFrom(b, p, t) = q
      BY <2>1, <2>3 DEF q
    <3>2. Channel!Size(q) <= t - p
      BY <2>2
    <3> QED BY <2>2, <3>1, <3>2
  <2>4. CASE b[At(p)].word # Padding
    <3>1. PICK m \in Messages : m = ReadOf(b, p) /\ Len(m) = n
      BY <2>1, <2>4
    <3>2. ReadFrom(b, p, t) = <<m>> \o q
      BY <2>1, <2>4, <3>1 DEF q
    <3>3. Channel!Size(<<m>> \o q) = n + Channel!Size(q)
      BY <2>2, <3>1, SizeLaws
    <3>4. <<m>> \o q \in Seq(Messages)
      BY <2>2
    <3>5. n + Channel!Size(q) \in Nat /\ n + Channel!Size(q) <= t - p
      BY <2>2
    <3> QED BY <3>2, <3>3, <3>4, <3>5
  <2> QED BY <2>3, <2>4
<1> HIDE DEF S
<1>3. \A p \in B : p <= t => p \in S
  BY <1>1, <1>2, ChainInduction
<1> QED BY <1>3 DEF S

\* A buffer that holds the same from h to t reads the same.
LEMMA ReadStable ==
  ASSUME NEW b \in Bufs, NEW c \in Bufs, NEW B \in SUBSET Nat, NEW t \in Nat, Chain(b, B, t),
         \A p \in B : \A x \in Nat : p <= x /\ x < t => c[At(x)] = b[At(x)]
  PROVE  \A p \in B : p <= t => ReadFrom(c, p, t) = ReadFrom(b, p, t)
<1> DEFINE S == {p \in B : ReadFrom(c, p, t) = ReadFrom(b, p, t)}
<1>1. t \in S
  BY ReadUnfold DEF Chain
<1>2. ASSUME NEW p \in B, p < t PROVE c[At(p)] = b[At(p)] /\ ReadOf(c, p) = ReadOf(b, p)
  <2>1. c[At(p)] = b[At(p)]
    BY <1>2
  <2>2. PICK n \in Nat \ {0} : n = b[At(p)].len /\ p + n <= t
    BY <1>2 DEF Chain
  <2>3. ASSUME NEW k \in 1 .. n PROVE c[At(p + k - 1)] = b[At(p + k - 1)]
    <3>1. p + k - 1 \in Nat /\ p <= p + k - 1 /\ p + k - 1 < t
      BY <2>2
    <3> QED BY <3>1
  <2> QED BY <2>1, <2>2, <2>3 DEF ReadOf
<1>3. Chain(c, B, t)
  BY <1>2, Zenon DEF Chain
<1>4. ASSUME NEW p \in B, p < t, p + b[At(p)].len \in S PROVE p \in S
  <2>1. t <= t
    OBVIOUS
  <2>2. ReadFrom(b, p, t) = IF b[At(p)].word = Padding THEN ReadFrom(b, p + b[At(p)].len, t)
                            ELSE <<ReadOf(b, p)>> \o ReadFrom(b, p + b[At(p)].len, t)
    <3>1. \E n \in Nat \ {0} : Unfolds(b, B, t, p, t, n)
      BY <1>4, <2>1, ChainUnfold
    <3> QED BY <3>1, Zenon DEF Unfolds
  <2>3. ReadFrom(c, p, t) = IF c[At(p)].word = Padding THEN ReadFrom(c, p + c[At(p)].len, t)
                            ELSE <<ReadOf(c, p)>> \o ReadFrom(c, p + c[At(p)].len, t)
    <3>1. \E n \in Nat \ {0} : Unfolds(c, B, t, p, t, n)
      BY <1>3, <1>4, <2>1, ChainUnfold
    <3> QED BY <3>1, Zenon DEF Unfolds
  <2> QED BY <1>2, <1>4, <2>2, <2>3, Zenon
<1> HIDE DEF S
<1>5. \A p \in B : p <= t => p \in S
  BY <1>1, <1>4, ChainInduction
<1> QED BY <1>5 DEF S

\* A message behind the last record is read last.
ReadsLast(b, B, t, u, m) ==
  \A p \in B : p <= t => ReadFrom(b, p, u) = Append(ReadFrom(b, p, t), m)

LEMMA ReadExtend ==
  ASSUME NEW b \in Bufs, NEW B \in SUBSET Nat, NEW t \in Nat, Chain(b, B, t),
         NEW u \in Nat, t <= u, NEW m \in Messages, ReadFrom(b, t, u) = Append(<<>>, m)
  PROVE  ReadsLast(b, B, t, u, m)
<1> DEFINE S == {p \in B : ReadFrom(b, p, u) = Append(ReadFrom(b, p, t), m)}
<1>1. t \in S
  <2>1. t \in B /\ ReadFrom(b, t, t) = <<>>
    BY ReadUnfold DEF Chain
  <2> QED BY <2>1
<1>2. ASSUME NEW p \in B, p < t, p + b[At(p)].len \in S PROVE p \in S
  <2>a. t <= t
    OBVIOUS
  <2>1. PICK n \in Nat \ {0} : Unfolds(b, B, t, p, t, n)
    BY <1>2, <2>a, ChainUnfold
  <2> USE DEF Unfolds
  <2>2. ReadFrom(b, p, u) = IF b[At(p)].word = Padding THEN ReadFrom(b, p + n, u)
                            ELSE <<ReadOf(b, p)>> \o ReadFrom(b, p + n, u)
    <3>1. \E k \in Nat \ {0} : Unfolds(b, B, t, p, u, k)
      <4> HIDE DEF Unfolds
      <4> QED BY <1>2, ChainUnfold
    <3> QED BY <2>1, <3>1
  <2>3. ReadFrom(b, p + n, u) = Append(ReadFrom(b, p + n, t), m)
    BY <1>2, <2>1
  <2>4. ReadFrom(b, p + n, t) \in Seq(Messages)
    BY <2>1, ReadSize
  <2>5. ASSUME NEW q \in Seq(Messages), NEW r \in Messages
        PROVE  <<r>> \o Append(q, m) = Append(<<r>> \o q, m)
    OBVIOUS
  <2> QED BY <2>1, <2>2, <2>3, <2>4, <2>5
<1> HIDE DEF S
<1>3. \A p \in B : p <= t => p \in S
  BY <1>1, <1>2, ChainInduction
<1> QED BY <1>3 DEF S, ReadsLast

-----------------------------------------------------------------------------
(***************************************************************************)
(* The ring implements the channel, step by step.                          *)
(***************************************************************************)

LEMMA RingChain ==
  ASSUME RingInv
  PROVE  /\ buf \in Bufs /\ head \in Nat /\ tail \in Nat /\ head <= tail
         /\ \E B \in SUBSET Nat : (\A p \in B : head <= p /\ p <= tail) /\ head \in B
                                  /\ Chain(buf, B, tail)
<1>1. buf \in Bufs /\ head \in Nat /\ tail \in Nat /\ head <= tail
  BY DEF RingInv, RingType, NoOverrun, Bufs
<1>2. PICK B \in SUBSET Nat : (\A p \in B : head <= p /\ p <= tail) /\ Marks(B)
  BY DEF RingInv
<1>3. ASSUME NEW p \in B, p < tail
      PROVE  /\ buf[At(p)].len \in Nat \ {0}
             /\ p + buf[At(p)].len \in B /\ p + buf[At(p)].len <= tail
             /\ buf[At(p)].word # Padding => ReadOf(buf, p) \in Messages
  <2>1. buf[At(p)].len \in Nat
    BY <1>1, AtRange DEF Bufs
  <2>2. RecordAt(p) /\ p + buf[At(p)].len \in B
    BY <1>2, <1>3 DEF Marks
  <2> QED BY <2>1, <2>2 DEF RecordAt, ReadAt, ReadOf
<1>4. Chain(buf, B, tail) /\ head \in B
  BY <1>2, <1>3 DEF Chain, Marks
<1> QED BY <1>1, <1>2, <1>4

\* A step that leaves the indices and what lies between them alone is none of the channel's.
LEMMA StepStutters ==
  ASSUME RingInv, RingInv', UNCHANGED <<head, tail>>,
         \A p \in Nat : head <= p /\ p < tail => buf'[At(p)] = buf[At(p)]
  PROVE  Contents(head, tail)' = Contents(head, tail)
<1>1. PICK B \in SUBSET Nat : (\A p \in B : head <= p /\ p <= tail) /\ head \in B
                              /\ Chain(buf, B, tail)
  BY RingChain
<1>2. buf \in Bufs /\ buf' \in Bufs /\ head \in Nat /\ tail \in Nat /\ head <= tail
  BY RingChain DEF RingInv, RingType, Bufs
<1>3. ASSUME NEW p \in B, NEW x \in Nat, p <= x, x < tail PROVE buf'[At(x)] = buf[At(x)]
  <2>1. head <= x
    BY <1>1, <1>2, <1>3
  <2> QED BY <1>3, <2>1
<1>4. ReadFrom(buf', head, tail) = ReadFrom(buf, head, tail)
  BY <1>1, <1>2, <1>3, ReadStable
<1> QED BY <1>4, ContentsIsRead, ContentsIsReadNext

LEMMA WriteStutters ==
  ASSUME RingInv, RingInv', TryReserve \/ Fill
  PROVE  Contents(head, tail)' = Contents(head, tail)
<1>1. /\ RingType /\ Cap \in Nat /\ tail \in Nat /\ head \in Nat
  BY RingAssumption DEF RingInv, RingType
<1>2. UNCHANGED <<head, tail>>
  BY DEF TryReserve, Fill
<1>3. CASE TryReserve
  <2> DEFINE pad == PadFor(tail, Len(prod.msg))
  <2>1. prod.msg \in Messages /\ Len(prod.msg) \in Lens /\ Len(prod.msg) \in Nat \ {0}
    BY <1>3, MessageLen DEF RingInv, ProdSound, TryReserve
  <2>2. pad \in Nat /\ prod'.step = "filling" /\ prod'.msg = prod.msg /\ prod'.pos = tail + pad
    BY <1>1, <1>3, <2>1, PadFits DEF TryReserve, RingType
  <2>3. prod'.pos + Len(prod'.msg) - head' <= Cap
    BY <2>2 DEF RingInv, NoOverrun
  <2>4. tail < head + Cap
    <3>1. PICK n \in Nat \ {0} : n = Len(prod.msg)
      BY <2>1
    <3>2. PICK a \in Nat : a = pad
      BY <2>2
    <3>3. (tail + a) + n - head <= Cap
      BY <1>2, <2>2, <2>3, <3>1, <3>2
    <3> HIDE DEF pad
    <3> QED BY <1>1, <3>3
  <2>5. CASE pad = 0
    <3>1. buf' = buf
      BY <1>3, <2>5 DEF TryReserve
    <3> QED BY <1>2, <3>1, StepStutters
  <2>6. CASE pad # 0
    <3>1. buf' = [buf EXCEPT ![At(tail)] = [len |-> pad, word |-> Padding]]
      BY <1>3, <2>6 DEF TryReserve
    <3>2. tail <= tail
      BY <1>1
    <3>3. \A p \in Nat : head <= p /\ p < tail => buf'[At(p)] = buf[At(p)]
      <4> HIDE DEF pad
      <4> QED BY <1>1, <2>4, <3>1, <3>2, FreeWrite
    <3> QED BY <1>2, <3>3, StepStutters
  <2> QED BY <2>5, <2>6
<1>4. CASE Fill
  <2>1. PICK k \in Nat : k = prod.filled + 1 /\ k >= 1
    BY <1>1 DEF RingType
  <2>2. PICK n \in Nat : n = Len(prod.msg) /\ k <= n
    BY <1>4, <2>1, MessageLen DEF RingInv, ProdSound, Fill
  <2>3. PICK pos \in Nat : pos = prod.pos /\ tail <= pos /\ pos + n - head <= Cap
    <3>1. prod.step = "filling" /\ prod.msg \in Messages
      BY <1>4 DEF RingInv, ProdSound, Fill
    <3>2. PadFor(tail, n) \in Nat
      BY <1>1, <2>2, <3>1, MessageLen, PadFits
    <3>3. prod.pos = tail + PadFor(tail, n) /\ prod.pos + n - head <= Cap
      BY <2>2, <3>1 DEF RingInv, ProdSound
    <3> QED BY <1>1, <3>2, <3>3
  <2>4. PICK x \in Nat : x = pos + k - 1 /\ tail <= x /\ x < head + Cap
    BY <1>1, <2>1, <2>2, <2>3
  <2>5. \E c : buf' = [buf EXCEPT ![At(x)] = c]
    BY <1>4, <2>1, <2>3, <2>4 DEF Fill
  <2>6. \A p \in Nat : head <= p /\ p < x => buf'[At(p)] = buf[At(p)]
    BY <1>1, <2>4, <2>5, FreeWrite
  <2>7. \A p \in Nat : head <= p /\ p < tail => buf'[At(p)] = buf[At(p)]
    BY <1>1, <2>4, <2>6
  <2> QED BY <1>2, <2>7, StepStutters
<1> QED BY <1>3, <1>4

\* The store of the tail sends the message, whole.
LEMMA CommitSends ==
  ASSUME RingInv, Commit
  PROVE  Channel!Send(prod.msg) /\ prod.msg \in Messages
<1>1. PICK m \in Messages : m = prod.msg
  BY DEF RingInv, ProdSound, Commit
<1>2. PICK n \in Nat \ {0} : n = Len(m) /\ n \in Lens /\ m \in [1 .. n -> Words]
  BY <1>1, MessageLen
<1>3. /\ buf \in Bufs /\ head \in Nat /\ tail \in Nat /\ head <= tail /\ Cap \in Nat
      /\ UNCHANGED <<buf, head>>
  BY RingChain, RingAssumption DEF Commit
<1>4. PICK pad \in Nat : pad = PadFor(tail, n)
  BY <1>2, <1>3, PadFits
<1>5. PICK pos \in Nat : pos = prod.pos /\ pos = tail + pad /\ pos + n - head <= Cap
  BY SMTT(30), <1>1, <1>2, <1>3, <1>4 DEF RingInv, ProdSound, Commit
<1>6. /\ pad > 0 => buf[At(tail)] = [len |-> pad, word |-> Padding]
      /\ \A k \in 1 .. n : buf[At(pos + k - 1)] =
                             [len |-> IF k = 1 THEN n ELSE 0, word |-> m[k]]
  BY <1>1, <1>2, <1>4, <1>5 DEF RingInv, ProdSound, Commit
<1>7. PICK u \in Nat : u = tail' /\ u = pos + n /\ pos < u /\ tail <= pos /\ tail <= u
  <2>1. tail' = pos + n
    BY <1>1, <1>2, <1>5 DEF Commit
  <2> QED BY <1>2, <1>3, <1>5, <2>1
<1>8. ReadFrom(buf, pos, u) = <<m>>
  <2>1. buf[At(pos)] = [len |-> n, word |-> m[1]]
    <3>1. 1 \in 1 .. n /\ pos + 1 - 1 = pos
      OBVIOUS
    <3> QED BY <1>6, <3>1
  <2>2. buf[At(pos)].len = n /\ buf[At(pos)].word # Padding
    <3>1. m[1] \in Words
      BY <1>2
    <3> QED BY <2>1, <3>1, RingAssumption
  <2>3. ReadOf(buf, pos) = m
    <3>1. ASSUME NEW k \in 1 .. n PROVE buf[At(pos + k - 1)].word = m[k]
      <4>1. buf[At(pos + k - 1)] = [len |-> IF k = 1 THEN n ELSE 0, word |-> m[k]]
        BY <1>6
      <4> QED BY <4>1
    <3> QED BY <1>2, <2>2, <3>1 DEF ReadOf
  <2>4. ReadFrom(buf, u, u) = <<>>
    BY <1>3, ReadUnfold
  <2>5. ReadFrom(buf, pos, u) = <<m>> \o ReadFrom(buf, pos + n, u)
    BY <1>3, <1>7, <2>2, <2>3, ReadUnfold
  <2>6. <<m>> \o <<>> = <<m>>
    OBVIOUS
  <2> QED BY <1>7, <2>4, <2>5, <2>6
<1>9. ReadFrom(buf, tail, u) = <<m>>
  <2>1. CASE pad = 0
    BY <1>3, <1>5, <1>8, <2>1
  <2>2. CASE pad > 0
    <3>1. buf[At(tail)].len = pad /\ buf[At(tail)].word = Padding
      BY <1>6, <2>2
    <3>2. tail < u /\ pad # 0 /\ tail + pad <= u /\ tail + pad = pos
      BY <1>3, <1>5, <1>7, <2>2
    <3>3. ReadFrom(buf, tail, u) = ReadFrom(buf, tail + pad, u)
      BY <1>3, <3>1, <3>2, ReadUnfold
    <3> QED BY <1>8, <3>2, <3>3
  <2> QED BY <2>1, <2>2
<1>10. PICK B \in SUBSET Nat : head \in B /\ Chain(buf, B, tail)
  BY RingChain
<1>11. ReadFrom(buf, head, u) = Append(ReadFrom(buf, head, tail), m)
  <2>a. buf \in Bufs /\ tail \in Nat /\ tail <= u /\ Chain(buf, B, tail)
    BY <1>3, <1>7, <1>10
  <2>1. \A p \in B : p <= tail => ReadFrom(buf, p, u) = Append(ReadFrom(buf, p, tail), m)
    <3>1. <<m>> = Append(<<>>, m)
      OBVIOUS
    <3>2. ReadFrom(buf, tail, u) = Append(<<>>, m)
      BY <1>9, <3>1
    <3>3. ReadsLast(buf, B, tail, u, m)
      BY <2>a, <3>2, ReadExtend
    <3> QED BY <3>3 DEF ReadsLast
  <2> QED BY <1>3, <1>10, <2>1
<1>12. Channel!Size(ReadFrom(buf, head, tail)) + n <= Cap
  <2>1. PICK z \in Nat : z = Channel!Size(ReadFrom(buf, head, tail)) /\ z <= tail - head
    BY <1>3, <1>10, ReadSize
  <2>2. z + n <= Cap
    BY <1>3, <1>5, <2>1
  <2> QED BY <2>1, <2>2
<1>13. Contents(head, tail)' = Append(Contents(head, tail), m)
  BY <1>3, <1>7, <1>11, ContentsIsRead, ContentsIsReadNext
<1>14. Channel!Size(Contents(head, tail)) + Len(m) <= Cap
  BY <1>2, <1>12, ContentsIsRead
<1> QED BY <1>1, <1>13, <1>14 DEF Channel!Send

\* Skipping padding is none of the channel's steps; the store of the head takes the first message.
LEMMA AdvanceReads ==
  ASSUME RingInv, head < tail, UNCHANGED <<buf, tail>>, head' = head + buf[At(head)].len
  PROVE  IF buf[At(head)].word = Padding THEN Contents(head, tail)' = Contents(head, tail)
         ELSE Channel!Take
<1>1. /\ buf \in Bufs /\ head \in Nat /\ tail \in Nat /\ head <= tail
  BY RingChain
<1>2. PICK B \in SUBSET Nat : head \in B /\ Chain(buf, B, tail)
  BY RingChain
<1>3. tail <= tail
  BY <1>1
<1>4. PICK n \in Nat \ {0} : Unfolds(buf, B, tail, head, tail, n)
  BY <1>1, <1>2, <1>3, ChainUnfold
<1> USE DEF Unfolds
<1>5. ReadFrom(buf, head + n, tail) \in Seq(Messages)
  BY <1>1, <1>2, <1>4, ReadSize
<1>6. Contents(head, tail)' = ReadFrom(buf, head + n, tail)
  BY <1>4, ContentsIsReadNext
<1>7. CASE buf[At(head)].word = Padding
  BY <1>4, <1>6, <1>7, ContentsIsRead
<1>8. CASE buf[At(head)].word # Padding
  <2>1. ASSUME NEW r \in Messages, NEW q \in Seq(Messages)
        PROVE  <<r>> \o q # <<>> /\ Tail(<<r>> \o q) = q
    OBVIOUS
  <2>2. Contents(head, tail) = <<ReadOf(buf, head)>> \o ReadFrom(buf, head + n, tail)
    BY <1>4, <1>8, ContentsIsRead
  <2>3. Contents(head, tail) # <<>> /\ Contents(head, tail)' = Tail(Contents(head, tail))
    BY <1>4, <1>5, <1>6, <1>8, <2>1, <2>2
  <2> QED BY <1>8, <2>3 DEF Channel!Take
<1> QED BY <1>7, <1>8

LEMMA RingStepImplements ==
  ASSUME RingInv, RingInv', [RingNext]_ringVars
  PROVE  [Channel!Next]_(Contents(head, tail))
<1>1. CASE UNCHANGED ringVars
  BY <1>1, StepStutters DEF ringVars
<1>2. CASE \E m \in Messages : Offer(m)
  BY <1>2, StepStutters DEF Offer
<1>3. CASE TryReserve
  BY <1>3, WriteStutters
<1>4. CASE TryReserveFull
  BY <1>4, StepStutters DEF TryReserveFull
<1>5. CASE Fill
  BY <1>5, WriteStutters
<1>6. CASE Commit
  BY <1>6, CommitSends DEF Channel!Next
<1>7. CASE TryPeek
  <2>1. head < tail
    <3>1. head <= tailCache /\ tailCache <= tail /\ head \in Nat /\ tail \in Nat /\ tailCache \in Nat
      BY DEF RingInv, NoOverrun, RingType
    <3>2. head # Seen
      BY <1>7 DEF TryPeek
    <3> QED BY <3>1, <3>2 DEF Seen
  <2>2. CASE buf[At(head)].word = Padding
    BY <1>7, <2>1, <2>2, AdvanceReads DEF TryPeek
  <2>3. CASE buf[At(head)].word # Padding
    BY <1>7, <2>3, StepStutters DEF TryPeek
  <2> QED BY <2>2, <2>3
<1>8. CASE Release
  <2>1. head < tail /\ buf[At(head)].word # Padding
    <3>1. tailCache <= tail /\ head \in Nat /\ tail \in Nat /\ tailCache \in Nat
      BY DEF RingInv, NoOverrun, RingType
    <3>2. head < tailCache /\ buf[At(head)].word # Padding
      BY <1>8 DEF RingInv, Release
    <3> QED BY <3>1, <3>2
  <2>2. Channel!Take
    BY <1>8, <2>1, AdvanceReads DEF Release
  <2> QED BY <2>2 DEF Channel!Next
<1> QED
  BY <1>1, <1>2, <1>3, <1>4, <1>5, <1>6, <1>7, <1>8 DEF RingNext, Producer, Consumer

\* The ring is the channel, read off the bytes it holds: what is committed enters whole with the store
\* of the tail, leaves in order with the store of the head, and nothing the producer writes or the
\* consumer skips meanwhile changes it (the safety half of IsChannel; that a message is taken in the
\* end needs fairness).
THEOREM RingImplementsChannel == RingSpec => Channel!Safety
<1>1. RingInit => Channel!Init
  <2>1. ASSUME RingInit PROVE Contents(head, tail) = <<>>
    <3>1. RingInv /\ head = 0 /\ tail = 0
      BY <2>1, RingInitInv DEF RingInit
    <3>2. buf \in Bufs
      BY <3>1, RingChain
    <3> QED BY <3>1, <3>2, ReadUnfold, ContentsIsRead
  <2> QED BY <2>1 DEF Channel!Init
<1>2. RingInv /\ RingInv' /\ [RingNext]_ringVars => [Channel!Next]_(Contents(head, tail))
  BY RingStepImplements
<1> QED BY <1>1, <1>2, RingInvariant, PTL DEF RingSpec, Channel!Safety
=============================================================================
