----------------------------- MODULE Connection -----------------------------
(***************************************************************************)
(* The resilient WebSocket connection (net::Connection over WsClient): it  *)
(* resolves, connects, authenticates and subscribes, notices a silent or   *)
(* dead peer, backs off and tries again, and opens a second session ahead  *)
(* of the venue's lifetime limit while the first keeps delivering.         *)
(*                                                                         *)
(* Everything runs on the reactor thread, so an action is one callback:    *)
(* a lookup's answer, an event of a session's socket, a timer, a call of   *)
(* the venue.  A socket is connecting, shaking hands (TLS), upgrading or   *)
(* open; the peer of a hung one never does anything again and never closes *)
(* it.  Delays are left out: an armed timer fires some time, and how long  *)
(* nothing was received is fresh, stale or dead.                           *)
(*                                                                         *)
(* Left out: payloads and the frame codec, cork and uncork, statistics,    *)
(* the choice among several addresses of the host (each lookup starts with *)
(* the first), the graveyard that delays the destruction of a session.     *)
(***************************************************************************)
EXTENDS Naturals, FiniteSets

CONSTANTS
  Configs,     \* the configurations considered
  MaxFaults,   \* failures of lookups, sockets and peers
  MaxCloses    \* calls of close()

ASSUME ConnectionAssumption ==
  /\ MaxFaults \in Nat /\ MaxCloses \in Nat
  /\ Configs \subseteq [tls : BOOLEAN, manualAuth : BOOLEAN, manualSubscribe : BOOLEAN,
                        heartbeat : BOOLEAN, lifetime : BOOLEAN]
  \* The connectors that authenticate in on_state() set no lifetime: a rollover's session never
  \* changes the public state.
  /\ \A c \in Configs : c.manualAuth => ~c.lifetime

VARIABLES
  cfg,         \* ConnectionConfig
  conn,        \* the Connection and its sessions
  budget       \* what is left of MaxFaults and MaxCloses

vars == <<cfg, conn, budget>>

NoSession == [phase |-> "None", ws |-> "closed", hung |-> FALSE, subscribed |-> FALSE]
NewSession == [phase |-> "Connecting", ws |-> "connecting", hung |-> FALSE, subscribed |-> FALSE]
SessionTimers == {"connect", "health", "heartbeat", "lifetime"}

\* The two members that hold a session.
Slots == {"active", "pending"}
Has(k, who) == k[who] # NoSession
IsLive(k) == k.state \in {"Live", "Stale"}

-----------------------------------------------------------------------------
(***************************************************************************)
(* The member functions, on the connection k.                              *)
(***************************************************************************)

SetState(k, s) == [k EXCEPT !.state = s]
Arm(k, t) == [k EXCEPT !.timers = @ \cup {t}]
Disarm(k, ts) == [k EXCEPT !.timers = @ \ ts]

Newest(k) == IF Has(k, "pending") THEN "pending" ELSE "active"

\* Fault: a rollover's session is written to only once it has replaced the other.
SendActive(k) == "active"

\* send_target(): the newest session from its on_ws_open on.
SendTarget(k) ==
  IF Has(k, "pending") /\ k.pending.phase # "Connecting" THEN "pending" ELSE "active"

StartResolve(k) == [SetState(k, "Resolving") EXCEPT !.looking = TRUE]
ScheduleBackoff(k) == Arm(SetState(k, "Backoff"), "backoff")

\* Fault: a rollover that failed is not tried again.
NoRolloverRetry(k) == k

ScheduleRolloverRetry(k) == Arm(k, "lifetime")

OpenSession(k, who, refused) ==
  IF refused THEN IF who = "pending" THEN ScheduleRolloverRetry(k) ELSE ScheduleBackoff(k)
  ELSE Arm([k EXCEPT ![who] = NewSession, !.state = IF who = "active" THEN "Connecting" ELSE @],
           "connect")

StateOf(s) == CASE s.phase = "Connecting" -> "Connecting"
                [] s.phase = "Authenticating" -> "Authenticating"
                [] OTHER -> "Subscribing"

OnSessionEnd(k, who) ==
  IF ~Has(k, who) THEN k
  ELSE IF who = "pending" THEN ScheduleRolloverRetry([k EXCEPT !.pending = NoSession])
  ELSE IF Has(k, "pending")
  THEN [k EXCEPT !.active = k.pending, !.pending = NoSession, !.state = StateOf(k.pending)]
  ELSE ScheduleBackoff(Disarm([k EXCEPT !.active = NoSession], SessionTimers))

PromotePending(k) == [k EXCEPT !.active = k.pending, !.pending = NoSession]

\* Fault: the silence of the new session is not watched.
ArmsNoHealth(k) ==
  [k EXCEPT !.timers = @ \cup (IF cfg.heartbeat THEN {"heartbeat"} ELSE {})
                         \cup (IF cfg.lifetime THEN {"lifetime"} ELSE {})]

\* arm_health_timer(), arm_heartbeat_timer(), arm_lifetime_timer().
ArmLiveTimers(k) ==
  [k EXCEPT !.timers = ((@ \ {"heartbeat", "lifetime"}) \cup {"health"})
                         \cup (IF cfg.heartbeat THEN {"heartbeat"} ELSE {})
                         \cup (IF cfg.lifetime THEN {"lifetime"} ELSE {})]

EnterLive(k, who) ==
  LET live == Disarm([k EXCEPT ![who].phase = "Live"], {"connect"})
  IN  ArmLiveTimers(SetState(IF who = "pending" THEN PromotePending(live) ELSE live, "Live"))

\* on_connected_send_subscriptions() sends to the send target; a write that fails ends that session
\* before the call returns.
EnterSubscribing(k, who, writeFails) ==
  LET entered == [k EXCEPT ![who].phase = "Subscribing",
                           !.state = IF who = "active" THEN "Subscribing" ELSE @]
      target  == SendTarget(entered)
      sent    == [entered EXCEPT ![target].subscribed = TRUE]
  IN  IF writeFails THEN OnSessionEnd(entered, target)
      ELSE IF cfg.manualSubscribe THEN sent ELSE EnterLive(sent, who)

\* touch_rx()
TouchRx(k) == [k EXCEPT !.quiet = "fresh"]

OnSessionOpen(k, who, writeFails) ==
  LET opened == TouchRx([k EXCEPT ![who].ws = "open", ![who].phase = "Authenticating",
                                  !.state = IF who = "active" THEN "Authenticating" ELSE @])
  IN  IF cfg.manualAuth THEN opened ELSE EnterSubscribing(opened, who, writeFails)

\* Fault: a rollover in progress outlives close().
TeardownActive(k) ==
  [Disarm(k, SessionTimers \cup {"backoff"}) EXCEPT
     !.active = NoSession, !.orphans = IF k.looking THEN @ + 1 ELSE @, !.looking = FALSE]

\* teardown(): a lookup in flight is orphaned.
Teardown(k) ==
  [Disarm(k, SessionTimers \cup {"backoff"}) EXCEPT
     !.active = NoSession, !.pending = NoSession,
     !.orphans = IF k.looking THEN @ + 1 ELSE @, !.looking = FALSE]

-----------------------------------------------------------------------------
(***************************************************************************)
(* Calls of the venue.                                                     *)
(***************************************************************************)

Connect ==
  /\ conn.state = "Idle"
  /\ conn' = StartResolve([conn EXCEPT !.closed = FALSE])
  /\ UNCHANGED <<cfg, budget>>

Close ==
  /\ conn.state # "Idle" /\ budget.closes > 0
  /\ conn' = SetState(Teardown([conn EXCEPT !.closed = TRUE]), "Idle")
  /\ budget' = [budget EXCEPT !.closes = @ - 1]
  /\ UNCHANGED cfg

-----------------------------------------------------------------------------
(***************************************************************************)
(* The network.  A step that fails is a fault.                             *)
(***************************************************************************)

FaultIf(fails) ==
  /\ fails => budget.faults > 0
  /\ budget' = IF fails THEN [budget EXCEPT !.faults = @ - 1] ELSE budget

\* The lookup of this generation is answered: an address, or none.
Resolved ==
  \E outcome \in {"connecting", "refused", "unknown host"} :
    /\ conn.looking
    /\ LET k == [conn EXCEPT !.looking = FALSE]
       IN  conn' = IF outcome = "unknown host" THEN ScheduleBackoff(k)
                   ELSE OpenSession(k, "active", outcome = "refused")
    /\ FaultIf(outcome # "connecting")
    /\ UNCHANGED cfg

\* Fault: a lookup is taken whichever generation it was for.
AnyGeneration(k) == ~k.closed

\* gen != resolve_gen_ || user_closed_: the lookup of an earlier generation.
OrphanServed(k) == FALSE

OrphanResolved ==
  /\ conn.orphans > 0
  /\ LET k == [conn EXCEPT !.orphans = @ - 1]
     IN  conn' = IF OrphanServed(k) THEN OpenSession(k, "active", FALSE) ELSE k
  /\ UNCHANGED <<cfg, budget>>

Responsive(who) == Has(conn, who) /\ ~conn[who].hung

\* on_session_progress(): a rollover's session does not change the public state.
Progress(who) ==
  /\ Responsive(who)
  /\ \/ /\ conn[who].ws = "connecting" /\ cfg.tls
        /\ conn' = [conn EXCEPT ![who].ws = "handshake",
                                !.state = IF who = "active" THEN "TlsHandshake" ELSE @]
     \/ /\ conn[who].ws = IF cfg.tls THEN "handshake" ELSE "connecting"
        /\ conn' = [conn EXCEPT ![who].ws = "upgrading",
                                !.state = IF who = "active" THEN "WsHandshake" ELSE @]
  /\ UNCHANGED <<cfg, budget>>

Opened(who) ==
  \E writeFails \in BOOLEAN :
    /\ Responsive(who) /\ conn[who].ws = "upgrading"
    /\ writeFails => ~cfg.manualAuth
    /\ conn' = OnSessionOpen(conn, who, writeFails)
    /\ FaultIf(writeFails)
    /\ UNCHANGED cfg

\* The venue's answers, on which the handler calls auth_done() and subscribe_done(): both act on
\* the newest session.
AuthDone ==
  \E writeFails \in BOOLEAN :
    LET who == Newest(conn)
    IN  /\ Responsive(who) /\ conn[who].phase = "Authenticating"
        /\ conn' = EnterSubscribing(TouchRx(conn), who, writeFails)
        /\ FaultIf(writeFails)
        /\ UNCHANGED cfg

SubscribeDone ==
  LET who == Newest(conn)
  IN  /\ Responsive(who) /\ conn[who].phase = "Subscribing" /\ conn[who].subscribed
      /\ conn' = EnterLive(TouchRx(conn), who)
      /\ UNCHANGED <<cfg, budget>>

\* on_rx(): a message of either session.  A ping only counts as received.
Message(who) ==
  /\ Responsive(who) /\ conn[who].ws = "open"
  /\ conn' = [TouchRx(conn) EXCEPT !.state = IF @ = "Stale" THEN "Live" ELSE @]
  /\ UNCHANGED <<cfg, budget>>

Ping(who) ==
  /\ Responsive(who) /\ conn[who].ws = "open"
  /\ conn' = TouchRx(conn)
  /\ UNCHANGED <<cfg, budget>>

\* on_ws_close(), on_ws_error()
Ended(who) ==
  /\ Has(conn, who) /\ FaultIf(TRUE)
  /\ conn' = OnSessionEnd(conn, who)
  /\ UNCHANGED cfg

Hang(who) ==
  /\ Responsive(who) /\ FaultIf(TRUE)
  /\ conn' = [conn EXCEPT ![who].hung = TRUE]
  /\ UNCHANGED cfg

\* Nothing is received for longer, because nobody is left to send or, as a fault, for no reason.
NobodySends == \A who \in Slots : ~(Responsive(who) /\ conn[who].ws = "open")
Quieter ==
  /\ conn.quiet # "dead"
  /\ FaultIf(~NobodySends)
  /\ conn' = [conn EXCEPT !.quiet = IF @ = "fresh" THEN "stale" ELSE "dead"]
  /\ UNCHANGED cfg

-----------------------------------------------------------------------------
(***************************************************************************)
(* Timers.                                                                 *)
(***************************************************************************)

\* Sooner than a peer that works answers: a fault.
ConnectTimer ==
  LET who == Newest(conn)
      k   == Disarm(conn, {"connect"})
      cut == Has(conn, who) /\ conn[who].phase # "Live"
  IN  /\ "connect" \in conn.timers
      /\ FaultIf(cut /\ Responsive(who))
      /\ conn' = IF cut THEN OnSessionEnd(k, who) ELSE k
      /\ UNCHANGED cfg

HealthTimer ==
  LET k == Disarm(conn, {"health"})
  IN  /\ "health" \in conn.timers
      /\ conn' = IF ~IsLive(conn) THEN k
                 ELSE IF conn.quiet = "dead" THEN OnSessionEnd(k, "active")
                 ELSE [conn EXCEPT !.state = IF conn.quiet = "stale" THEN "Stale" ELSE @]
      /\ UNCHANGED <<cfg, budget>>

\* send_ping() goes to the send target, which a write that fails ends.
HeartbeatTimer ==
  \E writeFails \in BOOLEAN :
    /\ "heartbeat" \in conn.timers
    /\ writeFails => IsLive(conn)
    /\ conn' = IF ~IsLive(conn) THEN Disarm(conn, {"heartbeat"})
               ELSE IF writeFails THEN Arm(OnSessionEnd(conn, SendTarget(conn)), "heartbeat")
               ELSE conn
    /\ FaultIf(writeFails)
    /\ UNCHANGED cfg

\* start_rollover()
LifetimeTimer ==
  \E refused \in BOOLEAN :
    LET k == Disarm(conn, {"lifetime"})
        rolls == IsLive(conn) /\ ~Has(conn, "pending")
    IN  /\ "lifetime" \in conn.timers
        /\ refused => rolls
        /\ conn' = IF rolls THEN OpenSession(k, "pending", refused) ELSE k
        /\ FaultIf(refused)
        /\ UNCHANGED cfg

BackoffTimer ==
  /\ "backoff" \in conn.timers
  /\ LET k == Disarm(conn, {"backoff"})
     IN  conn' = IF conn.closed THEN k ELSE StartResolve(k)
  /\ UNCHANGED <<cfg, budget>>

-----------------------------------------------------------------------------
Init ==
  /\ cfg \in Configs
  /\ conn = [state |-> "Idle", active |-> NoSession, pending |-> NoSession, timers |-> {},
             looking |-> FALSE, orphans |-> 0, quiet |-> "dead", closed |-> FALSE]
  /\ budget = [faults |-> MaxFaults, closes |-> MaxCloses]

Next ==
  \/ Connect \/ Close \/ Resolved \/ OrphanResolved \/ AuthDone \/ SubscribeDone \/ Quieter
  \/ \E who \in Slots : Progress(who) \/ Opened(who) \/ Message(who) \/ Ping(who)
                        \/ Ended(who) \/ Hang(who)
  \/ ConnectTimer \/ HealthTimer \/ HeartbeatTimer \/ LifetimeTimer \/ BackoffTimer

Spec == Init /\ [][Next]_vars

(***************************************************************************)
(* Fairness: the resolver answers, a peer that is not hung carries each    *)
(* handshake on and keeps sending, time passes and an armed timer fires;   *)
(* the connect timer of a hung peer only.  Nobody has to call connect().   *)
(***************************************************************************)
Fairness ==
  /\ WF_vars(Resolved) /\ WF_vars(AuthDone) /\ WF_vars(SubscribeDone)
  /\ \A who \in Slots : WF_vars(Progress(who)) /\ WF_vars(Opened(who))
  /\ WF_vars(Message("active"))
  /\ WF_vars(NobodySends /\ Quieter)
  /\ WF_vars(~Responsive(Newest(conn)) /\ ConnectTimer)
  /\ WF_vars(HealthTimer) /\ WF_vars(BackoffTimer)

FairSpec == Spec /\ Fairness

-----------------------------------------------------------------------------
(***************************************************************************)
(* Properties.                                                             *)
(***************************************************************************)

\* Whatever the connection waits for, something will end the wait: a lookup, the connect timer of a
\* session that is not live, the health timer of one that is, the backoff timer, and a timer or a
\* session for the next rollover.  Through every failure of either session during a rollover and
\* every early return of the timers' callbacks.
NeverWaitsForNothing ==
  CASE conn.state = "Resolving" -> conn.looking
    [] conn.state \in {"Connecting", "TlsHandshake", "WsHandshake", "Authenticating", "Subscribing"}
         -> Has(conn, "active") /\ conn.active.phase # "Live" /\ "connect" \in conn.timers
    [] IsLive(conn) ->
         /\ conn.active.phase = "Live" /\ "health" \in conn.timers
         /\ Has(conn, "pending") => conn.pending.phase # "Live" /\ "connect" \in conn.timers
         /\ cfg.lifetime => Has(conn, "pending") \/ "lifetime" \in conn.timers
    [] conn.state = "Backoff" -> "backoff" \in conn.timers /\ ~Has(conn, "active")
    [] conn.state = "Idle" -> TRUE

\* A live connection's subscriptions were sent on the very session that is live, also when that
\* session started as a rollover and when it took the other's place half-way (send_target).
LiveIsSubscribed == IsLive(conn) => conn.active.subscribed

\* After close() no session, timer or lookup is left that could bring the connection back, a
\* rollover in progress included.
CloseIsFinal ==
  conn.closed => /\ conn.state = "Idle" /\ conn.timers = {} /\ ~conn.looking
                 /\ \A who \in Slots : ~Has(conn, who)

\* A session is never replaced by another before it has ended: a lookup that close() orphaned
\* opens nothing next to the one of the connection made since.
OneSessionAtATime ==
  [][Has(conn, "active") /\ conn'.active = NewSession
       => NewSession \in {conn.active, conn.pending}]_vars

\* Once the network stops failing, a connection nobody closed is live with a peer that answers.
ComesBack ==
  <>[](conn.state = "Idle" \/ (IsLive(conn) /\ ~conn.active.hung))

=============================================================================
