------------------------------ MODULE ExoSystem ------------------------------
(***************************************************************************)
(* The engine of ExoEngine composed with what it talks to over its single  *)
(* UDP socket: the network (datagrams lost, reordered, duplicated) and the *)
(* platform's CoAP server (activation, read, write, observe).  The server  *)
(* is not code of this repository; it is the environment, written from the *)
(* wire protocol of spec.md 6.3 and RFC 7252/7641: piggy-backed responses, *)
(* 4.01 for an unknown CIK, confirmable notifications that are retransmitted *)
(* until acknowledged and dropped on an RST or after the retransmissions   *)
(* run out.                                                                *)
(***************************************************************************)
EXTENDS ExoEngine

CONSTANTS
  SrvPays,       \* payload classes the platform may hold for the dataport
  MaxReenable,   \* times an operator re-enables the device (revoking its CIK)
  MaxLoss,       \* datagrams the network may lose (-1: any number)
  ServerErrors,  \* the platform may answer 5.xx
  Booted,        \* start from a device that has been initialised and activated
  Timely,        \* a round trip that is not lost ends within the request deadline
  MaxRestarts,   \* times the device loses power and boots again
  MaxRetransmit  \* retransmissions of a confirmable notification (RFC 7252 4.8)

ASSUME SrvPays \subseteq {"empty", "fits", "large"}

VARIABLES
  srvKey,        \* the CIK the platform last issued (NoKey: never activated)
  srvActive,     \* srvKey is valid and activation is closed
  srvSeq,        \* version of the observed dataport's value
  srvPay,        \* payload class of that value
  srvMid,        \* the platform's own message-id counter
  observers,     \* registered observers: token, last notification, acked
  reenables,     \* re-enable operations done so far
  restarts,      \* device restarts so far
  losses         \* datagrams lost so far (counted only under a finite MaxLoss)

srvVars == <<srvKey, srvActive, srvSeq, srvPay, srvMid, observers, reenables>>
envVars == <<restarts, losses>>
vars == <<engineVars, toServer, toDevice, srvVars, envVars>>

Observer == [token : Tokens, last : Msg, acked : BOOLEAN, left : 0..MaxRetransmit]

TypeOK ==
  /\ devState \in DevStates
  /\ cik \in Keys \cup {NoKey} /\ nvm \in Keys \cup {NoKey, Torn}
  /\ midCounter \in Mids
  /\ ops \in [Slots -> Op]
  /\ pc \in {"idle", "recv", "active"} /\ idx \in Slots
  /\ pduMid \in Mids \cup {Garbage}
  /\ toServer \subseteq Msg /\ toDevice \subseteq Msg
  /\ srvKey \in Keys \cup {NoKey} /\ srvActive \in BOOLEAN
  /\ srvSeq \in Seqs /\ srvPay \in SrvPays /\ srvMid \in Mids
  /\ observers \subseteq Observer
  /\ reenables \in 0..MaxReenable /\ restarts \in 0..MaxRestarts
  /\ losses \in 0..(IF MaxLoss < 0 THEN 0 ELSE MaxLoss)

\* The device starts either never activated, or activated earlier with the
\* CIK it stored then.
\* With Booted, the device starts where exo_init and a completed activation
\* leave it: Good, its CIK stored and known to the platform, slot 0 re-inited,
\* and the caller has staged its first operation (subscribe.c subscribes
\* once, before its loop).
SysInit ==
  /\ IF Booted
     THEN /\ \E k \in Keys : cik = k /\ nvm = k /\ srvKey = k
          /\ devState = "Good" /\ srvActive = TRUE
          /\ midCounter \in Mids
          /\ \E s \in UserSlots : \E t \in Role[s] : ops = [NoOps EXCEPT ![s] = Stage(@, t)]
          /\ pc = "idle" /\ idx = 0 /\ pduMid = Garbage /\ toServer = {} /\ toDevice = {}
     ELSE /\ Init
          /\ \/ srvKey = NoKey /\ srvActive = FALSE /\ nvm = NoKey
             \/ \E k \in Keys : srvKey = k /\ srvActive = TRUE /\ nvm = k
  /\ srvSeq = 0 /\ srvPay \in SrvPays /\ srvMid = 0
  /\ observers = {} /\ reenables = 0 /\ restarts = 0 /\ losses = 0

-----------------------------------------------------------------------------
(* The platform.                                                          *)

Valid(m) == srvActive /\ m.cik = srvKey

Reply(m, code) == [Datagram("ACK", code, m.mid, m.token) EXCEPT !.stale = m.stale]

\* The piggy-backed response to a request, or 5.xx when overloaded.
Serve ==
  /\ \E m \in toServer :
       /\ m.type = "CON"
       /\ toServer' \in {toServer \ {m}} \cup (IF Duplicating THEN {toServer} ELSE {})
       /\ \/ /\ ServerErrors
             /\ toDevice' = toDevice \cup {Reply(m, "5.xx")}
             /\ UNCHANGED <<srvKey, srvActive, observers>>
          \/ /\ m.code = "Activate" /\ ~srvActive
             /\ \E k \in Keys \ {srvKey} :
                  /\ srvKey' = k /\ srvActive' = TRUE
                  /\ toDevice' = toDevice \cup
                                   {[Reply(m, "2.xx") EXCEPT !.pay = "cik", !.key = k]}
             /\ UNCHANGED observers
          \/ /\ m.code = "Activate" /\ srvActive
             /\ toDevice' = toDevice \cup {Reply(m, "4.xx")}
             /\ UNCHANGED <<srvKey, srvActive, observers>>
          \/ /\ m.code \in {"Read", "Write", "Observe"} /\ ~Valid(m)
             /\ toDevice' = toDevice \cup {Reply(m, "4.01")}
             /\ UNCHANGED <<srvKey, srvActive, observers>>
          \/ /\ m.code = "Write" /\ Valid(m)
             /\ toDevice' = toDevice \cup {Reply(m, "2.xx")}
             /\ UNCHANGED <<srvKey, srvActive, observers>>
          \/ /\ m.code = "Read" /\ Valid(m)
             /\ toDevice' = toDevice \cup {[Reply(m, "2.xx") EXCEPT !.pay = srvPay, !.obs = srvSeq]}
             /\ UNCHANGED <<srvKey, srvActive, observers>>
          \/ /\ m.code = "Observe" /\ Valid(m)
             /\ LET r == [Reply(m, "2.xx") EXCEPT !.pay = srvPay, !.obs = srvSeq]
                IN /\ toDevice' = toDevice \cup {r}
                   /\ observers' = {o \in observers : o.token # m.token}
                                     \cup {[token |-> m.token, last |-> r, acked |-> TRUE, left |-> 0]}
             /\ UNCHANGED <<srvKey, srvActive>>
  /\ UNCHANGED <<srvSeq, srvPay, srvMid, reenables>>

\* The observed dataport takes a new value.
Publish ==
  /\ srvSeq < MaxSeq
  /\ srvSeq' = srvSeq + 1
  /\ srvPay' \in SrvPays
  /\ UNCHANGED <<srvKey, srvActive, srvMid, observers, reenables, toServer, toDevice>>

\* A confirmable notification of the current value to an observer behind it.
Notify ==
  /\ \E o \in observers :
       /\ o.last.obs < srvSeq
       /\ LET n == [Datagram("CON", "2.xx", srvMid, o.token) EXCEPT
                      !.pay = srvPay, !.obs = srvSeq]
          IN /\ toDevice' = toDevice \cup {n}
             /\ observers' = (observers \ {o}) \cup {[o EXCEPT !.last = n, !.acked = FALSE, !.left = MaxRetransmit]}
  /\ srvMid' = (srvMid + 1) % MidMod
  /\ UNCHANGED <<srvKey, srvActive, srvSeq, srvPay, reenables, toServer>>

\* An unacknowledged notification is sent again, or the observer is dropped
\* once the retransmissions are used up.
Retransmit ==
  /\ \E o \in observers :
       /\ ~o.acked
       /\ \/ /\ o.left > 0
             /\ toDevice' = toDevice \cup {o.last}
             /\ observers' = (observers \ {o}) \cup {[o EXCEPT !.left = @ - 1]}
          \/ /\ o.left = 0
             /\ observers' = observers \ {o}
             /\ UNCHANGED toDevice
  /\ UNCHANGED <<srvKey, srvActive, srvSeq, srvPay, srvMid, reenables, toServer>>

\* An ACK or RST from the device for the last notification of an observer.
OnEmpty ==
  /\ \E m \in toServer :
       /\ m.type \in {"ACK", "RST"}
       /\ toServer' = toServer \ {m}
       /\ observers' =
            IF m.type = "ACK"
            THEN {IF o.last.mid = m.mid THEN [o EXCEPT !.acked = TRUE] ELSE o : o \in observers}
            ELSE {o \in observers : o.last.mid # m.mid}
  /\ UNCHANGED <<srvKey, srvActive, srvSeq, srvPay, srvMid, reenables, toDevice>>

\* An operator re-enables the device: its CIK is revoked, activation reopens.
Reenable ==
  /\ reenables < MaxReenable
  /\ srvActive
  /\ srvActive' = FALSE
  /\ observers' = {}
  /\ reenables' = reenables + 1
  /\ UNCHANGED <<srvKey, srvSeq, srvPay, srvMid, toServer, toDevice>>

-----------------------------------------------------------------------------
(* The network.                                                           *)

Lose ==
  /\ MaxLoss < 0 \/ losses < MaxLoss
  /\ losses' = IF MaxLoss < 0 THEN losses ELSE losses + 1
  /\ \/ \E m \in toServer : toServer' = toServer \ {m} /\ UNCHANGED toDevice
     \/ \E m \in toDevice : toDevice' = toDevice \ {m} /\ UNCHANGED toServer
  /\ UNCHANGED <<engineVars, srvVars>>

\* The platform sends only while the network towards the device has room.
ServerStep ==
  /\ pc = "idle"
  /\ Cardinality(toDevice) < MaxInFlight
  /\ \/ Serve \/ Publish \/ Notify \/ Retransmit \/ OnEmpty \/ Reenable
  /\ UNCHANGED engineVars

\* A request of a Pending slot, or the response to it, is on the network.
RoundTripInFlight ==
  \E s \in Slots : ops[s].state = "Pending" /\
    \/ \E m \in toServer : m.type = "CON" /\ m.mid = ops[s].mid /\ m.token = ops[s].token
    \/ \E m \in toDevice : m.type = "ACK" /\ m.mid = ops[s].mid /\ m.token = ops[s].token

\* Time passes; under Timely not while a round trip is under way.
Clock == Tick /\ (Timely => ~RoundTripInFlight) /\ UNCHANGED <<srvVars, envVars>>

\* The device loses power, at any point of a poll: RAM (device_state, cik[],
\* message_id_counter, the caller's array) is gone, the stored CIK and the
\* datagrams already on the network are not.  It boots as from reset.  The
\* datagrams in flight are marked stale (history only).
MarkStale(net) == {[m EXCEPT !.stale = TRUE] : m \in net}

Restart ==
  /\ restarts < MaxRestarts
  /\ restarts' = restarts + 1
  /\ devState' = "Uninitialized" /\ cik' = NoKey /\ midCounter' = 0
  /\ ops' = NoOps /\ pc' = "idle" /\ idx' = 0 /\ pduMid' = Garbage
  /\ toServer' = MarkStale(toServer) /\ toDevice' = MarkStale(toDevice)
  /\ UNCHANGED <<nvm, srvVars, losses>>

EnvStep == pc = "idle" /\ Lose /\ UNCHANGED restarts

Next ==
  \/ EngineStep /\ UNCHANGED <<srvVars, envVars>>
  \/ CallerStep /\ UNCHANGED <<srvVars, envVars>>
  \/ Clock
  \/ ServerStep /\ UNCHANGED envVars
  \/ EnvStep
  \/ Restart

Spec == SysInit /\ [][Next]_vars

-----------------------------------------------------------------------------
(* Fairness.  exo_operate is polled regularly (spec 5) and time passes.    *)
(* Beyond that, the platform answers what reaches it, a datagram on the    *)
(* network is eventually received, and the caller (src/examples/           *)
(* subscribe.c) eventually calls exo_op_done on a finished slot and       *)
(* issues its operations again.  These                                     *)
(* steps are taken between two polls only, so they are enabled             *)
(* intermittently and need strong fairness.  Loss, send failures, restarts *)
(* and re-enables get none.                                                *)

Engine == EngineStep /\ UNCHANGED <<srvVars, envVars>>
Deliver == (RecvMatched \/ RecvUnmatched) /\ UNCHANGED <<srvVars, envVars>>
Platform(A) == A /\ ServerStep /\ UNCHANGED envVars
Consume == \E s \in UserSlots : CallerDone(s) /\ UNCHANGED <<srvVars, envVars>>
Request == \E s \in UserSlots : \E t \in Role[s] : CallerStage(s, t) /\ UNCHANGED <<srvVars, envVars>>
Boot == ExoInit("ok") /\ UNCHANGED <<srvVars, envVars>>

\* The engine is polled and time passes.
PolledSpec == Spec /\ WF_vars(Engine) /\ SF_vars(Clock) /\ SF_vars(Boot)

\* ... and the platform, the network and the caller do their part.
LiveSpec ==
  /\ PolledSpec
  /\ SF_vars(Deliver) /\ SF_vars(Platform(Serve)) /\ SF_vars(Platform(OnEmpty))
  /\ SF_vars(Consume) /\ SF_vars(Request)

-----------------------------------------------------------------------------
(* Refinement: the slot and device lifecycle of OpLifecycle, seen through  *)
(* the state of each slot and the device.                                  *)

PhaseOf(st) ==
  CASE st = "Null"                                   -> "Free"
    [] st = "New"                                    -> "Queued"
    [] st = "Pending"                                -> "Sent"
    [] st \in {"Subscribed", "SubAck", "SubAckNew"}  -> "Live"
    [] st \in Finished                               -> st

Lifecycle == INSTANCE OpLifecycle WITH
  phase  <- [s \in Slots |-> PhaseOf(ops[s].state)],
  kind   <- [s \in Slots |-> ops[s].type],
  device <- devState,
  key    <- cik

-----------------------------------------------------------------------------
(* Properties.                                                            *)

\* Every step of the device, the caller, the network and the platform is a
\* step of the lifecycle of spec 3 and 4.4: a slot is queued, sent, answered
\* or expired, and collected by the caller, in that order; a finished slot
\* moves only through exo_op_done (spec 8 (ii)); a subscription re-registers
\* only from Sent or Live; slot 0's activation ends by freeing the slot; and
\* the CIK changes only in exo_init, a captured activation, or a restart.
LifecycleRefined == Lifecycle!Spec

\* Spec 4.4 (every request carries a fresh message id and token): a datagram
\* the device receives is matched to one of its slots only if it was sent
\* after the device last booted, or answers a request that was.  A response
\* still on the network from before a restart must not complete a request
\* of the new boot; exo_init reseeds the id counter from time(NULL).
AnswerFromThisBoot ==
  [][RecvMatched => \A m \in toDevice \ toDevice' : ~m.stale]_vars
\* Spec 4.4, activation gating: no user operation transmits before the device
\* holds a CIK.  Checked on the wire: every read, write or observe request the
\* device has sent carries a CIK.
NoRequestWithoutCik ==
  \A m \in toServer : m.code \in {"Read", "Write", "Observe"} => m.cik # NoKey

\* Spec 4.4, outbound processing: the ACK sent from a SubAck/SubAckNew slot
\* acknowledges the most recently received notification, whose message id
\* exo_process_waiting_datagrams stored in the slot.
AckMatchesNotification ==
  [][ActiveStep =>
       \A a \in toServer' \ toServer : a.type = "ACK" => a.mid = ops[idx].mid]_vars

\* Observe freshness (spec 8): the caller's buffer of a subscription never
\* goes back to an older value of the dataport, however the network reorders
\* or duplicates notifications (the handler copies the payload before it
\* looks at the Observe number).
ValueNeverRegresses ==
  [][\A s \in Slots :
       ops[s].type = "Subscribe" /\ ops'[s].type = "Subscribe" => ops'[s].seen >= ops[s].seen]_vars

\* A read or write the caller stages on a device that has its CIK always
\* finishes, Success or Error: the response arrives or the 4 s deadline of
\* exo_process_active_ops fires.
OpsEventuallyFinish ==
  \A s \in UserSlots :
    (ops[s].type \in {"Read", "Write"} /\ ops[s].state = "New") ~> ops[s].state \in Finished

\* A subscription eventually shows the caller the platform's last value:
\* through a notification, or through the re-registration that follows when
\* notifications stop.
LatestValueDelivered ==
  srvSeq = MaxSeq ~>
    \E s \in UserSlots : ops[s].type = "Subscribe" /\ ops[s].state = "Success"
                         /\ ops[s].seen = MaxSeq

\* Activation completes: a device that has been initialised eventually holds a
\* CIK the platform accepts.
ActivationCompletes ==
  <>(devState = "Good" /\ cik = srvKey /\ srvActive)

\* After an operator re-enables the device (revoking its CIK), the device
\* eventually holds the CIK the platform issues next: a request is answered
\* 4.01, device_state becomes BadCik, and the activation gate of exo_operate
\* activates again.
ReactivationCompletes ==
  (~srvActive /\ srvKey # NoKey) ~> (srvActive /\ cik = srvKey /\ devState = "Good")
\* Spec 4.3 and 6 (store_cik persists exactly 40 bytes; retrieve_cik
\* reports a missing CIK as "no CIK yet", which exo_init does not treat as
\* fatal): a device that restarts after it has activated boots again.  An
\* exo_init retried by the caller eventually succeeds, so exo_operate leaves
\* Uninitialized, whatever exopal_store_cik left in the cik file.
InitRecovers ==
  devState = "Uninitialized" ~> devState # "Uninitialized"
=============================================================================
