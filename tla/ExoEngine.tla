------------------------------ MODULE ExoEngine ------------------------------
(***************************************************************************)
(* The non-blocking operation engine of src/src/exosite.c: the caller-owned *)
(* array of exo_op slots, the process-wide device state (device_state, cik, *)
(* message_id_counter) and one poll of exo_operate, split into the steps   *)
(* the code takes in order: the activation gate, the receive loop of       *)
(* exo_process_waiting_datagrams (one datagram per step) and the slot loop *)
(* of exo_process_active_ops (one slot per step).  The caller's API calls  *)
(* (exo_init, exo_read, exo_write, exo_subscribe, exo_op_done) are actions *)
(* taken between two polls.  The UDP socket is the pair of message sets    *)
(* toServer / toDevice; the module that composes the engine with the       *)
(* platform (ExoSystem) moves messages across them.                        *)
(*                                                                         *)
(* Data is abstracted to what the properties tell apart: an alias or a     *)
(* value is not represented, a payload is its length class relative to the *)
(* caller's buffer, a CIK is a model value, absolute microsecond deadlines *)
(* are replaced by the time left until them.                                *)
(***************************************************************************)
EXTENDS Integers, FiniteSets, FiniteSetsExt

CONSTANTS
  Slots,        \* indices 0..N-1 of the exo_op array passed to exo_operate
  UserSlots,    \* slots the caller itself stages operations in
  Role,         \* Role[s] : the operation types the caller issues on slot s
  MidMod,       \* size of the CoAP message-id space (2^16 in the code)
  Tokens,       \* values of rand() truncated to the 2-byte token
  NoToken,      \* the token of a message sent with TKL 0
  Keys,         \* CIKs the platform can issue
  NoKey,        \* the all-zero cik[] buffer before any CIK is known
  MaxSeq,       \* largest observe sequence number the platform reaches
  ReqTimeout,   \* the 4 s request deadline, in clock ticks
  ObsTimeout,   \* the 120 s re-subscribe period, in clock ticks
  Jitter,       \* largest rand() % 15 * 100000 us, in clock ticks
  SendMayFail,  \* exopal_udp_send may return non-zero
  StoreMayFail, \* exopal_store_cik may fail (its result is ignored)
  Duplicating,  \* the network may deliver a datagram more than once
  MaxInFlight   \* datagrams the network holds in each direction at once

ASSUME Slots = 0..(Cardinality(Slots) - 1)
ASSUME UserSlots \subseteq Slots \ {0}
ASSUME MidMod \in Nat \ {0} /\ MaxSeq \in Nat
ASSUME ReqTimeout \in Nat \ {0} /\ ObsTimeout \in Nat \ {0} /\ Jitter \in Nat

VARIABLES
  devState,     \* device_state
  cik,          \* cik[]: the CIK presented on data requests
  nvm,          \* the cik file: absent (NoKey), Torn, or a stored CIK
  midCounter,   \* message_id_counter
  ops,          \* the caller's exo_op array
  pc,           \* where exo_operate is: "idle" (not running), "recv", "active"
  idx,          \* loop index i of exo_process_active_ops
  pduMid,       \* message id held in exo_process_active_ops' local buf[]
  toServer,     \* datagrams sent by the device and not yet consumed
  toDevice      \* datagrams sent to the device and not yet received

engineVars == <<devState, cik, nvm, midCounter, ops, pc, idx, pduMid>>

Mids == 0..(MidMod - 1)
Seqs == 0..MaxSeq
NotArmed == -1          \* op->timeout == 0: never armed since exo_op_init
Garbage == -1           \* buf[] not written yet in this call (uninitialized)
Torn == "torn"          \* a cik file shorter than 40 bytes
MaxTimer == ObsTimeout + Jitter

DevStates == {"Uninitialized", "Initialized", "Good", "BadCik"}
OpTypes  == {"Null", "Write", "Read", "Subscribe", "Activate"}
OpStates == {"Null", "New", "Pending", "Subscribed", "SubAck", "SubAckNew",
             "Success", "Error"}
Finished == {"Success", "Error"}

\* Message codes: the four requests the builders make, the response classes
\* the engine tells apart (class 2, 4.01 Unauthorized, other 4.xx, 5.xx) and
\* the Empty code of ACK and RST.  A payload is its length class: "cik" is
\* exactly CIK_LENGTH bytes, "fits" fits value_max with its NUL, "large"
\* does not.  obs is the Observe option of a notification or register
\* response; on any reply carrying a data value it also names the version
\* of that value, and an op's seen field is the version its buffer holds.
ReqCodes  == {"Activate", "Read", "Write", "Observe"}
RespCodes == {"2.xx", "4.01", "4.xx", "5.xx"}
PayKinds  == {"empty", "fits", "large", "cik"}

Msg == [type : {"CON", "ACK", "RST"}, code : ReqCodes \cup RespCodes \cup {"0.00"},
        mid : Mids, token : Tokens \cup {NoToken}, cik : Keys \cup {NoKey},
        obs : Seqs, pay : PayKinds, key : Keys \cup {NoKey}, stale : BOOLEAN]

Op == [type : OpTypes, state : OpStates, mid : Mids, token : Tokens \cup {NoToken},
       obs_seq : Seqs, timer : {NotArmed} \cup 0..MaxTimer, value : BOOLEAN, seen : Seqs]

\* A datagram of the given fields, the others at their neutral value.  The
\* field stale is history, read by no action: it marks a datagram that was
\* on the network when the device restarted, and the answers to it.
Datagram(type, code, mid, token) ==
  [type |-> type, code |-> code, mid |-> mid, token |-> token, cik |-> NoKey,
   obs |-> 0, pay |-> "empty", key |-> NoKey, stale |-> FALSE]


\* timeout <= now: a never-armed timeout (0) is always in the past.
Expired(t) == t <= 0

-----------------------------------------------------------------------------
(* The slot API.                                                          *)

OpInit(o) ==                              \* exo_op_init (token untouched)
  [o EXCEPT !.type = "Null", !.state = "Null", !.value = FALSE, !.mid = 0,
            !.obs_seq = 0, !.timer = NotArmed]

Stage(o, t) ==                            \* exo_write, exo_read, exo_subscribe
  [o EXCEPT !.type = t, !.state = "New", !.value = TRUE, !.mid = 0]

Activate(o) ==                            \* exo_activate
  [o EXCEPT !.type = "Activate", !.state = "New", !.value = FALSE, !.mid = 0]

OpDone(o) ==                              \* exo_op_done
  IF o.type = "Subscribe" THEN [o EXCEPT !.state = "Subscribed"] ELSE OpInit(o)

\* The outcome of copying a class-2 payload into the caller's buffer.
CopyOutcome(o, m) ==
  CASE m.pay = "empty"                  -> "cleared"
    [] m.pay = "large" \/ ~o.value      -> "error"
    [] OTHER                            -> "copied"

\* The slot a datagram is handed to: the first whose branch of the matching
\* loop accepts it (by mid while Pending, by token while Subscribed).
Accepts(o, m) ==
  \/ o.type \in {"Write", "Read", "Subscribe", "Activate"}
     /\ o.state = "Pending" /\ o.mid = m.mid
  \/ o.type = "Subscribe" /\ o.state = "Subscribed" /\ o.token = m.token

Hits(m) == {s \in Slots : Accepts(ops[s], m)}

\* The datagram is taken off the socket; a duplicate of it may still follow.
Received(m) == toDevice' \in {toDevice \ {m}} \cup (IF Duplicating THEN {toDevice} ELSE {})

\* A best-effort exopal_udp_send of datagram d.  A datagram sent while the
\* network already holds MaxInFlight towards the platform is dropped.
Net(d) == IF Cardinality(toServer) < MaxInFlight THEN toServer \cup {d} ELSE toServer
Send(d) == toServer' \in {Net(d)} \cup (IF SendMayFail THEN {toServer} ELSE {})

\* The cik file on disk after the POSIX exopal_store_cik: fopen("cik", "w")
\* truncates it, and fwrite leaves the 40 bytes in the stdio buffer of a
\* FILE that is never flushed or closed, so the file stays empty (Torn)
\* until the process exits normally, which subscribe.c never does.  When
\* fopen fails the file is untouched.  The caller ignores the result.
StoreCik == {Torn} \cup (IF StoreMayFail THEN {nvm} ELSE {})

\* device_state after a non-2.xx response to a data request.
AfterReject(m) == IF m.code = "4.01" THEN "BadCik" ELSE devState

-----------------------------------------------------------------------------
(* The caller.                                                            *)

\* The caller's array after exo_op_init on every slot.
NoOps == [s \in Slots |-> [type |-> "Null", state |-> "Null", mid |-> 0, token |-> NoToken,
                          obs_seq |-> 0, timer |-> NotArmed, value |-> FALSE, seen |-> 0]]

Init ==
  /\ devState = "Uninitialized"
  /\ cik = NoKey
  /\ nvm \in {NoKey} \cup Keys
  /\ midCounter = 0
  /\ ops = NoOps
  /\ pc = "idle"
  /\ idx = 0
  /\ pduMid = Garbage
  /\ toServer = {}
  /\ toDevice = {}

\* exopal_retrieve_cik (POSIX): 1 when the cik file is absent, 2 when fread
\* gets fewer than 40 bytes from it, 0 when it returns the stored CIK.
RetrieveCik == CASE nvm = NoKey -> 1 [] nvm = Torn -> 2 [] OTHER -> 0

\* exopal_udp_sock: 0, or an error when getaddrinfo, socket or connect fails.
SockOutcomes == {"ok", "error"}

\* exo_init: srand/rand seed message_id_counter, then the CIK is retrieved;
\* a result above 1 fails exo_init with EXO_FATAL_ERROR_PAL before the
\* socket is opened, 1 leaves cik[] as it is.  A socket error fails
\* exo_init too.  A failed exo_init leaves the device Uninitialized.
ExoInit(sock) ==
  /\ pc = "idle"
  /\ devState = "Uninitialized"
  /\ \E c \in Mids : midCounter' = c
  /\ cik' = IF RetrieveCik = 0 THEN nvm ELSE cik
  /\ devState' = IF RetrieveCik <= 1 /\ sock = "ok" THEN "Initialized" ELSE "Uninitialized"
  /\ UNCHANGED <<nvm, ops, pc, idx, pduMid, toServer, toDevice>>

\* exo_read / exo_write / exo_subscribe on a free slot.
CallerStage(s, t) ==
  /\ pc = "idle"
  /\ ops[s].state = "Null"
  /\ ops' = [ops EXCEPT ![s] = Stage(@, t)]
  /\ UNCHANGED <<devState, cik, nvm, midCounter, pc, idx, pduMid, toServer, toDevice>>

\* exo_op_done on a finished slot, as the caller's loop does after
\* exo_is_op_finished.
CallerDone(s) ==
  /\ pc = "idle"
  /\ ops[s].state \in Finished
  /\ ops' = [ops EXCEPT ![s] = OpDone(@)]
  /\ UNCHANGED <<devState, cik, nvm, midCounter, pc, idx, pduMid, toServer, toDevice>>

-----------------------------------------------------------------------------
(* exo_operate: the activation gate.                                      *)

OperateBegin ==
  /\ pc = "idle"
  /\ devState # "Uninitialized"
  /\ ops' = IF /\ devState \in {"Initialized", "BadCik"}
               /\ ops[0].state = "Null" /\ ops[0].timer = NotArmed
            THEN [ops EXCEPT ![0] = Activate(@)]
            ELSE ops
  /\ pc' = "recv"
  /\ UNCHANGED <<devState, cik, nvm, midCounter, idx, pduMid, toServer, toDevice>>

-----------------------------------------------------------------------------
(* exo_process_waiting_datagrams: one received datagram per step.          *)

OnWriteResponse(m, s) ==
  /\ ops[s].type = "Write"
  /\ ops' = [ops EXCEPT ![s].state = IF m.code = "2.xx" THEN "Success" ELSE "Error"]
  /\ devState' = IF m.code = "2.xx" THEN devState ELSE AfterReject(m)
  /\ UNCHANGED <<cik, nvm>>

\* The Read branch and the first branch of the Subscribe case; a subscription
\* that takes its first value arms the re-subscribe timer.
OnReadResponse(m, s) ==
  /\ ops[s].type \in {"Read", "Subscribe"}
  /\ ops[s].state = "Pending"
  /\ IF m.code = "2.xx"
     THEN /\ CASE CopyOutcome(ops[s], m) = "cleared" ->
                    ops' = [ops EXCEPT ![s].value = FALSE]
               [] CopyOutcome(ops[s], m) = "error" ->
                    ops' = [ops EXCEPT ![s].state = "Error"]
               [] CopyOutcome(ops[s], m) = "copied" /\ ops[s].type = "Read" ->
                    ops' = [ops EXCEPT ![s].state = "Success", ![s].seen = m.obs]
               [] OTHER ->
                    \E j \in 0..Jitter :
                      ops' = [ops EXCEPT ![s].state = "Success", ![s].seen = m.obs,
                                         ![s].timer = ObsTimeout + j]
          /\ UNCHANGED devState
     ELSE /\ ops' = [ops EXCEPT ![s].state = "Error"]
          /\ devState' = AfterReject(m)
  /\ UNCHANGED <<cik, nvm>>

\* An observe notification for a Subscribed slot, matched by token.
OnNotification(m, s) ==
  LET o == ops[s] IN
  /\ o.type = "Subscribe"
  /\ o.state = "Subscribed"
  /\ ops' = [ops EXCEPT ![s] =
               CASE CopyOutcome(o, m) = "cleared" -> [o EXCEPT !.value = FALSE]
                 [] CopyOutcome(o, m) = "error"   -> [o EXCEPT !.state = "Error"]
                 [] OTHER -> [o EXCEPT !.mid = m.mid, !.obs_seq = m.obs, !.seen = m.obs,
                                       !.state = IF o.obs_seq # m.obs
                                                 THEN "SubAckNew" ELSE "SubAck"]]
  /\ UNCHANGED <<devState, cik, nvm>>

\* The Activate branch: capture and persist a 40-byte CIK, or give up and
\* assume the device is already activated; the slot is then re-initialised.
OnActivateResponse(m, s) ==
  /\ ops[s].type = "Activate"
  /\ ops' = [ops EXCEPT ![s] = OpInit(@)]
  /\ IF m.code = "2.xx" /\ m.pay = "cik"
     THEN /\ cik' = m.key
          /\ nvm' \in StoreCik
          /\ devState' = "Good"
     ELSE /\ devState' = IF m.code = "2.xx" THEN devState ELSE "Good"
          /\ UNCHANGED <<cik, nvm>>

\* A valid datagram some slot accepts: the first such slot handles it.
RecvMatched ==
  /\ pc = "recv"
  /\ \E m \in toDevice :
       /\ Hits(m) # {}
       /\ Received(m)
       /\ LET s == Min(Hits(m)) IN
            \/ OnWriteResponse(m, s)
            \/ OnReadResponse(m, s)
            \/ OnNotification(m, s)
            \/ OnActivateResponse(m, s)
  /\ UNCHANGED <<midCounter, pc, idx, pduMid, toServer>>

\* A datagram no slot accepts: a CON is answered with an RST echoing its mid
\* and token; the receive loop then ends.
RecvUnmatched ==
  /\ pc = "recv"
  /\ \E m \in toDevice :
       /\ Hits(m) = {}
       /\ Received(m)
       /\ IF m.type = "CON"
          THEN Send(Datagram("RST", "0.00", m.mid, m.token))
          ELSE UNCHANGED toServer
  /\ pc' = "active"
  /\ idx' = 0
  /\ pduMid' = Garbage
  /\ UNCHANGED <<devState, cik, nvm, midCounter, ops>>

\* exopal_udp_recv reports no datagram waiting.
RecvNone ==
  /\ pc = "recv"
  /\ pc' = "active"
  /\ idx' = 0
  /\ pduMid' = Garbage
  /\ UNCHANGED <<devState, cik, nvm, midCounter, ops, toServer, toDevice>>

-----------------------------------------------------------------------------
(* exo_process_active_ops: one slot of the loop per step.                  *)

\* buf[] after this slot: what the slot's step left in it, gone once the
\* call returns (it is local to exo_process_active_ops).
Buf(v) == IF idx = Max(Slots) THEN Garbage ELSE v

ReqCode(t) ==
  CASE t = "Read" -> "Read" [] t = "Write" -> "Write"
    [] t = "Subscribe" -> "Observe" [] t = "Activate" -> "Activate"

\* Variant: the message-id counter is incremented without wrapping.
SendRequestNoWrap(i) ==
  /\ ops[i].state = "New"
  /\ midCounter' = midCounter + 1
  /\ pduMid' = Buf(midCounter)
  /\ \E tok \in Tokens :
       LET req == [Datagram("CON", ReqCode(ops[i].type), midCounter, tok) EXCEPT
                     !.cik = IF ops[i].type = "Activate" THEN NoKey ELSE cik]
       IN \/ /\ toServer' = Net(req)
             /\ ops' = [ops EXCEPT ![i].state = "Pending", ![i].timer = ReqTimeout,
                                   ![i].mid = midCounter, ![i].token = tok]
          \/ /\ SendMayFail
             /\ UNCHANGED <<toServer, ops>>

\* New: build the request with the next message id and a fresh token and
\* send it; on success the slot is Pending for ReqTimeout.
SendRequest(i) ==
  /\ ops[i].state = "New"
  /\ midCounter' = (midCounter + 1) % MidMod
  /\ pduMid' = Buf(midCounter)
  /\ \E tok \in Tokens :
       LET req == [Datagram("CON", ReqCode(ops[i].type), midCounter, tok) EXCEPT
                     !.cik = IF ops[i].type = "Activate" THEN NoKey ELSE cik]
       IN \/ /\ toServer' = Net(req)
             /\ ops' = [ops EXCEPT ![i].state = "Pending", ![i].timer = ReqTimeout,
                                   ![i].mid = midCounter, ![i].token = tok]
          \/ /\ SendMayFail
             /\ UNCHANGED <<toServer, ops>>

\* Variant: a subscription past its deadline is not re-registered.
ExpireNoResubscribe(i) ==
  /\ ops[i].state \in {"Pending", "Subscribed"}
  /\ Expired(ops[i].timer)
  /\ ops' = IF ops[i].type \in {"Read", "Write"} THEN [ops EXCEPT ![i].state = "Error"] ELSE ops
  /\ pduMid' = Buf(pduMid)
  /\ UNCHANGED <<midCounter, toServer>>

\* Variant: the deadline check also applies to a finished slot.
ExpireFinished(i) ==
  /\ ops[i].state \in {"Pending", "Subscribed", "Success"}
  /\ Expired(ops[i].timer)
  /\ ops' = CASE ops[i].type \in {"Read", "Write"} -> [ops EXCEPT ![i].state = "Error"]
              [] ops[i].type = "Subscribe"        -> [ops EXCEPT ![i].state = "New"]
              [] OTHER                            -> ops
  /\ pduMid' = Buf(pduMid)
  /\ UNCHANGED <<midCounter, toServer>>

\* Variant: the retry the TODO of exo_process_active_ops asks for, without a
\* bound: a read or write past its deadline is sent again.
ExpireRetry(i) ==
  /\ ops[i].state \in {"Pending", "Subscribed"}
  /\ Expired(ops[i].timer)
  /\ ops' = IF ops[i].type \in {"Read", "Write", "Subscribe"}
             THEN [ops EXCEPT ![i].state = "New"] ELSE ops
  /\ pduMid' = Buf(pduMid)
  /\ UNCHANGED <<midCounter, toServer>>

\* Pending or Subscribed past the deadline: a read or write fails, a
\* subscription re-registers, an activation is left as it is.
ExpireOp(i) ==
  /\ ops[i].state \in {"Pending", "Subscribed"}
  /\ Expired(ops[i].timer)
  /\ ops' = CASE ops[i].type \in {"Read", "Write"} -> [ops EXCEPT ![i].state = "Error"]
              [] ops[i].type = "Subscribe"        -> [ops EXCEPT ![i].state = "New"]
              [] OTHER                            -> ops
  /\ pduMid' = Buf(pduMid)
  /\ UNCHANGED <<midCounter, toServer>>

\* SubAck / SubAckNew: acknowledge the notification.  The ACK's message id
\* is read out of buf[] before the ACK is built in it: the id of the last
\* PDU built in this call, or whatever the stack held.
AckNotification(i) ==
  /\ ops[i].state \in {"SubAck", "SubAckNew"}
  /\ \E am \in (IF pduMid = Garbage THEN Mids ELSE {pduMid}) :
       /\ pduMid' = Buf(am)
       /\ \/ /\ toServer' = Net(Datagram("ACK", "0.00", am, NoToken))
             /\ \E j \in 0..Jitter :
                  ops' = [ops EXCEPT ![i].state = IF ops[i].state = "SubAck"
                                                  THEN "Subscribed" ELSE "Success",
                                     ![i].timer = ObsTimeout + j]
          \/ /\ SendMayFail
             /\ UNCHANGED <<toServer, ops>>
  /\ UNCHANGED midCounter

\* Any other slot is left alone.
SkipOp(i) ==
  /\ \/ ops[i].state \in {"Null", "Success", "Error"}
     \/ ops[i].state \in {"Pending", "Subscribed"} /\ ~Expired(ops[i].timer)
  /\ pduMid' = Buf(pduMid)
  /\ UNCHANGED <<midCounter, ops, toServer>>

ActiveStep ==
  /\ pc = "active"
  /\ \/ SendRequest(idx)
     \/ ExpireOp(idx)
     \/ AckNotification(idx)
     \/ SkipOp(idx)
  /\ idx' = IF idx = Max(Slots) THEN 0 ELSE idx + 1
  /\ pc' = IF idx = Max(Slots) THEN "idle" ELSE "active"
  /\ UNCHANGED <<devState, cik, nvm, toDevice>>

\* The value exo_operate returns once the slot loop is done.
OperateStatus ==
  IF \E s \in Slots : ops[s].state = "New" THEN "Busy"
  ELSE IF \E s \in Slots : ops[s].state = "Pending" THEN "Waiting"
  ELSE "Idle"

-----------------------------------------------------------------------------
(* Time passes between two polls: every deadline comes one tick closer.    *)

Tick ==
  /\ pc = "idle"
  /\ \E s \in Slots : ops[s].timer > 0
  /\ ops' = [s \in Slots |-> [ops[s] EXCEPT !.timer = IF @ > 0 THEN @ - 1 ELSE @]]
  /\ UNCHANGED <<devState, cik, nvm, midCounter, pc, idx, pduMid, toServer, toDevice>>

EngineStep ==
  \/ OperateBegin \/ RecvMatched \/ RecvUnmatched \/ RecvNone \/ ActiveStep

CallerStep ==
  \/ \E sock \in SockOutcomes : ExoInit(sock)
  \/ \E s \in UserSlots : \/ \E t \in Role[s] : CallerStage(s, t)
                          \/ CallerDone(s)
=============================================================================
