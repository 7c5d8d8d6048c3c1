----------------------------- MODULE ObserveSeq -----------------------------
(***************************************************************************)
(* The Observe-option decoding of the notification branch of               *)
(* process_waiting_datagrams (src/src/exosite.c) and the freshness verdict *)
(* built on it.  The option value arrives as 0..3 (or more) big-endian     *)
(* bytes; the code folds them into a uint32_t new_seq with                 *)
(*     new_seq = (new_seq << (8*j)) | opt.val[j]                            *)
(* and compares the result with the obs_seq held in the slot.              *)
(*                                                                         *)
(* The state is the slot's obs_seq, the value the platform meant to send   *)
(* (sent, a ghost) and the verdict of the last notification.               *)
(***************************************************************************)
EXTENDS Integers, Sequences, SequencesExt

CONSTANTS
  Bytes,    \* the byte values an option may carry
  MaxLen    \* the longest Observe option value considered

\* Option values in the uint format of RFC 7252 section 3.2: no leading
\* zero byte, the value 0 being the empty option.
Options == {v \in BoundedSeq(Bytes, MaxLen) : v = <<>> \/ v[1] # 0}

\* x << n on the uint32_t new_seq: the bits shifted past bit 31 are lost,
\* i.e. (x * 2^n) % 2^32, computed without leaving TLC's integer range.
Shl(x, n) == IF n = 0 THEN x ELSE (x % 2^(32 - n)) * 2^n

\* The loop of lines 365-366: byte j (1-based here) is or-ed in after the
\* running value is shifted left by 8*(j-1) bits.  The low
\* 8*(j-1) bits of the shifted value are zero, so the or is an addition.
RECURSIVE DecodeFrom(_, _, _)
DecodeFrom(val, j, acc) ==
  IF j > Len(val) THEN acc
  ELSE DecodeFrom(val, j + 1, Shl(acc, 8 * (j - 1)) + val[j])

\* Variant: the loop starts one byte late.
DecodeSkipFirst(val) == DecodeFrom(val, 2, 0)

Decode(val) == DecodeFrom(val, 1, 0)

\* Reference: the unsigned big-endian integer the option encodes (RFC 7641).
BigEndian(val) == FoldLeft(LAMBDA acc, b : acc * 256 + b, 0, val)

VARIABLES obs_seq, sent, verdict
vars == <<obs_seq, sent, verdict>>

\* A fresh subscription: obs_seq is cleared by exo_op_init.
Init ==
  /\ obs_seq = 0
  /\ sent = 0
  /\ verdict = "None"

\* A notification carrying Observe value v is accepted by a Subscribed slot
\* (lines 361-382): a decoded sequence that differs from obs_seq is a new
\* value (SubAckNew, obs_seq updated), an equal one a silent refresh.
Notification(v) ==
  LET new_seq == Decode(v) IN
  /\ verdict' = IF obs_seq # new_seq THEN "SubAckNew" ELSE "SubAck"
  /\ obs_seq' = IF obs_seq # new_seq THEN new_seq ELSE obs_seq
  /\ sent' = BigEndian(v)

Next == \E v \in Options : Notification(v)

Spec == Init /\ [][Next]_vars

\* A notification whose Observe value differs from the previous one is
\* reported as a new value (SubAckNew), so the caller sees every update:
\* the decode of line 366 never maps two different values to one new_seq.
NewValueNeverMissed == [][sent' # sent => verdict' = "SubAckNew"]_vars
=============================================================================
